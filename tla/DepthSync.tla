----------------------------- MODULE DepthSync -----------------------------
(***************************************************************************)
(* The local order book that crypto-market-data keeps for one symbol: diff  *)
(* depth events from the websocket, a REST snapshot to start from, a buffer *)
(* for the events that arrive before the snapshot.  A side of the book is   *)
(* the set of update ids it reflects: a snapshot at id n reflects 1..n, an  *)
(* event [first, final] adds first..final (levels carry absolute            *)
(* quantities).  Books of different symbols share nothing but counters.     *)
(***************************************************************************)
EXTENDS Integers, Sequences

CONSTANTS
    MaxBufferedEvents,  \* MAX_BUFFERED_EVENTS
    MaxId,              \* bound: update ids
    MaxSpan,            \* bound: ids one event covers
    MaxFaults           \* bound: lost, repeated or unreadable data

ASSUME DepthConfigValid ==
    /\ MaxBufferedEvents \in Nat \ {0} /\ MaxSpan \in Nat \ {0}
    /\ MaxId \in Nat /\ MaxFaults \in Nat

VARIABLES
    emitted,            \* the exchange: id of its newest update
    wire,               \* events in the socket, oldest first
    book,               \* last_update_id, bids, asks, buffered_events
    attempted,          \* snapshot_attempted holds the symbol
    phase,              \* "idle", or "fetching" at the await of the snapshot
    watch,              \* "running" or how the watch ended
    stats,              \* the counters of BinanceIngestWatchStats used here
    faults,
    seen,               \* history: greatest final id handled
    since,              \* history: events handled since the last request
    unparsed            \* history: the book's snapshot did not parse

exchangeVars == <<emitted, wire>>
vars == <<emitted, wire, book, attempted, phase, watch, stats, faults, seen, since, unparsed>>

NoId == 0
Event == {e \in [first : 1..MaxId, final : 1..MaxId, bad : BOOLEAN] : e.first <= e.final}
is_synced(b) == b.last # NoId

reset_after_overflow == [last |-> NoId, bids |-> {}, asks |-> {}, buffered |-> <<>>]
reset_for_resync(e) == [reset_after_overflow EXCEPT !.buffered = <<e>>]

buffered_at_capacity == Len(book.buffered) >= MaxBufferedEvents

Init ==
    /\ emitted = 0 /\ wire = <<>>
    /\ book = reset_after_overflow
    /\ attempted = FALSE /\ phase = "idle" /\ watch = "running"
    /\ stats = [requests |-> 0, successes |-> 0, failures |-> 0, overflows |-> 0, alerts |-> 0,
                synced |-> 0, buffering |-> 0, last_alert |-> "none"]
    /\ faults = 0 /\ seen = 0 /\ since = 0 /\ unparsed = FALSE

Fault == faults < MaxFaults /\ faults' = faults + 1

(***************************************************************************)
(* The exchange and the socket                                              *)
(***************************************************************************)

client == <<book, attempted, phase, watch, stats, seen, since, unparsed>>

\* A diff event covers the updates since the one before it.
ExchangeSends(n) ==
    /\ emitted + n <= MaxId
    /\ emitted' = emitted + n
    /\ wire' = Append(wire, [first |-> emitted + 1, final |-> emitted + n, bad |-> FALSE])
    /\ UNCHANGED <<client, faults>>

EventLost ==
    /\ wire # <<>> /\ Fault
    /\ wire' = Tail(wire)
    /\ UNCHANGED <<emitted, client>>

EventRepeated ==
    /\ wire # <<>> /\ Len(wire) < MaxId /\ Fault
    /\ wire' = Append(wire, Head(wire))
    /\ UNCHANGED <<emitted, client>>

EventGarbled ==
    /\ wire # <<>> /\ ~Head(wire).bad /\ Fault
    /\ wire' = <<[Head(wire) EXCEPT !.bad = TRUE]>> \o Tail(wire)
    /\ UNCHANGED <<emitted, client>>

(***************************************************************************)
(* handle_diff_depth_event                                                  *)
(***************************************************************************)

record_gap_alert(st, kind) == [st EXCEPT !.alerts = @ + 1, !.last_alert = kind]

update_depth_book_counts(st, b) ==
    [st EXCEPT !.synced = IF is_synced(b) THEN 1 ELSE 0,
               !.buffering = IF is_synced(b) THEN 0 ELSE 1]

\* Takes the oldest event out of the socket.
Receive(e) ==
    /\ watch = "running" /\ phase = "idle"
    /\ wire # <<>> /\ e = Head(wire) /\ wire' = Tail(wire)
    /\ seen' = IF e.final > seen THEN e.final ELSE seen
    /\ UNCHANGED <<emitted, watch, faults>>

\* The end of every handler: an unsynced book with no attempt on record asks
\* for a snapshot and waits for it.
FetchOrReturn(b, tried, st) ==
    /\ book' = b
    /\ IF ~is_synced(b) /\ ~tried
       THEN /\ attempted' = TRUE /\ phase' = "fetching" /\ since' = 0
            /\ stats' = [st EXCEPT !.requests = @ + 1]
       ELSE /\ attempted' = tried /\ phase' = "idle" /\ since' = since + 1
            /\ stats' = update_depth_book_counts(st, b)

\* mutant: one missing update is tolerated
JoinsLoosely(e, last) == e.first <= last + 2

Joins(e, last) == e.first <= last + 1

apply_depth_delta(b, e) ==
    [b EXCEPT !.last = e.final, !.bids = @ \cup e.first..e.final,
              !.asks = @ \cup e.first..e.final]

OldEvent(e) ==
    /\ Receive(e)
    /\ is_synced(book) /\ e.final <= book.last
    /\ FetchOrReturn(book, attempted, stats)
    /\ UNCHANGED unparsed

SequenceGap(e) ==
    /\ Receive(e)
    /\ is_synced(book) /\ e.final > book.last /\ ~Joins(e, book.last)
    /\ FetchOrReturn(reset_for_resync(e), FALSE, record_gap_alert(stats, "sequence_gap"))
    /\ unparsed' = FALSE

Delta(e) ==
    /\ Receive(e)
    /\ is_synced(book) /\ e.final > book.last /\ Joins(e, book.last) /\ ~e.bad
    /\ FetchOrReturn(apply_depth_delta(book, e), attempted, stats)
    /\ UNCHANGED unparsed

DeltaUnparsed(e) ==
    /\ Receive(e)
    /\ is_synced(book) /\ e.final > book.last /\ Joins(e, book.last) /\ e.bad
    /\ FetchOrReturn(reset_after_overflow, FALSE, record_gap_alert(stats, "delta_parse"))
    /\ unparsed' = FALSE

Buffered(e) ==
    /\ Receive(e)
    /\ ~is_synced(book) /\ ~buffered_at_capacity
    /\ FetchOrReturn([book EXCEPT !.buffered = Append(@, e)], attempted, stats)
    /\ UNCHANGED unparsed

\* mutant: the attempt stays on record
BufferOverflowKeepsAttempt(e) ==
    /\ Receive(e)
    /\ ~is_synced(book) /\ buffered_at_capacity
    /\ LET st == record_gap_alert(stats, "buffered_overflow")
       IN  FetchOrReturn(reset_for_resync(e), attempted, [st EXCEPT !.overflows = @ + 1])
    /\ UNCHANGED unparsed

BufferOverflow(e) ==
    /\ Receive(e)
    /\ ~is_synced(book) /\ buffered_at_capacity
    /\ LET st == record_gap_alert(stats, "buffered_overflow")
       IN  FetchOrReturn(reset_for_resync(e), FALSE, [st EXCEPT !.overflows = @ + 1])
    /\ UNCHANGED unparsed

(***************************************************************************)
(* fetch_and_sync_snapshot                                                  *)
(***************************************************************************)

\* One buffered event: nothing happens after an alert, an event the book has
\* is passed over, a gap or an unreadable event ends the replay.
ReplayEvent(acc, e) ==
    IF acc.alert # "none" \/ e.final <= acc.book.last THEN acc
    ELSE IF ~Joins(e, acc.book.last)
    THEN [book |-> [acc.book EXCEPT !.buffered = <<e>>], alert |-> "buffered_sequence_gap"]
    ELSE IF e.bad THEN [book |-> reset_after_overflow, alert |-> "delta_parse"]
    ELSE [book |-> apply_depth_delta(acc.book, e), alert |-> "none"]

\* The buffered events applied in order.
Replay(b, events) ==
    LET acc[i \in 0..Len(events)] ==
            IF i = 0 THEN [book |-> b, alert |-> "none"] ELSE ReplayEvent(acc[i - 1], events[i])
    IN  acc[Len(events)]

\* The events that reach beyond id n, in their order.
Retained(events, n) ==
    LET kept[i \in 0..Len(events)] ==
            IF i = 0 THEN <<>>
            ELSE IF events[i].final > n THEN Append(kept[i - 1], events[i]) ELSE kept[i - 1]
    IN  kept[Len(events)]

\* The book when the snapshot at id n is in place, sides that did not parse
\* ("bids": neither was set, "asks": only the bids were).
Placed(n, failing) ==
    [book EXCEPT !.last = n,
                 !.bids = IF failing = "bids" THEN @ ELSE 1..n,
                 !.asks = IF failing = "none" THEN 1..n ELSE @]

sync_depth_book_from_snapshot(n, failing) ==
    LET b == Placed(n, failing)
        kept == Retained(book.buffered, n)
    IN  IF failing # "none" THEN [book |-> b, alert |-> "snapshot_parse"]
        ELSE IF kept # <<>> /\ ~Joins(Head(kept), n)
        THEN [book |-> [b EXCEPT !.buffered = kept], alert |-> "snapshot_alignment_gap"]
        ELSE Replay([b EXCEPT !.buffered = <<>>], kept)

\* mutant: the failed synchronisation raises no alert
SnapshotArrivesQuietly(n, failing) ==
    /\ watch = "running" /\ phase = "fetching"
    /\ failing # "none" => Fault
    /\ failing = "none" => UNCHANGED faults
    /\ LET r == sync_depth_book_from_snapshot(n, failing)
       IN  /\ book' = r.book
           /\ attempted' = (r.alert = "none")
           /\ stats' = update_depth_book_counts([stats EXCEPT !.successes = @ + 1], r.book)
           /\ unparsed' = (failing # "none")
    /\ phase' = "idle"
    /\ UNCHANGED <<exchangeVars, watch, seen, since>>

\* The answer is the exchange's book at some id up to its newest update.
SnapshotArrives(n, failing) ==
    /\ watch = "running" /\ phase = "fetching"
    /\ failing # "none" => Fault
    /\ failing = "none" => UNCHANGED faults
    /\ LET r == sync_depth_book_from_snapshot(n, failing)
           st == [stats EXCEPT !.successes = @ + 1]
       IN  /\ book' = r.book
           /\ attempted' = (r.alert = "none")
           /\ stats' = update_depth_book_counts(
                           IF r.alert = "none" THEN st ELSE record_gap_alert(st, r.alert), r.book)
           /\ unparsed' = (failing # "none")
    /\ phase' = "idle"
    /\ UNCHANGED <<exchangeVars, watch, seen, since>>

SnapshotFetchFails ==
    /\ watch = "running" /\ phase = "fetching" /\ Fault
    /\ stats' = update_depth_book_counts(
                    record_gap_alert([stats EXCEPT !.failures = @ + 1], "snapshot_fetch_failed"),
                    book)
    /\ phase' = "idle"
    /\ UNCHANGED <<exchangeVars, book, attempted, watch, seen, since, unparsed>>

\* The deadline, a close frame, the end of the stream, or an error: of the
\* socket, or of a message that is no diff event.
WatchEnds(how) ==
    /\ watch = "running" /\ phase = "idle"
    /\ watch' = how
    /\ UNCHANGED <<exchangeVars, book, attempted, phase, stats, faults, seen, since, unparsed>>

HandleDiffDepthEvent(e) ==
    \/ OldEvent(e) \/ SequenceGap(e) \/ Delta(e) \/ DeltaUnparsed(e)
    \/ Buffered(e) \/ BufferOverflow(e)

Next ==
    \/ \E n \in 1..MaxSpan : ExchangeSends(n)
    \/ EventLost \/ EventRepeated \/ EventGarbled
    \/ wire # <<>> /\ HandleDiffDepthEvent(Head(wire))
    \/ \E n \in 1..emitted, failing \in {"none", "bids", "asks"} : SnapshotArrives(n, failing)
    \/ SnapshotFetchFails
    \/ \E how \in {"finished", "closed", "ended", "error"} : WatchEnds(how)

Spec == Init /\ [][Next]_vars

(***************************************************************************)
(* Properties                                                               *)
(***************************************************************************)

\* A synced book is the exchange's book at its last_update_id: no update is
\* missing and none is from later, whatever was lost, repeated, buffered or
\* answered late.  Only a snapshot that does not parse breaks it: the book
\* counts as synced from then on (sync_depth_book_from_snapshot).
BookFaithful ==
    is_synced(book) /\ ~unparsed => book.bids = 1..book.last /\ book.asks = 1..book.last

\* A synced book that is behind the events already handled is not lagging in
\* silence: the newest alert is of a step that dropped events (gap alerts).
LagIsAlerted ==
    phase = "idle" /\ is_synced(book) /\ book.last < seen =>
        stats.last_alert \notin {"none", "snapshot_fetch_failed"}

\* After a failed fetch the next one comes with the buffer's overflow at the
\* latest: an unsynced book never handles more than MAX_BUFFERED_EVENTS events
\* without asking (should_fetch_snapshot, buffer_unsynced_depth_event).
RetriedWithinBuffer ==
    phase = "idle" /\ ~is_synced(book) => since <= MaxBufferedEvents

=============================================================================

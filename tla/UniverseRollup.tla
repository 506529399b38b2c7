--------------------------- MODULE UniverseRollup ---------------------------
(***************************************************************************)
(* The daily bootstrap rollups and the symbol universe.  A successful      *)
(* normalization run downloads the rollups of the last days, merges what   *)
(* it built for its own range into them, puts them back without condition, *)
(* and publishes the universe snapshot it computes from them.  The worker  *)
(* and the normalize child of the bootstrap scheduler do this at the same  *)
(* time, on the same objects; a run that fails is made again.              *)
(*                                                                         *)
(* A slice row is a row of Slices, in the order the build produces them;   *)
(* notional is price times volume.  A native symbol is abstracted to the   *)
(* venue whose naming it follows.  Medians are kept twice their value.     *)
(***************************************************************************)
EXTENDS Integers, Sequences, FiniteSets, SequencesExt, FiniteSetsExt

CONSTANTS
    Publisher,      \* the processes that publish
    Ranges,         \* the input ranges of runs: sets of slots
    Slices,         \* the slice rows of all slots
    DaySlots,       \* slots per day (ONE_DAY_MS)
    BOOTSTRAP_ROLLUP_DAYS, MIN_BOOTSTRAP_DAYS, MIN_REFERENCE_WARMUP_BOOTSTRAP_DAYS,
    MAX_APPROVED_RANK, MAX_MEDIAN_SPREAD_BPS,
    MAX_GAP_PERCENT,    \* MAX_GAP_RATE
    MaxAttempts,    \* MAX_PUT_OBJECT_ATTEMPTS
    MaxRuns         \* bound on the runs started

Row == [slot : Nat, symbol : Nat, venue : {"binance", "upbit"}, notional : Nat,
        spread : Nat \cup {-1}, gap : {0, 1}]

ASSUME UniverseConfigValid ==
    /\ Slices \in Seq(Row) /\ \A range \in Ranges : range \subseteq Nat /\ range # {}
    /\ {DaySlots, BOOTSTRAP_ROLLUP_DAYS, MIN_BOOTSTRAP_DAYS, MaxAttempts} \subseteq Nat \ {0}

VARIABLES
    rollups,    \* the bucket: day -> rollup object
    pc,         \* publisher -> "idle", "read", "merge" or "snapshot"
    range,      \* publisher -> input range of its run
    todo,       \* publisher -> days left to read, or to merge
    local,      \* publisher -> day -> rollup it holds (bootstrap_rollup_read)
    attempt,    \* publisher -> puts of the current object that got no answer
    universe,   \* publisher -> the snapshot it published last
    started,    \* runs started
    built       \* history: the ranges some run has put into a rollup, by day

vars == <<rollups, pc, range, todo, local, attempt, universe, started, built>>

NoSpread == -1
Day(slot) == slot \div DaySlots
Days == {Day(slot) : slot \in UNION Ranges}
Symbols == {Slices[i].symbol : i \in DOMAIN Slices}
EndDay(rg) == Day(Max(rg))

\* bootstrap_rollup_day_starts: the last days up to the last slot of the range.
DayStarts(rg) == {d \in Days : EndDay(rg) - BOOTSTRAP_ROLLUP_DAYS < d /\ d <= EndDay(rg)}

(***************************************************************************)
(* Rollups                                                                  *)
(***************************************************************************)

\* schema: "v1", another schema version, or bytes that do not parse.
Absent == [schema |-> "absent", windows |-> {}, symbols |-> <<>>]
OldSchema == [schema |-> "v0", windows |-> {}, symbols |-> <<>>]
Unreadable == [schema |-> "unreadable", windows |-> {}, symbols |-> <<>>]

\* Twice the median of a non-empty sequence.
Median(values) ==
    LET sorted == SortSeq(values, <)
        middle == Len(values) \div 2
    IN  IF Len(values) % 2 = 0 THEN sorted[middle] + sorted[middle + 1] ELSE 2 * sorted[middle + 1]

\* assign_native_symbols: whatever the venue, the first row sets both names.
AssignNative(native, venue) ==
    LET execution == IF venue = "upbit" /\ native.execution = "none" THEN "upbit" ELSE native.execution
        reference == IF venue = "binance" /\ native.reference = "none" THEN "binance" ELSE native.reference
    IN  [execution |-> IF execution = "none" THEN venue ELSE execution,
         reference |-> IF reference = "none" THEN venue ELSE reference]

EmptyStats == [native |-> [execution |-> "none", reference |-> "none"],
               notional |-> 0, spreads |-> <<>>, gaps |-> 0, windows |-> 0]

ObserveSlice(stats, row) ==
    [native |-> AssignNative(stats.native, row.venue),
     notional |-> stats.notional + row.notional,
     spreads |-> IF row.spread = NoSpread THEN stats.spreads ELSE Append(stats.spreads, row.spread),
     gaps |-> stats.gaps + row.gap,
     windows |-> stats.windows + 1]

IntoSymbolStats(stats) ==
    [stats EXCEPT !.spreads = IF @ = <<>> THEN <<>> ELSE <<Median(@)>>]

RowsOf(rg, d, symbol) ==
    SelectSeq(Slices, LAMBDA row : row.slot \in rg /\ Day(row.slot) = d /\ row.symbol = symbol)

\* build_symbol_universe_bootstrap_rollups, the rollup of one day.
BuildRollup(rg, d) ==
    [schema |-> "v1", windows |-> {rg},
     symbols |-> [y \in {y \in Symbols : RowsOf(rg, d, y) # <<>>} |->
                     IntoSymbolStats(FoldLeft(ObserveSlice, EmptyStats, RowsOf(rg, d, y)))]]

\* The rollups a run on rg builds: one for each day it has slices of.
CurrentRollups ==
    [rg \in Ranges |-> [d \in {d \in Days : \E y \in Symbols : RowsOf(rg, d, y) # <<>>} |->
                           BuildRollup(rg, d)]]

BuiltDays(rg) == DOMAIN CurrentRollups[rg]

MergeNative(mine, theirs) == IF mine = "none" THEN theirs ELSE mine

MergeSymbol(mine, theirs) ==
    [native |-> [execution |-> MergeNative(mine.native.execution, theirs.native.execution),
                 reference |-> MergeNative(mine.native.reference, theirs.native.reference)],
     notional |-> mine.notional + theirs.notional,
     spreads |-> mine.spreads \o theirs.spreads,
     gaps |-> mine.gaps + theirs.gaps,
     windows |-> mine.windows + theirs.windows]

MergeSymbols(mine, theirs) ==
    [y \in DOMAIN mine \cup DOMAIN theirs |->
        IF y \notin DOMAIN theirs THEN mine[y]
        ELSE IF y \notin DOMAIN mine THEN theirs[y] ELSE MergeSymbol(mine[y], theirs[y])]

\* mutant: a range that is in the rollup already is added again
MergeAgain(existing, current) ==
    IF existing.schema # "v1" THEN current
    ELSE [schema |-> "v1", windows |-> existing.windows \cup current.windows,
          symbols |-> MergeSymbols(existing.symbols, current.symbols)]

\* A range counts once: a rollup that lists it is put back as it is.
Merge(existing, current) ==
    IF existing.schema # "v1" THEN current
    ELSE IF current.windows \cap existing.windows # {} THEN existing
    ELSE [schema |-> "v1", windows |-> existing.windows \cup current.windows,
          symbols |-> MergeSymbols(existing.symbols, current.symbols)]

(***************************************************************************)
(* symbol_stats_from_bootstrap and the selection policy                     *)
(***************************************************************************)

\* The rollups of v1 within the last days before the end of the range.
Counted(rg, held) == {d \in DOMAIN held \cap DayStarts(rg) : held[d].schema = "v1"}

Concat(seqs) == FoldLeft(LAMBDA a, b : a \o b, <<>>, seqs)

\* What the snapshot knows of a symbol.  The rollups are in the order of their
\* days, the ones that were taken out and merged at the end.
SymbolStats(rg, held, y) ==
    LET before(d, e) == IF (d \in BuiltDays(rg)) = (e \in BuiltDays(rg)) THEN d < e
                        ELSE e \in BuiltDays(rg)
        days == SetToSortSeq({d \in Counted(rg, held) : y \in DOMAIN held[d].symbols}, before)
        of(field(_)) == [i \in DOMAIN days |-> field(held[days[i]].symbols[y])]
        spreads == Concat(of(LAMBDA s : s.spreads))
        own == FoldLeft(LAMBDA n, row : AssignNative(n, row.venue), EmptyStats.native,
                        SelectSeq(Slices, LAMBDA row : row.slot \in rg /\ row.symbol = y))
    IN  [days |-> Len(days),
         reference |-> IF own.reference # "none" \/ days = <<>> THEN own.reference
                       ELSE of(LAMBDA s : s.native.reference)[1],
         notional |-> IF days = <<>> THEN 0 ELSE Median(of(LAMBDA s : s.notional)),
         spread |-> IF spreads = <<>> THEN NoSpread ELSE Median(spreads),
         gaps |-> FoldLeft(+, 0, of(LAMBDA s : s.gaps)),
         windows |-> FoldLeft(+, 0, of(LAMBDA s : s.windows))]

\* mutant: a symbol is admitted one day early
FullyBootstrappedEarly(stat) == stat.days >= MIN_BOOTSTRAP_DAYS - 1

FullyBootstrapped(stat) == stat.days >= MIN_BOOTSTRAP_DAYS

\* A symbol named the Binance way is ranked during its warm-up.
RankEligible(stat) ==
    /\ stat.notional > 0
    /\ FullyBootstrapped(stat) \/ (stat.days >= MIN_REFERENCE_WARMUP_BOOTSTRAP_DAYS
                                   /\ stat.reference = "binance")

NoRank == 0

LiquidityRanks(stats) ==
    [y \in DOMAIN stats |->
        IF ~RankEligible(stats[y]) THEN NoRank
        ELSE 1 + Cardinality({z \in DOMAIN stats :
                    /\ RankEligible(stats[z])
                    /\ \/ stats[z].notional > stats[y].notional
                       \/ stats[z].notional = stats[y].notional /\ z < y})]

WithinRank(rank) == rank # NoRank /\ rank <= MAX_APPROVED_RANK
SpreadOk(stat) == stat.spread # NoSpread /\ stat.spread <= 4 * MAX_MEDIAN_SPREAD_BPS
GapRateOk(stat) == stat.windows > 0 /\ 100 * stat.gaps <= MAX_GAP_PERCENT * stat.windows

Approved(stat, rank) ==
    /\ FullyBootstrapped(stat) /\ WithinRank(rank)
    /\ stat.notional > 0 /\ SpreadOk(stat) /\ GapRateOk(stat)

StatusReason(stat, rank) ==
    IF Approved(stat, rank) THEN "approved"
    ELSE IF ~FullyBootstrapped(stat) THEN "insufficient_30d_bootstrap"
    ELSE IF ~WithinRank(rank) THEN "outside_top_50_liquidity_rank"
    ELSE IF stat.notional = 0 THEN "missing_30d_traded_notional"
    ELSE IF stat.spread = NoSpread THEN "missing_30d_spread"
    ELSE IF ~SpreadOk(stat) THEN "spread_too_wide_30d"
    ELSE IF ~GapRateOk(stat) THEN "gap_rate_too_high_30d"
    ELSE "not_admitted"

\* build_symbol_universe_snapshot_from_bootstrap
Snapshot(rg, held) ==
    LET members == {Slices[i].symbol : i \in {i \in DOMAIN Slices : Slices[i].slot \in rg}}
                       \cup UNION {DOMAIN held[d].symbols : d \in Counted(rg, held)}
        stats == [y \in members |-> SymbolStats(rg, held, y)]
        ranks == LiquidityRanks(stats)
    IN  [range |-> rg,
         included |-> {y \in members : Approved(stats[y], ranks[y])},
         ranks |-> ranks,
         reason |-> [y \in members |-> StatusReason(stats[y], ranks[y])]]

NoSnapshot == [range |-> {}, included |-> {}, ranks |-> <<>>, reason |-> <<>>]

(***************************************************************************)
(* publish_bootstrap_rollup_and_universe                                    *)
(***************************************************************************)

\* A rollup that was seeded by hand may be foreign to this version.
Seeded == {[d \in Days |-> IF d = seed THEN foreign ELSE Absent] :
              seed \in Days, foreign \in {Absent, OldSchema, Unreadable}}

Init ==
    /\ rollups \in Seeded
    /\ pc = [p \in Publisher |-> "idle"]
    /\ range = [p \in Publisher |-> {}]
    /\ todo = [p \in Publisher |-> {}]
    /\ local = [p \in Publisher |-> <<>>]
    /\ attempt = [p \in Publisher |-> 0]
    /\ universe = [p \in Publisher |-> NoSnapshot]
    /\ started = 0
    /\ built = [d \in Days |-> {}]

\* A run, new or made again, gets to its rollups.
BeginRun(p, rg) ==
    /\ pc[p] = "idle" /\ started < MaxRuns
    /\ started' = started + 1
    /\ pc' = [pc EXCEPT ![p] = "read"]
    /\ range' = [range EXCEPT ![p] = rg]
    /\ todo' = [todo EXCEPT ![p] = DayStarts(rg)]
    /\ local' = [local EXCEPT ![p] = <<>>]
    /\ UNCHANGED <<rollups, attempt, universe, built>>

\* An absent rollup and one that does not parse are left out.
ReadRollup(p) ==
    /\ pc[p] = "read" /\ todo[p] # {}
    /\ LET d == Min(todo[p])
           keep == rollups[d].schema \notin {"absent", "unreadable"}
       IN  /\ local' = IF keep THEN [local EXCEPT ![p] = (d :> rollups[d]) @@ @] ELSE local
           /\ todo' = [todo EXCEPT ![p] = @ \ {d}]
    /\ UNCHANGED <<rollups, pc, range, attempt, universe, started, built>>

BuildCurrent(p) ==
    /\ pc[p] = "read" /\ todo[p] = {}
    /\ pc' = [pc EXCEPT ![p] = "merge"]
    /\ todo' = [todo EXCEPT ![p] = BuiltDays(range[p])]
    /\ UNCHANGED <<rollups, range, local, attempt, universe, started, built>>

\* The rollup of a day as the run will put it, from what it read.
Merged(p, d) ==
    Merge(IF d \in DOMAIN local[p] THEN local[p][d] ELSE Absent, CurrentRollups[range[p]][d])

PutObject(p, d) ==
    /\ rollups' = [rollups EXCEPT ![d] = Merged(p, d)]
    /\ built' = [built EXCEPT ![d] = @ \cup {range[p]}]

\* The put is unconditional.
PutRollup(p) ==
    /\ pc[p] = "merge" /\ todo[p] # {}
    /\ LET d == Min(todo[p])
       IN  /\ PutObject(p, d)
           /\ local' = [local EXCEPT ![p] = (d :> Merged(p, d)) @@ @]
           /\ todo' = [todo EXCEPT ![p] = @ \ {d}]
    /\ attempt' = [attempt EXCEPT ![p] = 0]
    /\ UNCHANGED <<pc, range, universe, started>>

\* The bucket applies the put, its answer is lost, and the put is sent again.
PutAnswerLost(p) ==
    /\ pc[p] = "merge" /\ todo[p] # {} /\ attempt[p] + 1 < MaxAttempts
    /\ PutObject(p, Min(todo[p]))
    /\ attempt' = [attempt EXCEPT ![p] = @ + 1]
    /\ UNCHANGED <<pc, range, todo, local, universe, started>>

Done(p) ==
    /\ pc' = [pc EXCEPT ![p] = "idle"]
    /\ range' = [range EXCEPT ![p] = {}]
    /\ todo' = [todo EXCEPT ![p] = {}]
    /\ local' = [local EXCEPT ![p] = <<>>]
    /\ attempt' = [attempt EXCEPT ![p] = 0]

PutSnapshot(p) ==
    /\ pc[p] = "merge" /\ todo[p] = {}
    /\ universe' = [universe EXCEPT ![p] = Snapshot(range[p], local[p])]
    /\ Done(p)
    /\ UNCHANGED <<rollups, started, built>>

\* A call fails for good, or the process dies: what was put stays.
Abandon(p) ==
    /\ pc[p] # "idle"
    /\ Done(p)
    /\ UNCHANGED <<rollups, universe, started, built>>

Next ==
    \E p \in Publisher :
        \/ \E rg \in Ranges : BeginRun(p, rg)
        \/ ReadRollup(p) \/ BuildCurrent(p) \/ PutRollup(p) \/ PutAnswerLost(p)
        \/ PutSnapshot(p) \/ Abandon(p)

Spec == Init /\ [][Next]_vars

(***************************************************************************)
(* Properties.                                                              *)
(***************************************************************************)

Written(d) == rollups[d].schema = "v1"

\* Each range a rollup lists is in its numbers exactly once, and nothing else
\* is: however runs are retried, abandoned half-way or interleaved, a symbol's
\* notional, gaps and windows of a day are the sums over the listed ranges.
CountedOnce ==
    \A d \in Days : Written(d) =>
        /\ DOMAIN rollups[d].symbols = UNION {DOMAIN CurrentRollups[rg][d].symbols : rg \in rollups[d].windows}
        /\ \A y \in DOMAIN rollups[d].symbols :
            LET with == {rg \in rollups[d].windows : y \in DOMAIN CurrentRollups[rg][d].symbols}
                sum(field(_)) == MapThenSumSet(LAMBDA rg : field(CurrentRollups[rg][d].symbols[y]), with)
                stats == rollups[d].symbols[y]
            IN  /\ stats.notional = sum(LAMBDA s : s.notional)
                /\ stats.gaps = sum(LAMBDA s : s.gaps)
                /\ stats.windows = sum(LAMBDA s : s.windows)
                /\ Len(stats.spreads) = sum(LAMBDA s : Len(s.spreads))

\* An approved symbol has slices on every one of the required days, put there
\* by runs that really ran, and the approved symbols are the most liquid ones
\* by the ranks published with them, which no two symbols share.
ApprovedIsEarned ==
    \A p \in Publisher : \A y \in universe[p].included :
        /\ Cardinality({d \in DayStarts(universe[p].range) :
                           \E rg \in built[d] : y \in DOMAIN CurrentRollups[rg][d].symbols}) >= MIN_BOOTSTRAP_DAYS
        /\ universe[p].ranks[y] \in 1..MAX_APPROVED_RANK
        /\ \A z \in DOMAIN universe[p].ranks \ {y} : universe[p].ranks[z] # universe[p].ranks[y]

=============================================================================

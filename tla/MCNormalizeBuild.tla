-------------------------- MODULE MCNormalizeBuild --------------------------
(***************************************************************************)
(* NormalizeBuild for TLC: two input windows, two windows of lookback, and *)
(* two families of worlds.  In content worlds everything is in the bucket  *)
(* and what the objects hold varies; in movement worlds the contents are   *)
(* fixed and objects are written, uploaded and evicted during the run.     *)
(***************************************************************************)
EXTENDS NormalizeBuild

NoSequence == 1000

Raw(id, kind, time, ingest, sequence) ==
    [id |-> id, kind |-> kind, symbol |-> "a", time |-> time, ingest |-> ingest,
     sequence |-> sequence, parses |-> TRUE, schema_ok |-> TRUE, hash_ok |-> TRUE]
Symbol(at, received, tradeable) ==
    [symbol |-> "a", at |-> at, received |-> received, is_tradeable |-> tradeable,
     schema_ok |-> TRUE, hash_ok |-> TRUE]
Source(at, connected, healthy) ==
    [at |-> at, connected |-> connected, healthy |-> healthy, schema_ok |-> TRUE, hash_ok |-> TRUE]
Gap(symbol, at) == [symbol |-> symbol, at |-> at, schema_ok |-> TRUE, hash_ok |-> TRUE]

Book == Raw(1, "book_ticker", 105, 106, NoSequence)
Trade == Raw(2, "trade", 103, 104, 7)

Of(symbol, row) == [row EXCEPT !.symbol = symbol]

\* The rows of the first raw object: clean, late, out of order, before the
\* input, derivative, unparsable, wrong schema, wrong hash, with a late and
\* unparsable depth snapshot, with a past, of another symbol, in the future.
FirstRows ==
    {<<Book, Trade>>,
     <<[Book EXCEPT !.ingest = 111], Raw(3, "depth_delta", 118, 119, NoSequence)>>,
     <<Trade, Raw(4, "trade", 95, 96, 5), Book>>,
     <<Raw(4, "trade", 103, 105, NoSequence), [Trade EXCEPT !.parses = FALSE]>>,
     <<[Book EXCEPT !.parses = FALSE], [Trade EXCEPT !.schema_ok = FALSE]>>,
     <<Book, [Trade EXCEPT !.hash_ok = FALSE]>>,
     <<Raw(5, "funding_rate_snapshot", 101, 102, NoSequence),
       [Raw(6, "depth_snapshot", 112, 113, NoSequence) EXCEPT !.parses = FALSE]>>,
     <<Raw(5, "open_interest_snapshot", 81, 82, NoSequence), Book,
       Raw(6, "open_interest_snapshot", 102, 103, NoSequence)>>,
     <<Book, [Raw(6, "depth_snapshot", 104, 111, NoSequence) EXCEPT !.parses = FALSE]>>,
     <<Raw(11, "trade", 85, 86, 1), Raw(12, "trade", 95, 96, 2), Book>>,
     <<Raw(11, "trade", 85, 86, 1), Of("b", Book),
       Of("b", Raw(12, "trade", 95, 96, 2))>>,
     <<Raw(7, "ticker", 131, 132, NoSequence), Raw(8, "trade", 133, 133, 9)>>}

\* Those of the second one, among them repeats of an event id.
SecondRows ==
    {<<Trade>>, <<Raw(2, "trade", 116, 117, 3)>>, <<Raw(9, "trade", 103, 103, 6)>>,
     <<Raw(9, "book_ticker", 105, 108, NoSequence), Raw(10, "trade", 115, 116, 8)>>}

SymbolRows == {<<>>, <<Symbol(99, 101, TRUE)>>, <<Symbol(112, 110, TRUE), Symbol(99, 100, FALSE)>>}
SourceRows == {<<Source(90, TRUE, TRUE)>>, <<Source(108, FALSE, TRUE), Source(115, TRUE, TRUE)>>}
GapRows == {<<>>, <<Gap("a", 105)>>, <<Gap("", 104), Gap("a", 120)>>}

Obj(prefix, family, run, hour, rows) ==
    [prefix |-> prefix, family |-> family, run |-> run, hour |-> hour, rows |-> rows]

\* The rows before 90, the start of the second hour, are an object of their own.
Content(first, second, symbols, sources, gaps) ==
    LET early == SelectSeq(first, LAMBDA row : row.time < 90)
        late == SelectSeq(first, LAMBDA row : row.time >= 90)
        objects == <<Obj("raw_market_event", "raw_market_event", 0, 2, late),
                     Obj("raw_market_event", "raw_market_event", 104, 2, second),
                     Obj("symbol_health", "symbol_health", 0, 2, symbols),
                     Obj("source_health", "source_health", 0, 2, sources),
                     Obj("gap_alert", "gap_alert", 0, 2, gaps)>>
                   \o IF early = <<>> THEN <<>>
                      ELSE <<Obj("raw_market_event", "raw_market_event", 0, 1, early)>>
    IN  [mode |-> "catchup", priority_only |-> FALSE, spool |-> {}, s3 |-> DOMAIN objects,
         objects |-> objects]

ContentWorlds ==
    {Content(first, second, symbols, sources, gaps) :
        first \in FirstRows, second \in SecondRows, symbols \in SymbolRows,
        sources \in SourceRows, gaps \in GapRows}

\* Both symbols have a price in every window the projections look at; the
\* book event arrives in time or late.
FullWorld(book) ==
    Content(<<Raw(11, "trade", 85, 86, 1), Raw(12, "trade", 95, 96, 2),
              Of("b", Raw(13, "trade", 95, 96, 2)), book>>,
            <<Raw(10, "book_ticker", 115, 116, 8), Of("b", Raw(14, "book_ticker", 115, 116, 8)),
              Of("b", Raw(15, "book_ticker", 105, 106, 7))>>,
            <<Symbol(112, 111, TRUE), Symbol(109, 108, TRUE),
              Of("b", Symbol(113, 111, TRUE)), Of("b", Symbol(108, 107, TRUE))>>,
            <<Source(90, TRUE, TRUE)>>, <<>>)

\* Objects of an old run, of the current one, of one still to come, and of
\* a gap type the bucket is not searched for.
Moving ==
    <<Obj("raw_market_event", "raw_market_event", 0, 1, <<Raw(1, "trade", 82, 83, 1)>>),
      Obj("raw_market_event", "raw_market_event", 75, 2, <<Trade, Book>>),
      Obj("raw_market_event", "raw_market_event", 135, 2, <<Raw(3, "trade", 119, 119, 9)>>),
      Obj("gap_alert_unlisted", "gap_alert", 75, 2, <<Gap("a", 105)>>)>>

MovementWorlds ==
    {[mode |-> mode, priority_only |-> only, spool |-> there, s3 |-> sent, objects |-> Moving] :
        mode \in {"live", "backfill"}, only \in BOOLEAN,
        there \in {{2}, {1, 2}, {2, 4}}, sent \in {{}, {1}, {3}}}

MCWorlds == ContentWorlds \cup {FullWorld(Book), FullWorld([Book EXCEPT !.ingest = 112])} \cup MovementWorlds

============================================================================

-------------------------- MODULE MCUniverseRollup --------------------------
(* UniverseRollup for TLC: three days of two slots and four symbols. *)
EXTENDS UniverseRollup

Slice(slot, symbol, venue, notional, spread, gap) ==
    [slot |-> slot, symbol |-> symbol, venue |-> venue, notional |-> notional,
     spread |-> spread, gap |-> gap]

\* 1 trades on both venues; 2 has a wide spread and 3 no book; 4 is named the
\* Upbit way, has a gap, and may tie with 3 in liquidity.
MCSlices ==
    <<Slice(1, 1, "binance", 5, 10, 0), Slice(1, 1, "upbit", 4, 30, 0),
      Slice(1, 3, "binance", 3, NoSpread, 0),
      Slice(2, 1, "binance", 6, 20, 0), Slice(2, 2, "binance", 8, 70, 0),
      Slice(2, 3, "binance", 3, NoSpread, 0), Slice(2, 4, "upbit", 9, 10, 1),
      Slice(3, 1, "upbit", 1, 10, 0), Slice(3, 4, "upbit", 8, 10, 0),
      Slice(4, 1, "binance", 5, 10, 0), Slice(4, 2, "binance", 8, 90, 0),
      Slice(4, 3, "binance", 7, NoSpread, 0), Slice(4, 4, "upbit", 1, 10, 0)>>

MCRanges == {{1}, {2}, {2, 3}, {4}}

PublisherSymmetry == Permutations(Publisher)
=============================================================================

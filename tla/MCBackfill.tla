----------------------------- MODULE MCBackfill -----------------------------
(***************************************************************************)
(* Instance of Backfill for TLC: every history of up to three trades at    *)
(* the edges of the range [2, 5], whose last whole second is 4, those of   *)
(* four trades before, in and after it, and a second symbol with no trade  *)
(* or one trade in the range.                                              *)
(***************************************************************************)
EXTENDS Backfill

MCHistories ==
    {h \in UNION {[1..n -> {1, 2, 4, 5, 6}] : n \in 0..3} \cup [1..4 -> {1, 4, 6}] :
        \A i, j \in DOMAIN h : i <= j => h[i] <= h[j]}

MCQuietHistories == {<<>>, <<3>>}

============================================================================

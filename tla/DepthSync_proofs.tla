-------------------------- MODULE DepthSync_proofs --------------------------
(***************************************************************************)
(* The local order book of DepthSync, for every buffer size, every span of  *)
(* ids and any number of lost, repeated or unreadable events.  The replay   *)
(* of the buffer is a fold: what it returns is proved by induction on the   *)
(* events, the rest by an inductive invariant over the steps.               *)
(***************************************************************************)
EXTENDS DepthSync, WellFoundedInduction, TLAPS

(* The inductive invariant. *)

\* BinanceLocalOrderBook.
Book == [last : Nat, bids : SUBSET Nat, asks : SUBSET Nat, buffered : Seq(Event)]

\* The kinds of gap alert.
Alert == {"none", "sequence_gap", "delta_parse", "buffered_overflow", "buffered_sequence_gap",
          "snapshot_parse", "snapshot_alignment_gap", "snapshot_fetch_failed"}

\* The counters used here.
Stats == [requests : Nat, successes : Nat, failures : Nat, overflows : Nat, alerts : Nat,
          synced : {0, 1}, buffering : {0, 1}, last_alert : Alert]

\* Every variable has its type.
TypeOK ==
    /\ emitted \in 0..MaxId /\ wire \in Seq(Event) /\ book \in Book
    /\ attempted \in BOOLEAN /\ phase \in {"idle", "fetching"}
    /\ watch \in {"running", "finished", "closed", "ended", "error"}
    /\ stats \in Stats /\ faults \in 0..MaxFaults
    /\ seen \in Nat /\ since \in Nat /\ unparsed \in BOOLEAN

\* The newest alert is of a step that dropped events.
DropAlerted(st) == st.last_alert \notin {"none", "snapshot_fetch_failed"}

\* While a snapshot is awaited the book is unsynced, the attempt is on record
\* and the newest event handled is in the buffer, or a drop was alerted.
FetchCovers ==
    phase = "fetching" =>
        /\ ~is_synced(book) /\ attempted /\ since = 0
        /\ DropAlerted(stats) \/ \E i \in 1..Len(book.buffered) : book.buffered[i].final >= seen

\* Every event an unsynced book handled since the last request is in its buffer.
BufferCounts ==
    ~is_synced(book) => since <= Len(book.buffered) /\ Len(book.buffered) <= MaxBufferedEvents

\* An unsynced book with no attempt on record has seen nothing, or alerted.
UnaskedIsNew ==
    phase = "idle" /\ ~is_synced(book) /\ ~attempted => DropAlerted(stats) \/ seen = 0

IInv == TypeOK /\ BookFaithful /\ LagIsAlerted /\ FetchCovers /\ BufferCounts /\ UnaskedIsNew

-----------------------------------------------------------------------------
(* Induction. *)

\* A nonempty set of naturals has a least element.
LEMMA NatLeast ==
    ASSUME NEW T \in SUBSET Nat, T # {}
    PROVE  \E x \in T : \A y \in T : x <= y
  <1> DEFINE R == OpToRel(<, Nat)
  <1>1. IsWellFoundedOn(R, Nat)
    BY NatLessThanWellFounded
  <1>2. \A x, y \in Nat : x < y => <<x, y>> \in R
    BY DEF OpToRel
  <1> HIDE DEF R
  <1>3. PICK x \in T : \A y \in T : ~ (<<y, x>> \in R)
    BY <1>1, WFMin
  <1>4. ASSUME NEW y \in T PROVE x <= y
    <2>1. x \in Nat /\ y \in Nat
      OBVIOUS
    <2>2. ~(y < x)
      BY <1>2, <1>3, <2>1
    <2> QED BY <2>1, <2>2
  <1> QED BY <1>4

\* A set with 0 that is closed under successor holds every natural.
LEMMA NatSets ==
    ASSUME NEW S, 0 \in S, \A n \in Nat : n \in S => n + 1 \in S
    PROVE  Nat \subseteq S
  <1> SUFFICES ASSUME Nat \ S # {} PROVE FALSE
    OBVIOUS
  <1>1. PICK x \in Nat \ S : \A y \in Nat \ S : x <= y
    BY NatLeast
  <1>2. x # 0 /\ x - 1 \in Nat
    BY <1>1
  <1>3. x - 1 \in S
    BY <1>1, <1>2
  <1>4. (x - 1) + 1 \in S
    BY <1>2, <1>3
  <1> QED BY <1>1, <1>4

\* f holds what a fold of step from b has after 0, 1, ... m items.
IsFold(f, m, b, step) == f[0] = b /\ \A i \in 1..m : f[i] = step[<<i, f[i - 1]>>]

\* A fold of a function on V exists.
LEMMA FoldExists ==
    ASSUME NEW n \in Nat, NEW V, NEW b \in V, NEW step \in [(1..n) \X V -> V]
    PROVE  \E f \in [0..n -> V] : IsFold(f, n, b, step)
  <1> USE DEF IsFold
  <1> DEFINE Fits(f, m) == IsFold(f, m, b, step)
             S == {m \in Nat : m <= n => \E f \in [0..n -> V] : Fits(f, m)}
  <1>1. 0 \in S
    <2> DEFINE f == [i \in 0..n |-> b]
    <2>1. f \in [0..n -> V] /\ f[0] = b
      OBVIOUS
    <2> HIDE DEF f
    <2>2. \A i \in 1..0 : f[i] = step[<<i, f[i - 1]>>]
      OBVIOUS
    <2> QED BY <2>1, <2>2
  <1>2. ASSUME NEW m \in Nat, m \in S PROVE m + 1 \in S
    <2> SUFFICES ASSUME m + 1 <= n PROVE \E f \in [0..n -> V] : Fits(f, m + 1)
      OBVIOUS
    <2>1. PICK f \in [0..n -> V] : Fits(f, m)
      BY <1>2
    <2>2. <<m + 1, f[m]>> \in (1..n) \X V
      BY <2>1
    <2> DEFINE g == [f EXCEPT ![m + 1] = step[<<m + 1, f[m]>>]]
    <2>3. /\ g \in [0..n -> V]
          /\ g[m + 1] = step[<<m + 1, f[m]>>]
          /\ \A i \in 0..m : g[i] = f[i]
      BY <2>2
    <2> HIDE DEF g
    <2>4. Fits(g, m + 1)
      <3>1. g[0] = b
        BY <2>1, <2>3
      <3>2. ASSUME NEW i \in 1..(m + 1) PROVE g[i] = step[<<i, g[i - 1]>>]
        <4>1. i - 1 \in 0..m
          OBVIOUS
        <4>2. g[i - 1] = f[i - 1]
          BY <2>3, <4>1
        <4>3. CASE i = m + 1
          BY <2>3, <4>2, <4>3
        <4>4. CASE i \in 1..m
          BY <2>1, <2>3, <4>2, <4>4
        <4> QED BY <4>3, <4>4
      <3> QED BY <3>1, <3>2
    <2> HIDE DEF Fits, IsFold
    <2> QED BY <2>3, <2>4
  <1> HIDE DEF S
  <1>3. n \in S
    BY <1>1, <1>2, NatSets
  <1> QED BY <1>3 DEF S


-----------------------------------------------------------------------------
(* The replay of the buffered events. *)

\* The book and the alert that a replay, or a snapshot, ends with.
Result == [book : Book, alert : Alert]

\* apply_depth_delta adds the event's ids to both sides.
LEMMA DeltaKeepsBook ==
    ASSUME NEW b \in Book, NEW e \in Event
    PROVE  /\ apply_depth_delta(b, e) \in Book
           /\ apply_depth_delta(b, e).last = e.final
           /\ apply_depth_delta(b, e).buffered = b.buffered
           /\ apply_depth_delta(b, e).bids = b.bids \cup e.first..e.final
           /\ apply_depth_delta(b, e).asks = b.asks \cup e.first..e.final
  <1> DEFINE S == e.first..e.final
             d == [b EXCEPT !.last = e.final, !.bids = @ \cup S, !.asks = @ \cup S]
  <1>1. e.final \in Nat /\ S \in SUBSET Nat
    BY DepthConfigValid DEF Event
  <1> HIDE DEF S
  <1>2. d \in Book
    BY <1>1 DEF Book
  <1>3. d.last = e.final /\ d.buffered = b.buffered /\ d.bids = b.bids \cup S /\ d.asks = b.asks \cup S
    BY DEF Book
  <1>4. apply_depth_delta(b, e) = d
    BY DEF apply_depth_delta, S
  <1> HIDE DEF d
  <1> QED BY <1>2, <1>3, <1>4 DEF S

\* Replacing the buffer changes nothing else.
LEMMA BufferIsBook ==
    ASSUME NEW b \in Book, NEW s \in Seq(Event)
    PROVE  /\ [b EXCEPT !.buffered = s] \in Book
           /\ [b EXCEPT !.buffered = s].buffered = s
           /\ [b EXCEPT !.buffered = s].last = b.last
           /\ [b EXCEPT !.buffered = s].bids = b.bids
           /\ [b EXCEPT !.buffered = s].asks = b.asks
  BY DEF Book

\* A reset book is unsynced.
LEMMA ResetIsBook ==
    /\ reset_after_overflow \in Book
    /\ ~is_synced(reset_after_overflow) /\ reset_after_overflow.buffered = <<>>
    /\ \A e \in Event : /\ reset_for_resync(e) \in Book
                        /\ ~is_synced(reset_for_resync(e))
                        /\ reset_for_resync(e).buffered = <<e>>
  <1> DEFINE r == reset_after_overflow
  <1>1. r \in Book /\ r.last = 0 /\ r.buffered = <<>>
    BY DEF reset_after_overflow, Book, NoId
  <1>2. ASSUME NEW e \in Event
        PROVE  LET q == [r EXCEPT !.buffered = <<e>>] IN q \in Book /\ q.last = 0 /\ q.buffered = <<e>>
    <2>1. <<e>> \in Seq(Event)
      OBVIOUS
    <2> HIDE DEF r
    <2> QED BY <1>1, <2>1, BufferIsBook
  <1> QED BY <1>1, <1>2 DEF reset_for_resync, is_synced, NoId

\* The sides of the book reflect every update up to its id, and no later one.
Faithful(b) == b.bids = 1..b.last /\ b.asks = 1..b.last

\* What holds of the replay at every event.
ReplayGood(r) ==
    /\ r \in Result
    /\ is_synced(r.book) => Faithful(r.book)
    /\ ~is_synced(r.book) => r.alert # "none" /\ r.book.buffered = <<>>
    /\ r.alert \in {"none", "buffered_sequence_gap", "delta_parse"}

\* One event keeps the replay good; without an alert the book has the event.
LEMMA ReplayEventGood ==
    ASSUME NEW r, NEW e \in Event, ReplayGood(r)
    PROVE  /\ ReplayGood(ReplayEvent(r, e))
           /\ ReplayEvent(r, e).alert = "none" =>
                 /\ r.alert = "none"
                 /\ ReplayEvent(r, e).book.last >= r.book.last
                 /\ ReplayEvent(r, e).book.last >= e.final
  <1> DEFINE q == ReplayEvent(r, e)
  <1>0. /\ r.book \in Book /\ r.book.last \in Nat
        /\ e.first \in Nat \ {0} /\ e.final \in Nat \ {0} /\ e.first <= e.final /\ e.bad \in BOOLEAN
    BY DEF ReplayGood, Result, Book, Event
  <1>1. CASE r.alert # "none" \/ e.final <= r.book.last
    <2>1. q = r
      BY <1>1 DEF ReplayEvent
    <2> QED BY <1>0, <1>1, <2>1
  <1>2. CASE r.alert = "none" /\ ~(e.final <= r.book.last) /\ ~Joins(e, r.book.last)
    <2>1. q = [book |-> [r.book EXCEPT !.buffered = <<e>>], alert |-> "buffered_sequence_gap"]
      BY <1>2 DEF ReplayEvent
    <2>2. <<e>> \in Seq(Event)
      OBVIOUS
    <2>3. q.book = [r.book EXCEPT !.buffered = <<e>>] /\ q.alert = "buffered_sequence_gap"
      BY <2>1
    <2>4. q.book \in Book /\ q.book.last = r.book.last /\ q.book.bids = r.book.bids /\ q.book.asks = r.book.asks
      <3> DEFINE b == r.book
                 s == <<e>>
      <3>1. b \in Book /\ s \in Seq(Event) /\ q.book = [b EXCEPT !.buffered = s]
        BY <1>0, <2>2, <2>3
      <3> HIDE DEF b, s, q
      <3>2. q.book \in Book /\ q.book.last = b.last /\ q.book.bids = b.bids /\ q.book.asks = b.asks
        BY <3>1, BufferIsBook
      <3> QED BY <3>2 DEF b
    <2>5. is_synced(r.book)
      BY <1>2 DEF ReplayGood
    <2>6. Faithful(q.book) /\ is_synced(q.book)
      BY <2>4, <2>5 DEF ReplayGood, Faithful, is_synced
    <2>7. q \in Result
      <3>1. \E b \in Book : q = [book |-> b, alert |-> "buffered_sequence_gap"]
        BY <2>1, <2>3, <2>4
      <3> HIDE DEF q
      <3> QED BY <3>1 DEF Result, Alert
    <2> HIDE DEF q
    <2>8. ReplayGood(q) /\ q.alert # "none"
      BY <2>3, <2>6, <2>7 DEF ReplayGood
    <2> QED BY <2>8 DEF q
  <1>3. CASE r.alert = "none" /\ ~(e.final <= r.book.last) /\ Joins(e, r.book.last) /\ e.bad
    <2>1. q = [book |-> reset_after_overflow, alert |-> "delta_parse"]
      BY <1>3 DEF ReplayEvent
    <2>2. q.book = reset_after_overflow /\ q.alert = "delta_parse"
      BY <2>1
    <2>3. q \in Result
      <3>1. \E b \in Book : q = [book |-> b, alert |-> "delta_parse"]
        BY <2>1, ResetIsBook
      <3> HIDE DEF q
      <3> QED BY <3>1 DEF Result, Alert
    <2> HIDE DEF q
    <2>4. ReplayGood(q) /\ q.alert # "none"
      BY <2>2, <2>3, ResetIsBook DEF ReplayGood
    <2> QED BY <2>4 DEF q
  <1>4. CASE r.alert = "none" /\ ~(e.final <= r.book.last) /\ Joins(e, r.book.last) /\ ~e.bad
    <2>1. q = [book |-> apply_depth_delta(r.book, e), alert |-> "none"]
      BY <1>4 DEF ReplayEvent
    <2>2. q.book = apply_depth_delta(r.book, e) /\ q.alert = "none"
      BY <2>1
    <2>3. /\ q.book \in Book /\ q.book.last = e.final
          /\ q.book.bids = r.book.bids \cup e.first..e.final
          /\ q.book.asks = r.book.asks \cup e.first..e.final
      BY <1>0, <2>2, DeltaKeepsBook
    <2>4. is_synced(r.book) /\ Faithful(r.book)
      BY <1>4 DEF ReplayGood
    <2>5. (1..r.book.last) \cup e.first..e.final = 1..e.final
      BY <1>0, <1>4 DEF Joins
    <2>6. is_synced(q.book) /\ Faithful(q.book)
      BY <1>0, <2>3, <2>4, <2>5 DEF Faithful, is_synced, NoId
    <2> QED BY <1>0, <1>4, <2>1, <2>2, <2>3, <2>6 DEF ReplayGood, Result, Alert
  <1> QED BY <1>1, <1>2, <1>3, <1>4

\* f holds what Replay has after 0, 1, ... events.
IsReplay(f, b, events) ==
    /\ f[0] = [book |-> b, alert |-> "none"]
    /\ \A i \in 1..Len(events) : f[i] = ReplayEvent(f[i - 1], events[i])
    /\ Replay(b, events) = f[Len(events)]

\* The function that Replay folds with satisfies its equation.
LEMMA ReplayFolds ==
    ASSUME NEW b, NEW events \in Seq(Event), ReplayGood([book |-> b, alert |-> "none"])
    PROVE  \E f : IsReplay(f, b, events)
  <1> DEFINE n == Len(events)
             start == [book |-> b, alert |-> "none"]
             V == {r \in Result : ReplayGood(r)}
             Def(f) == f = [i \in 0..n |-> IF i = 0 THEN start ELSE ReplayEvent(f[i - 1], events[i])]
             step == [p \in (1..n) \X V |-> ReplayEvent(p[2], events[p[1]])]
  <1>1. n \in Nat /\ start \in V /\ \A i \in 1..n : events[i] \in Event
    BY DEF ReplayGood
  <1>2. step \in [(1..n) \X V -> V]
    <2>1. ASSUME NEW i \in 1..n, NEW r \in V PROVE ReplayEvent(r, events[i]) \in V
      BY <1>1, ReplayEventGood DEF ReplayGood
    <2> HIDE DEF V, n
    <2> QED BY <2>1
  <1>3. \A i \in 1..n, r \in V : step[<<i, r>>] = ReplayEvent(r, events[i])
    OBVIOUS
  <1> HIDE DEF V, n, step, start
  <1>4. PICK f \in [0..n -> V] : IsFold(f, n, start, step)
    BY <1>1, <1>2, FoldExists
  <1>5. \E g : Def(g)
    <2>1. ASSUME NEW i \in 0..n PROVE f[i] = IF i = 0 THEN start ELSE ReplayEvent(f[i - 1], events[i])
      <3>1. CASE i = 0
        BY <1>4, <3>1 DEF IsFold
      <3>2. CASE i # 0
        <4>1. i \in 1..n /\ i - 1 \in 0..n
          BY <1>1, <3>2
        <4> QED BY <1>3, <1>4, <3>2, <4>1 DEF IsFold
      <3> QED BY <3>1, <3>2
    <2>2. Def(f)
      BY <2>1
    <2> HIDE DEF Def
    <2> QED BY <2>2
  <1> DEFINE c == CHOOSE g : Def(g)
  <1>6. Def(c)
    BY <1>5, Zenon
  <1>7. Replay(b, events) = c[n]
    BY DEF Replay, n, start
  <1> HIDE DEF c
  <1>8. \A i \in 0..n : c[i] = IF i = 0 THEN start ELSE ReplayEvent(c[i - 1], events[i])
    BY <1>6, Zenon
  <1>9. c[0] = start /\ \A i \in 1..n : c[i] = ReplayEvent(c[i - 1], events[i])
    BY <1>1, <1>8
  <1>10. IsReplay(c, b, events)
    BY <1>7, <1>9 DEF n, start, IsReplay
  <1> QED BY <1>10

\* What a replay returns: a faithful book, or an unsynced one with an alert.
\* Without an alert the book has every event.
LEMMA ReplayIsGood ==
    ASSUME NEW b, NEW events \in Seq(Event), ReplayGood([book |-> b, alert |-> "none"])
    PROVE  LET r == Replay(b, events)
           IN  /\ ReplayGood(r)
               /\ r.alert = "none" =>
                     r.book.last >= b.last /\ \A i \in 1..Len(events) : r.book.last >= events[i].final
  <1> DEFINE n == Len(events)
             start == [book |-> b, alert |-> "none"]
  <1>0. PICK f : IsReplay(f, b, events)
    BY ReplayFolds
  <1>1. /\ f[0] = start
        /\ \A i \in 1..n : f[i] = ReplayEvent(f[i - 1], events[i])
        /\ Replay(b, events) = f[n]
    BY <1>0 DEF IsReplay
  <1> DEFINE P(m) == /\ ReplayGood(f[m])
                     /\ f[m].alert = "none" =>
                           /\ f[m].book.last >= b.last
                           /\ \A i \in 1..m : f[m].book.last >= events[i].final
             S == {m \in Nat : m <= n => P(m)}
  <1>2. 0 \in S
    <2>1. start.book = b /\ b.last \in Nat
      BY DEF ReplayGood, Result, Book
    <2> HIDE DEF start
    <2> QED BY <1>1, <2>1 DEF start
  <1>3. ASSUME NEW m \in Nat, m \in S PROVE m + 1 \in S
    <2> SUFFICES ASSUME m + 1 <= n PROVE P(m + 1)
      OBVIOUS
    <2>1. P(m) /\ m + 1 \in 1..n /\ events[m + 1] \in Event
      BY <1>3
    <2> DEFINE r == f[m]
               e == events[m + 1]
               q == f[m + 1]
    <2>2. q = ReplayEvent(r, e)
      BY <1>1, <2>1
    <2>3. /\ ReplayGood(q)
          /\ q.alert = "none" => r.alert = "none" /\ q.book.last >= r.book.last /\ q.book.last >= e.final
      <3> HIDE DEF r, q, e
      <3>1. ReplayGood(r) /\ e \in Event
        BY <2>1 DEF r, e
      <3> QED BY <2>2, <3>1, ReplayEventGood
    <2>4. /\ r.book.last \in Nat /\ q.book.last \in Nat /\ b.last \in Nat
          /\ \A i \in 1..n : events[i].final \in Nat
      <3>1. start.book = b
        OBVIOUS
      <3>2. b.last \in Nat
        BY <3>1 DEF ReplayGood, Result, Book
      <3>3. \A i \in 1..n : events[i].final \in Nat
        BY DepthConfigValid DEF Event
      <3> HIDE DEF r, q, e
      <3>4. ReplayGood(r) /\ ReplayGood(q)
        BY <2>1, <2>3 DEF r
      <3> QED BY <3>2, <3>3, <3>4 DEF ReplayGood, Result, Book
    <2>5. ASSUME q.alert = "none"
          PROVE  q.book.last >= b.last /\ \A i \in 1..(m + 1) : q.book.last >= events[i].final
      <3>1. r.book.last >= b.last /\ \A i \in 1..m : r.book.last >= events[i].final
        BY <2>1, <2>3, <2>5
      <3>2. q.book.last >= r.book.last /\ q.book.last >= events[m + 1].final
        BY <2>3, <2>5
      <3> HIDE DEF r, q
      <3>3. ASSUME NEW i \in 1..(m + 1) PROVE q.book.last >= events[i].final
        <4>1. CASE i = m + 1
          BY <3>2, <4>1
        <4>2. CASE i \in 1..m
          BY <2>1, <2>4, <3>1, <3>2, <4>2
        <4> QED BY <4>1, <4>2
      <3> QED BY <2>4, <3>1, <3>2, <3>3
    <2> QED BY <2>3, <2>5
  <1> HIDE DEF S
  <1>4. n \in S
    <2>1. n \in Nat
      OBVIOUS
    <2> HIDE DEF n
    <2> QED BY <1>2, <1>3, <2>1, NatSets
  <1>5. P(n)
    BY <1>4 DEF S
  <1> QED BY <1>1, <1>5

-----------------------------------------------------------------------------
(* The events that a snapshot leaves in the buffer. *)

\* One event is kept or not.
RetainEvent(kept, e, n) == IF e.final > n THEN Append(kept, e) ELSE kept

\* f holds what Retained has after 0, 1, ... events.
IsRetained(f, events, n) ==
    /\ f[0] = <<>>
    /\ \A i \in 1..Len(events) : f[i] = RetainEvent(f[i - 1], events[i], n)
    /\ Retained(events, n) = f[Len(events)]

\* The function that Retained folds with satisfies its equation.
LEMMA RetainedFolds ==
    ASSUME NEW events \in Seq(Event), NEW n
    PROVE  \E f : IsRetained(f, events, n)
  <1> DEFINE m == Len(events)
             V == Seq(Event)
             Def(f) == f = [i \in 0..m |-> IF i = 0 THEN <<>>
                                           ELSE IF events[i].final > n THEN Append(f[i - 1], events[i])
                                           ELSE f[i - 1]]
             step == [p \in (1..m) \X V |-> RetainEvent(p[2], events[p[1]], n)]
  <1>1. m \in Nat /\ <<>> \in V /\ \A i \in 1..m : events[i] \in Event
    OBVIOUS
  <1>2. step \in [(1..m) \X V -> V]
    <2>1. ASSUME NEW i \in 1..m, NEW r \in V PROVE RetainEvent(r, events[i], n) \in V
      BY <1>1 DEF RetainEvent
    <2> HIDE DEF V, m
    <2> QED BY <2>1
  <1>3. \A i \in 1..m, r \in V : step[<<i, r>>] = RetainEvent(r, events[i], n)
    OBVIOUS
  <1> HIDE DEF V, m, step
  <1>4. PICK f \in [0..m -> V] : IsFold(f, m, <<>>, step)
    BY <1>1, <1>2, FoldExists
  <1>5. \E g : Def(g)
    <2>1. ASSUME NEW i \in 0..m
          PROVE  f[i] = IF i = 0 THEN <<>>
                        ELSE IF events[i].final > n THEN Append(f[i - 1], events[i]) ELSE f[i - 1]
      <3>1. CASE i = 0
        BY <1>4, <3>1 DEF IsFold
      <3>2. CASE i # 0
        <4>1. i \in 1..m /\ i - 1 \in 0..m
          BY <1>1, <3>2
        <4>2. f[i] = RetainEvent(f[i - 1], events[i], n)
          BY <1>3, <1>4, <4>1 DEF IsFold
        <4> QED BY <3>2, <4>2 DEF RetainEvent
      <3> QED BY <3>1, <3>2
    <2>2. Def(f)
      BY <2>1
    <2> HIDE DEF Def
    <2> QED BY <2>2
  <1> DEFINE c == CHOOSE g : Def(g)
  <1>6. Def(c)
    BY <1>5, Zenon
  <1>7. Retained(events, n) = c[m]
    BY DEF Retained, m
  <1> HIDE DEF c
  <1>8. \A i \in 0..m : c[i] = IF i = 0 THEN <<>>
                                ELSE IF events[i].final > n THEN Append(c[i - 1], events[i])
                                ELSE c[i - 1]
    BY <1>6, Zenon
  <1>9. c[0] = <<>> /\ \A i \in 1..m : c[i] = RetainEvent(c[i - 1], events[i], n)
    BY <1>1, <1>8 DEF RetainEvent
  <1>10. IsRetained(c, events, n)
    BY <1>7, <1>9 DEF m, IsRetained
  <1> QED BY <1>10

\* Retained keeps every event that reaches beyond n.
LEMMA RetainedKeeps ==
    ASSUME NEW events \in Seq(Event), NEW n
    PROVE  /\ Retained(events, n) \in Seq(Event)
           /\ \A j \in 1..Len(events) :
                 events[j].final > n =>
                     \E i \in 1..Len(Retained(events, n)) : Retained(events, n)[i] = events[j]
  <1> DEFINE m == Len(events)
  <1>0. PICK f : IsRetained(f, events, n)
    BY RetainedFolds
  <1>1. /\ f[0] = <<>>
        /\ \A i \in 1..m : f[i] = RetainEvent(f[i - 1], events[i], n)
        /\ Retained(events, n) = f[m]
    BY <1>0 DEF IsRetained
  <1> DEFINE Has(kept, k) == \A j \in 1..k : events[j].final > n =>
                                 \E i \in 1..Len(kept) : kept[i] = events[j]
             S == {k \in Nat : k <= m => f[k] \in Seq(Event) /\ Has(f[k], k)}
  <1>2. 0 \in S
    <2>1. f[0] \in Seq(Event)
      BY <1>1
    <2>2. Has(f[0], 0)
      OBVIOUS
    <2> QED BY <2>1, <2>2
  <1>3. ASSUME NEW k \in Nat, k \in S PROVE k + 1 \in S
    <2> SUFFICES ASSUME k + 1 <= m PROVE f[k + 1] \in Seq(Event) /\ Has(f[k + 1], k + 1)
      OBVIOUS
    <2> DEFINE r == f[k]
               e == events[k + 1]
               q == f[k + 1]
    <2>1. /\ r \in Seq(Event) /\ Has(r, k) /\ e \in Event
          /\ q = RetainEvent(r, e, n)
      BY <1>1, <1>3
    <2> HIDE DEF r, q
    <2>2. q \in Seq(Event)
      BY <2>1 DEF RetainEvent
    <2>3. \A i \in 1..Len(r) : i \in 1..Len(q) /\ q[i] = r[i]
      BY <2>1 DEF RetainEvent
    <2>4. e.final > n => \E i \in 1..Len(q) : q[i] = e
      <3>1. ASSUME e.final > n PROVE \E i \in 1..Len(q) : q[i] = e
        <4>1. q = Append(r, e)
          BY <2>1, <3>1 DEF RetainEvent
        <4>2. Len(r) + 1 \in 1..Len(q) /\ q[Len(r) + 1] = e
          BY <2>1, <4>1
        <4> QED BY <4>2
      <3> QED BY <3>1
    <2>5. ASSUME NEW j \in 1..(k + 1), events[j].final > n
          PROVE  \E i \in 1..Len(q) : q[i] = events[j]
      <3>1. CASE j = k + 1
        BY <2>4, <2>5, <3>1
      <3>2. CASE j \in 1..k
        <4>1. PICK i \in 1..Len(r) : r[i] = events[j]
          BY <2>1, <2>5, <3>2
        <4> QED BY <2>3, <4>1
      <3> QED BY <3>1, <3>2
    <2> QED BY <2>2, <2>5 DEF q
  <1> HIDE DEF S
  <1>4. m \in S
    <2>1. m \in Nat
      OBVIOUS
    <2> HIDE DEF m
    <2> QED BY <1>2, <1>3, <2>1, NatSets
  <1>5. f[m] \in Seq(Event) /\ Has(f[m], m)
    BY <1>4 DEF S
  <1> QED BY <1>1, <1>5

-----------------------------------------------------------------------------
(* The steps. *)

\* Counting keeps the type, and only record_gap_alert changes the last alert.
LEMMA CountersAreStats ==
    ASSUME NEW st \in Stats
    PROVE  /\ \A k \in Alert : record_gap_alert(st, k) \in Stats /\ record_gap_alert(st, k).last_alert = k
           /\ \A b : /\ update_depth_book_counts(st, b) \in Stats
                    /\ update_depth_book_counts(st, b).last_alert = st.last_alert
           /\ LET q == [st EXCEPT !.requests = @ + 1]
              IN  q \in Stats /\ q.last_alert = st.last_alert
           /\ LET q == [st EXCEPT !.successes = @ + 1]
              IN  q \in Stats /\ q.last_alert = st.last_alert
           /\ LET q == [st EXCEPT !.failures = @ + 1]
              IN  q \in Stats /\ q.last_alert = st.last_alert
           /\ LET q == [st EXCEPT !.overflows = @ + 1]
              IN  q \in Stats /\ q.last_alert = st.last_alert
  <1>1. ASSUME NEW k \in Alert
        PROVE  record_gap_alert(st, k) \in Stats /\ record_gap_alert(st, k).last_alert = k
    <2> DEFINE n == st.alerts + 1
               q == [st EXCEPT !.alerts = n, !.last_alert = k]
    <2>1. n \in Nat
      BY DEF Stats
    <2> HIDE DEF n
    <2>2. q \in Stats
      BY <2>1 DEF Stats
    <2>3. q.last_alert = k
      BY DEF Stats
    <2>4. q = record_gap_alert(st, k)
      BY DEF record_gap_alert, n
    <2> HIDE DEF q
    <2> QED BY <2>2, <2>3, <2>4
  <1>2. ASSUME NEW b
        PROVE  /\ update_depth_book_counts(st, b) \in Stats
               /\ update_depth_book_counts(st, b).last_alert = st.last_alert
    BY DEF update_depth_book_counts, Stats
  <1>3. /\ LET q == [st EXCEPT !.requests = @ + 1]
           IN  q \in Stats /\ q.last_alert = st.last_alert
        /\ LET q == [st EXCEPT !.successes = @ + 1]
           IN  q \in Stats /\ q.last_alert = st.last_alert
    BY DEF Stats
  <1>4. /\ LET q == [st EXCEPT !.failures = @ + 1]
           IN  q \in Stats /\ q.last_alert = st.last_alert
        /\ LET q == [st EXCEPT !.overflows = @ + 1]
           IN  q \in Stats /\ q.last_alert = st.last_alert
    BY DEF Stats
  <1> QED BY <1>1, <1>2, <1>3, <1>4

\* The end of a handler: it asks for a snapshot, or counts the event.
LEMMA FetchOrReturnDoes ==
    ASSUME NEW b, NEW tried \in BOOLEAN, NEW st \in Stats, FetchOrReturn(b, tried, st)
    PROVE  /\ book' = b /\ stats' \in Stats /\ stats'.last_alert = st.last_alert
           /\ ~is_synced(b) /\ ~tried => attempted' = TRUE /\ phase' = "fetching" /\ since' = 0
           /\ is_synced(b) \/ tried => attempted' = tried /\ phase' = "idle" /\ since' = since + 1
  <1>1. CASE ~is_synced(b) /\ ~tried
    <2> DEFINE q == [st EXCEPT !.requests = @ + 1]
    <2>1. /\ book' = b /\ stats' = q /\ attempted' = TRUE /\ phase' = "fetching" /\ since' = 0
      BY <1>1 DEF FetchOrReturn
    <2>2. q \in Stats /\ q.last_alert = st.last_alert
      BY CountersAreStats
    <2> HIDE DEF q
    <2> QED BY <1>1, <2>1, <2>2
  <1>2. CASE is_synced(b) \/ tried
    <2> DEFINE q == update_depth_book_counts(st, b)
    <2>1. /\ book' = b /\ stats' = q /\ attempted' = tried /\ phase' = "idle" /\ since' = since + 1
      BY <1>2 DEF FetchOrReturn
    <2>2. q \in Stats /\ q.last_alert = st.last_alert
      BY CountersAreStats
    <2> HIDE DEF q
    <2> QED BY <1>2, <2>1, <2>2
  <1> QED BY <1>1, <1>2

\* What an event in the socket is.
LEMMA ReceiveDoes ==
    ASSUME NEW e, TypeOK, Receive(e)
    PROVE  /\ e \in Event /\ wire' \in Seq(Event) /\ phase = "idle"
           /\ e.final \in Nat \ {0} /\ e.first \in Nat \ {0} /\ e.first <= e.final
           /\ seen' \in Nat /\ seen' >= e.final /\ seen' >= seen /\ seen' \in {seen, e.final}
           /\ UNCHANGED <<emitted, watch, faults>>
  <1>1. e \in Event /\ wire' \in Seq(Event)
    BY DEF TypeOK, Receive
  <1>2. e.final \in Nat \ {0} /\ e.first \in Nat \ {0} /\ e.first <= e.final
    BY <1>1, DepthConfigValid DEF Event
  <1> QED BY <1>1, <1>2 DEF TypeOK, Receive

\* What a handler owes the invariant about the book b it leaves behind.
HandlerOwes(b, tried, st, lost, newest) ==
    /\ b \in Book /\ tried \in BOOLEAN /\ st \in Stats /\ lost \in BOOLEAN
    /\ is_synced(b) /\ ~lost => Faithful(b)
    /\ is_synced(b) /\ b.last < newest => DropAlerted(st)
    /\ ~is_synced(b) => Len(b.buffered) <= MaxBufferedEvents
    /\ ~is_synced(b) /\ tried => since + 1 <= Len(b.buffered)
    /\ ~is_synced(b) /\ ~tried =>
          DropAlerted(st) \/ \E i \in 1..Len(b.buffered) : b.buffered[i].final >= newest

\* A handler that does so keeps the invariant.
LEMMA HandlerInv ==
    ASSUME NEW e, NEW b, NEW tried, NEW st, IInv, Receive(e), FetchOrReturn(b, tried, st),
           HandlerOwes(b, tried, st, unparsed', seen')
    PROVE  IInv'
  <1>1. /\ b \in Book /\ tried \in BOOLEAN /\ st \in Stats /\ unparsed' \in BOOLEAN
        /\ is_synced(b) /\ ~unparsed' => Faithful(b)
        /\ is_synced(b) /\ b.last < seen' => DropAlerted(st)
        /\ ~is_synced(b) => Len(b.buffered) <= MaxBufferedEvents
        /\ ~is_synced(b) /\ tried => since + 1 <= Len(b.buffered)
        /\ ~is_synced(b) /\ ~tried =>
              DropAlerted(st) \/ \E i \in 1..Len(b.buffered) : b.buffered[i].final >= seen'
    BY DEF HandlerOwes
  <1>2. /\ book' = b /\ stats' \in Stats /\ stats'.last_alert = st.last_alert
        /\ ~is_synced(b) /\ ~tried => attempted' = TRUE /\ phase' = "fetching" /\ since' = 0
        /\ is_synced(b) \/ tried => attempted' = tried /\ phase' = "idle" /\ since' = since + 1
    BY <1>1, FetchOrReturnDoes
  <1>3. TypeOK
    BY DEF IInv
  <1>4. wire' \in Seq(Event) /\ seen' \in Nat /\ UNCHANGED <<emitted, watch, faults>>
    BY <1>3, ReceiveDoes
  <1>5. TypeOK'
    <2>1. emitted \in 0..MaxId /\ faults \in 0..MaxFaults /\ since \in Nat
          /\ watch \in {"running", "finished", "closed", "ended", "error"}
      BY <1>3 DEF TypeOK
    <2>2. phase' \in {"idle", "fetching"} /\ since' \in Nat
      BY <1>1, <1>2, <2>1
    <2>3. attempted' \in BOOLEAN
      BY <1>1, <1>2
    <2>4. book' \in Book /\ stats' \in Stats /\ unparsed' \in BOOLEAN
      BY <1>1, <1>2
    <2>5. emitted' \in 0..MaxId /\ faults' \in 0..MaxFaults
          /\ watch' \in {"running", "finished", "closed", "ended", "error"}
      BY <1>4, <2>1
    <2> QED BY <1>4, <2>2, <2>3, <2>4, <2>5 DEF TypeOK
  <1>6. DropAlerted(st) => DropAlerted(stats')
    BY <1>2 DEF DropAlerted
  <1>7. BookFaithful'
    BY <1>1, <1>2 DEF BookFaithful, Faithful
  <1>8. LagIsAlerted'
    BY <1>1, <1>2, <1>6 DEF LagIsAlerted, DropAlerted
  <1>9. Len(b.buffered) \in Nat
    BY <1>1 DEF Book
  <1>10. BufferCounts'
    BY <1>1, <1>2, <1>9 DEF BufferCounts
  <1>11. FetchCovers'
    BY <1>1, <1>2, <1>6 DEF FetchCovers
  <1>12. UnaskedIsNew'
    BY <1>1, <1>2 DEF UnaskedIsNew
  <1> QED BY <1>5, <1>7, <1>8, <1>10, <1>11, <1>12 DEF IInv

\* An event the book already has changes nothing but the counters.
LEMMA OldEventInv ==
    ASSUME NEW e, IInv, OldEvent(e)
    PROVE  IInv'
  <1>1. Receive(e) /\ FetchOrReturn(book, attempted, stats) /\ unparsed' = unparsed
        /\ is_synced(book) /\ e.final <= book.last
    BY DEF OldEvent
  <1>2. TypeOK /\ BookFaithful /\ LagIsAlerted
    BY DEF IInv
  <1>3. /\ book \in Book /\ attempted \in BOOLEAN /\ stats \in Stats /\ unparsed' \in BOOLEAN
        /\ book.last \in Nat /\ seen \in Nat
    BY <1>1, <1>2 DEF TypeOK, Book
  <1>4. phase = "idle" /\ seen' \in {seen, e.final} /\ e.final \in Nat
    BY <1>1, <1>2, ReceiveDoes
  <1>5. book.last < seen' => DropAlerted(stats)
    BY <1>1, <1>2, <1>3, <1>4 DEF LagIsAlerted, DropAlerted
  <1>6. HandlerOwes(book, attempted, stats, unparsed', seen')
    BY <1>1, <1>2, <1>3, <1>5 DEF HandlerOwes, BookFaithful, Faithful
  <1> QED BY <1>1, <1>6, HandlerInv

\* A gap or an unreadable event empties the book with an alert.
LEMMA ResetInv ==
    ASSUME NEW e, IInv, SequenceGap(e) \/ DeltaUnparsed(e)
    PROVE  IInv'
  <1>2. TypeOK
    BY DEF IInv
  <1>3. stats \in Stats /\ MaxBufferedEvents >= 1 /\ MaxBufferedEvents \in Nat
    BY <1>2, DepthConfigValid DEF TypeOK
  <1>4. CASE SequenceGap(e)
    <2> DEFINE st == record_gap_alert(stats, "sequence_gap")
               b == reset_for_resync(e)
    <2>1. Receive(e) /\ FetchOrReturn(b, FALSE, st) /\ unparsed' = FALSE
      BY <1>4 DEF SequenceGap
    <2>2. e \in Event
      BY <1>2, <2>1, ReceiveDoes
    <2>3. b \in Book /\ ~is_synced(b) /\ b.buffered = <<e>>
      BY <2>2, ResetIsBook
    <2>4. st \in Stats /\ DropAlerted(st)
      BY <1>3, CountersAreStats DEF DropAlerted, Alert
    <2> HIDE DEF st, b
    <2>6. Len(b.buffered) <= MaxBufferedEvents
      BY <1>3, <2>3
    <2>5. HandlerOwes(b, FALSE, st, unparsed', seen')
      BY <2>1, <2>3, <2>4, <2>6 DEF HandlerOwes
    <2> QED BY <2>1, <2>5, HandlerInv
  <1>5. CASE DeltaUnparsed(e)
    <2> DEFINE st == record_gap_alert(stats, "delta_parse")
               b == reset_after_overflow
    <2>1. Receive(e) /\ FetchOrReturn(b, FALSE, st) /\ unparsed' = FALSE
      BY <1>5 DEF DeltaUnparsed
    <2>3. b \in Book /\ ~is_synced(b) /\ b.buffered = <<>>
      BY ResetIsBook
    <2>4. st \in Stats /\ DropAlerted(st)
      BY <1>3, CountersAreStats DEF DropAlerted, Alert
    <2> HIDE DEF st, b
    <2>6. Len(b.buffered) <= MaxBufferedEvents
      BY <1>3, <2>3
    <2>5. HandlerOwes(b, FALSE, st, unparsed', seen')
      BY <2>1, <2>3, <2>4, <2>6 DEF HandlerOwes
    <2> QED BY <2>1, <2>5, HandlerInv
  <1> QED BY <1>4, <1>5

\* An event that joins the book takes it to the event's final id.
LEMMA DeltaInv ==
    ASSUME NEW e, IInv, Delta(e)
    PROVE  IInv'
  <1> DEFINE b == apply_depth_delta(book, e)
  <1>1. /\ Receive(e) /\ FetchOrReturn(b, attempted, stats) /\ unparsed' = unparsed
        /\ is_synced(book) /\ e.final > book.last /\ Joins(e, book.last)
    BY DEF Delta
  <1>2. TypeOK /\ BookFaithful /\ LagIsAlerted
    BY DEF IInv
  <1>3. /\ book \in Book /\ attempted \in BOOLEAN /\ stats \in Stats /\ unparsed' \in BOOLEAN
        /\ book.last \in Nat /\ seen \in Nat
    BY <1>1, <1>2 DEF TypeOK, Book
  <1>4. /\ e \in Event /\ phase = "idle" /\ seen' \in {seen, e.final}
        /\ e.final \in Nat \ {0} /\ e.first \in Nat \ {0} /\ e.first <= e.final
    BY <1>1, <1>2, ReceiveDoes
  <1>5. /\ b \in Book /\ b.last = e.final
        /\ b.bids = book.bids \cup e.first..e.final
        /\ b.asks = book.asks \cup e.first..e.final
    BY <1>3, <1>4, DeltaKeepsBook
  <1>6. (1..book.last) \cup e.first..e.final = 1..e.final
    BY <1>1, <1>3, <1>4 DEF Joins
  <1> HIDE DEF b
  <1>7. is_synced(b) /\ (~unparsed' => Faithful(b))
    BY <1>1, <1>2, <1>4, <1>5, <1>6 DEF BookFaithful, Faithful, is_synced, NoId
  <1>8. b.last < seen' => DropAlerted(stats)
    BY <1>1, <1>2, <1>3, <1>4, <1>5 DEF LagIsAlerted, DropAlerted
  <1>9. HandlerOwes(b, attempted, stats, unparsed', seen')
    BY <1>3, <1>5, <1>7, <1>8 DEF HandlerOwes
  <1> QED BY <1>1, <1>9, HandlerInv

\* An unsynced book with room keeps the event.
LEMMA BufferedInv ==
    ASSUME NEW e, IInv, Buffered(e)
    PROVE  IInv'
  <1> DEFINE s == Append(book.buffered, e)
             b == [book EXCEPT !.buffered = s]
  <1>1. /\ Receive(e) /\ FetchOrReturn(b, attempted, stats) /\ unparsed' = unparsed
        /\ ~is_synced(book) /\ ~(Len(book.buffered) >= MaxBufferedEvents)
    BY DEF Buffered, buffered_at_capacity
  <1>2. TypeOK /\ BufferCounts /\ UnaskedIsNew
    BY DEF IInv
  <1>3. /\ book \in Book /\ attempted \in BOOLEAN /\ stats \in Stats /\ unparsed' \in BOOLEAN
        /\ book.buffered \in Seq(Event) /\ seen \in Nat /\ since \in Nat
    BY <1>1, <1>2 DEF TypeOK, Book
  <1>4. e \in Event /\ phase = "idle" /\ seen' \in {seen, e.final} /\ seen' >= e.final /\ e.final \in Nat
    BY <1>1, <1>2, ReceiveDoes
  <1>5. s \in Seq(Event) /\ Len(s) = Len(book.buffered) + 1 /\ s[Len(s)] = e /\ Len(s) \in 1..Len(s)
    BY <1>3, <1>4
  <1>6. b \in Book /\ b.buffered = s /\ b.last = book.last
    BY <1>3, <1>5, BufferIsBook
  <1> HIDE DEF b, s
  <1>7. ~is_synced(b)
    BY <1>1, <1>6 DEF is_synced
  <1>8. Len(s) <= MaxBufferedEvents /\ since + 1 <= Len(s)
    BY <1>1, <1>2, <1>3, <1>5, DepthConfigValid DEF BufferCounts
  <1>9. ~attempted => DropAlerted(stats) \/ \E i \in 1..Len(s) : s[i].final >= seen'
    <2> SUFFICES ASSUME ~attempted, seen = 0 PROVE s[Len(s)].final >= seen'
      BY <1>1, <1>2, <1>4, <1>5 DEF UnaskedIsNew
    <2> QED BY <1>4, <1>5
  <1>10. HandlerOwes(b, attempted, stats, unparsed', seen')
    BY <1>3, <1>6, <1>7, <1>8, <1>9 DEF HandlerOwes
  <1> QED BY <1>1, <1>10, HandlerInv

\* A full buffer is dropped with an alert and asks again.
LEMMA BufferOverflowInv ==
    ASSUME NEW e, IInv, BufferOverflow(e)
    PROVE  IInv'
  <1> DEFINE s0 == record_gap_alert(stats, "buffered_overflow")
             st == [s0 EXCEPT !.overflows = @ + 1]
             b == reset_for_resync(e)
  <1>1. Receive(e) /\ FetchOrReturn(b, FALSE, st) /\ unparsed' = unparsed
    BY DEF BufferOverflow
  <1>2. TypeOK
    BY DEF IInv
  <1>3. stats \in Stats /\ unparsed' \in BOOLEAN /\ MaxBufferedEvents >= 1 /\ MaxBufferedEvents \in Nat
    BY <1>1, <1>2, DepthConfigValid DEF TypeOK
  <1>4. e \in Event
    BY <1>1, <1>2, ReceiveDoes
  <1>5. b \in Book /\ ~is_synced(b) /\ b.buffered = <<e>>
    BY <1>4, ResetIsBook
  <1>6. s0 \in Stats /\ s0.last_alert = "buffered_overflow"
    BY <1>3, CountersAreStats DEF Alert
  <1>7. st \in Stats /\ DropAlerted(st)
    <2> HIDE DEF s0
    <2>1. st \in Stats /\ st.last_alert = s0.last_alert
      BY <1>6, CountersAreStats
    <2> HIDE DEF st
    <2> QED BY <1>6, <2>1 DEF DropAlerted
  <1> HIDE DEF st, s0, b
  <1>8. Len(b.buffered) <= MaxBufferedEvents
    BY <1>3, <1>5
  <1>9. HandlerOwes(b, FALSE, st, unparsed', seen')
    BY <1>3, <1>5, <1>7, <1>8 DEF HandlerOwes
  <1> QED BY <1>1, <1>9, HandlerInv

\* The book with the snapshot in place.
LEMMA PlacedIsBook ==
    ASSUME NEW n \in Nat \ {0}, NEW failing, book \in Book
    PROVE  /\ Placed(n, failing) \in Book /\ Placed(n, failing).last = n
           /\ is_synced(Placed(n, failing))
           /\ failing = "none" => Faithful(Placed(n, failing))
  <1> DEFINE bids == IF failing = "bids" THEN book.bids ELSE 1..n
             asks == IF failing = "none" THEN 1..n ELSE book.asks
             b == [book EXCEPT !.last = n, !.bids = bids, !.asks = asks]
  <1>1. bids \in SUBSET Nat /\ asks \in SUBSET Nat
    BY DEF Book
  <1>2. failing = "none" => bids = 1..n /\ asks = 1..n
    OBVIOUS
  <1>3. Placed(n, failing) = b
    BY DEF Placed
  <1> HIDE DEF bids, asks
  <1>4. b \in Book
    BY <1>1 DEF Book
  <1>5. b.last = n /\ b.bids = bids /\ b.asks = asks
    BY DEF Book
  <1> HIDE DEF b
  <1> QED BY <1>2, <1>3, <1>4, <1>5 DEF Faithful, is_synced, NoId

\* What a snapshot makes of the book.  Without an alert the book has every
\* buffered event; an unsynced book comes with an alert and an empty buffer.
LEMMA SyncIsGood ==
    ASSUME NEW n \in Nat \ {0}, NEW failing, book \in Book
    PROVE  LET r == sync_depth_book_from_snapshot(n, failing)
           IN  /\ r.book \in Book /\ r.alert \in Alert \ {"snapshot_fetch_failed"}
               /\ is_synced(r.book) /\ failing = "none" => Faithful(r.book)
               /\ ~is_synced(r.book) => r.alert # "none" /\ r.book.buffered = <<>>
               /\ r.alert = "none" =>
                     \A i \in 1..Len(book.buffered) : r.book.last >= book.buffered[i].final
  <1> DEFINE r == sync_depth_book_from_snapshot(n, failing)
             b == Placed(n, failing)
             kept == Retained(book.buffered, n)
  <1>1. book.buffered \in Seq(Event)
    BY DEF Book
  <1>2. /\ kept \in Seq(Event)
        /\ \A j \in 1..Len(book.buffered) : book.buffered[j].final > n =>
                \E i \in 1..Len(kept) : kept[i] = book.buffered[j]
    <2> DEFINE ev == book.buffered
    <2>1. ev \in Seq(Event)
      BY <1>1
    <2> HIDE DEF ev
    <2>2. /\ Retained(ev, n) \in Seq(Event)
          /\ \A j \in 1..Len(ev) : ev[j].final > n =>
                  \E i \in 1..Len(Retained(ev, n)) : Retained(ev, n)[i] = ev[j]
      BY <2>1, RetainedKeeps
    <2> QED BY <2>2 DEF ev
  <1>3. b \in Book /\ b.last = n /\ is_synced(b) /\ (failing = "none" => Faithful(b))
    BY PlacedIsBook
  <1>4. CASE failing # "none"
    <2>1. r = [book |-> b, alert |-> "snapshot_parse"]
      BY <1>4 DEF sync_depth_book_from_snapshot
    <2>2. r.book = b /\ r.alert = "snapshot_parse"
      BY <2>1
    <2> HIDE DEF r, b
    <2>3. r.alert \in Alert \ {"snapshot_fetch_failed"} /\ r.alert # "none"
      BY <2>2 DEF Alert
    <2> QED BY <1>3, <1>4, <2>2, <2>3 DEF r
  <1>5. CASE failing = "none" /\ kept # <<>> /\ ~Joins(Head(kept), n)
    <2> DEFINE q == [b EXCEPT !.buffered = kept]
    <2>1. r = [book |-> q, alert |-> "snapshot_alignment_gap"]
      BY <1>5 DEF sync_depth_book_from_snapshot
    <2>2. r.book = q /\ r.alert = "snapshot_alignment_gap"
      BY <2>1
    <2> HIDE DEF r, b, kept
    <2>3. q \in Book /\ q.last = b.last /\ q.bids = b.bids /\ q.asks = b.asks
      BY <1>2, <1>3, BufferIsBook
    <2> HIDE DEF q
    <2>4. is_synced(q) /\ Faithful(q)
      BY <1>3, <1>5, <2>3 DEF is_synced, Faithful
    <2>5. r.alert \in Alert \ {"snapshot_fetch_failed"} /\ r.alert # "none"
      BY <2>2 DEF Alert
    <2> QED BY <2>2, <2>3, <2>4, <2>5 DEF r
  <1>6. CASE failing = "none" /\ ~(kept # <<>> /\ ~Joins(Head(kept), n))
    <2> DEFINE q == [b EXCEPT !.buffered = <<>>]
               start == [book |-> q, alert |-> "none"]
    <2>1. r = Replay(q, kept)
      BY <1>6 DEF sync_depth_book_from_snapshot
    <2> HIDE DEF r, b, kept
    <2>2. <<>> \in Seq(Event)
      OBVIOUS
    <2>3. q \in Book /\ q.last = b.last /\ q.bids = b.bids /\ q.asks = b.asks
      BY <1>3, <2>2, BufferIsBook
    <2> HIDE DEF q
    <2>4. is_synced(q) /\ Faithful(q)
      BY <1>3, <1>6, <2>3 DEF is_synced, Faithful
    <2>5. ReplayGood(start)
      <3>1. start \in Result
        BY <2>3 DEF Result, Alert
      <3> QED BY <2>4, <3>1 DEF ReplayGood
    <2>6. /\ ReplayGood(r)
          /\ r.alert = "none" => r.book.last >= q.last /\ \A i \in 1..Len(kept) : r.book.last >= kept[i].final
      BY <1>2, <2>1, <2>5, ReplayIsGood
    <2>7. r.book \in Book /\ r.alert \in Alert \ {"snapshot_fetch_failed"} /\ r.book.last \in Nat
      BY <2>6 DEF ReplayGood, Result, Alert, Book
    <2>8. ASSUME r.alert = "none", NEW i \in 1..Len(book.buffered)
          PROVE  r.book.last >= book.buffered[i].final
      <3>1. book.buffered[i].final \in Nat
        BY <1>1, DepthConfigValid DEF Event
      <3>2. CASE book.buffered[i].final > n
        BY <1>2, <2>6, <2>8, <3>2
      <3>3. CASE ~(book.buffered[i].final > n)
        BY <1>3, <2>3, <2>6, <2>7, <2>8, <3>1, <3>3
      <3> QED BY <3>2, <3>3
    <2> QED BY <2>6, <2>7, <2>8 DEF r, ReplayGood
  <1> QED BY <1>4, <1>5, <1>6

\* The answer of the snapshot request.
LEMMA SnapshotArrivesInv ==
    ASSUME NEW n \in Nat \ {0}, NEW failing, IInv, SnapshotArrives(n, failing)
    PROVE  IInv'
  <1> DEFINE r == sync_depth_book_from_snapshot(n, failing)
             s0 == [stats EXCEPT !.successes = @ + 1]
             s1 == IF r.alert = "none" THEN s0 ELSE record_gap_alert(s0, r.alert)
  <1>1. /\ phase = "fetching" /\ phase' = "idle"
        /\ book' = r.book /\ attempted' = (r.alert = "none")
        /\ stats' = update_depth_book_counts(s1, r.book) /\ unparsed' = (failing # "none")
        /\ UNCHANGED <<emitted, wire, watch, seen, since>>
        /\ faults' = faults \/ (faults < MaxFaults /\ faults' = faults + 1)
    BY DEF SnapshotArrives, Fault, exchangeVars
  <1>2. TypeOK /\ FetchCovers
    BY DEF IInv
  <1>3. /\ book \in Book /\ stats \in Stats /\ seen \in Nat
        /\ \A i \in 1..Len(book.buffered) : book.buffered[i].final \in Nat
    BY <1>2, DepthConfigValid DEF TypeOK, Book, Event
  <1>4. /\ r.book \in Book /\ r.alert \in Alert \ {"snapshot_fetch_failed"}
        /\ is_synced(r.book) /\ failing = "none" => Faithful(r.book)
        /\ ~is_synced(r.book) => r.alert # "none" /\ r.book.buffered = <<>>
        /\ r.alert = "none" =>
              \A i \in 1..Len(book.buffered) : r.book.last >= book.buffered[i].final
    BY <1>3, SyncIsGood
  <1>5. s0 \in Stats /\ s0.last_alert = stats.last_alert
    BY <1>3, CountersAreStats
  <1> HIDE DEF r, s0
  <1>6. /\ s1 \in Stats
        /\ s1.last_alert = IF r.alert = "none" THEN stats.last_alert ELSE r.alert
    BY <1>4, <1>5, CountersAreStats
  <1> HIDE DEF s1
  <1>7. stats' \in Stats /\ stats'.last_alert = s1.last_alert
    BY <1>1, <1>6, CountersAreStats
  <1>8. r.alert # "none" => DropAlerted(stats')
    BY <1>4, <1>6, <1>7 DEF DropAlerted, Alert
  <1>9. r.alert = "none" /\ DropAlerted(stats) => DropAlerted(stats')
    BY <1>6, <1>7 DEF DropAlerted
  <1>10. TypeOK'
    <2>1. /\ emitted \in 0..MaxId /\ wire \in Seq(Event) /\ faults \in 0..MaxFaults
          /\ watch \in {"running", "finished", "closed", "ended", "error"} /\ since \in Nat
      BY <1>2 DEF TypeOK
    <2>2. faults' \in 0..MaxFaults
      BY <1>1, <2>1, DepthConfigValid
    <2>3. attempted' \in BOOLEAN /\ unparsed' \in BOOLEAN
      BY <1>1
    <2> QED BY <1>1, <1>3, <1>4, <1>7, <2>1, <2>2, <2>3 DEF TypeOK
  <1>11. BookFaithful'
    BY <1>1, <1>4 DEF BookFaithful, Faithful
  <1>12. LagIsAlerted'
    <2> SUFFICES ASSUME r.book.last < seen PROVE DropAlerted(stats')
      BY <1>1 DEF LagIsAlerted, DropAlerted
    <2>1. r.book.last \in Nat
      BY <1>4 DEF Book
    <2>2. CASE r.alert # "none"
      BY <1>8, <2>2
    <2>3. CASE r.alert = "none" /\ DropAlerted(stats)
      BY <1>9, <2>3
    <2>4. CASE r.alert = "none" /\ ~DropAlerted(stats)
      <3>1. PICK i \in 1..Len(book.buffered) : book.buffered[i].final >= seen
        BY <1>1, <1>2, <2>4 DEF FetchCovers
      <3>2. r.book.last >= book.buffered[i].final
        BY <1>4, <2>4
      <3> QED BY <1>3, <2>1, <3>1, <3>2
    <2> QED BY <2>2, <2>3, <2>4
  <1>13. FetchCovers'
    BY <1>1 DEF FetchCovers
  <1>14. BufferCounts'
    BY <1>1, <1>2, <1>4, DepthConfigValid DEF BufferCounts, FetchCovers
  <1>15. UnaskedIsNew'
    BY <1>1, <1>4, <1>8 DEF UnaskedIsNew
  <1> QED BY <1>10, <1>11, <1>12, <1>13, <1>14, <1>15 DEF IInv

\* A fetch that fails leaves the book as it is.
LEMMA SnapshotFetchFailsInv ==
    ASSUME IInv, SnapshotFetchFails
    PROVE  IInv'
  <1> DEFINE s0 == [stats EXCEPT !.failures = @ + 1]
             s1 == record_gap_alert(s0, "snapshot_fetch_failed")
  <1>1. /\ phase = "fetching" /\ phase' = "idle"
        /\ stats' = update_depth_book_counts(s1, book)
        /\ UNCHANGED <<emitted, wire, book, attempted, watch, seen, since, unparsed>>
        /\ faults < MaxFaults /\ faults' = faults + 1
    BY DEF SnapshotFetchFails, Fault, exchangeVars
  <1>2. TypeOK /\ FetchCovers /\ BookFaithful /\ BufferCounts
    BY DEF IInv
  <1>3. stats \in Stats
    BY <1>2 DEF TypeOK
  <1>4. s0 \in Stats
    BY <1>3, CountersAreStats
  <1> HIDE DEF s0
  <1>5. s1 \in Stats
    BY <1>4, CountersAreStats DEF Alert
  <1> HIDE DEF s1
  <1>6. stats' \in Stats
    BY <1>1, <1>5, CountersAreStats
  <1>7. TypeOK'
    <2>1. faults' \in 0..MaxFaults
      BY <1>1, <1>2, DepthConfigValid DEF TypeOK
    <2> QED BY <1>1, <1>2, <1>6, <2>1 DEF TypeOK
  <1>8. ~is_synced(book) /\ attempted
    BY <1>1, <1>2 DEF FetchCovers
  <1>9. BookFaithful' /\ LagIsAlerted' /\ FetchCovers' /\ UnaskedIsNew'
    BY <1>1, <1>8 DEF BookFaithful, LagIsAlerted, FetchCovers, UnaskedIsNew
  <1>10. BufferCounts'
    BY <1>1, <1>2 DEF BufferCounts
  <1> QED BY <1>7, <1>9, <1>10 DEF IInv

\* The exchange, the wire and the end of the watch leave the client alone.
LEMMA OutsideInv ==
    ASSUME IInv, TypeOK', UNCHANGED <<book, attempted, phase, stats, seen, since, unparsed>>
    PROVE  IInv'
  <1>1. BookFaithful' /\ LagIsAlerted' /\ BufferCounts'
    BY DEF IInv, BookFaithful, LagIsAlerted, BufferCounts
  <1>2. FetchCovers' /\ UnaskedIsNew'
    BY DEF IInv, FetchCovers, UnaskedIsNew, DropAlerted
  <1> QED BY <1>1, <1>2 DEF IInv

\* Their steps, with the types they keep.
LEMMA WireTypeOK ==
    ASSUME TypeOK, \/ \E n \in 1..MaxSpan : ExchangeSends(n)
                   \/ EventLost \/ EventRepeated \/ EventGarbled
                   \/ \E how \in {"finished", "closed", "ended", "error"} : WatchEnds(how)
    PROVE  TypeOK' /\ UNCHANGED <<book, attempted, phase, stats, seen, since, unparsed>>
  <1>0. emitted \in 0..MaxId /\ wire \in Seq(Event) /\ faults \in 0..MaxFaults
        /\ watch \in {"running", "finished", "closed", "ended", "error"}
    BY DEF TypeOK
  <1>1. ASSUME UNCHANGED <<book, attempted, phase, stats, seen, since, unparsed>>,
               emitted' \in 0..MaxId, wire' \in Seq(Event), faults' \in 0..MaxFaults,
               watch' \in {"running", "finished", "closed", "ended", "error"}
        PROVE  TypeOK'
    BY <1>1 DEF TypeOK
  <1>2. ASSUME Fault PROVE faults' \in 0..MaxFaults
    BY <1>0, <1>2, DepthConfigValid DEF Fault
  <1>3. ASSUME NEW n \in 1..MaxSpan, ExchangeSends(n)
        PROVE  TypeOK' /\ UNCHANGED <<book, attempted, phase, stats, seen, since, unparsed>>
    <2> DEFINE e == [first |-> emitted + 1, final |-> emitted + n, bad |-> FALSE]
    <2>1. e \in Event
      <3>1. emitted + 1 \in 1..MaxId /\ emitted + n \in 1..MaxId /\ emitted + 1 <= emitted + n
        BY <1>0, <1>3, DepthConfigValid DEF ExchangeSends
      <3> QED BY <3>1 DEF Event
    <2>2. /\ UNCHANGED <<book, attempted, phase, stats, seen, since, unparsed, faults, watch>>
          /\ emitted' = emitted + n /\ emitted + n <= MaxId /\ wire' = Append(wire, e)
      BY <1>3 DEF ExchangeSends, client
    <2> HIDE DEF e
    <2>3. wire' \in Seq(Event)
      BY <1>0, <2>1, <2>2
    <2>4. emitted' \in 0..MaxId
      BY <1>0, <2>2, DepthConfigValid
    <2> QED BY <1>0, <1>1, <2>2, <2>3, <2>4
  <1>4. ASSUME EventLost \/ EventRepeated
        PROVE  TypeOK' /\ UNCHANGED <<book, attempted, phase, stats, seen, since, unparsed>>
    <2>1. /\ UNCHANGED <<book, attempted, phase, stats, seen, since, unparsed, watch, emitted>>
          /\ Fault /\ wire # <<>> /\ (wire' = Tail(wire) \/ wire' = Append(wire, Head(wire)))
      BY <1>4 DEF EventLost, EventRepeated, client
    <2>2. wire' \in Seq(Event)
      <3>1. Head(wire) \in Event /\ Tail(wire) \in Seq(Event)
        BY <1>0, <2>1
      <3>2. Append(wire, Head(wire)) \in Seq(Event)
        BY <1>0, <3>1
      <3> QED BY <2>1, <3>1, <3>2
    <2> QED BY <1>0, <1>1, <1>2, <2>1, <2>2
  <1>5. ASSUME EventGarbled
        PROVE  TypeOK' /\ UNCHANGED <<book, attempted, phase, stats, seen, since, unparsed>>
    <2> DEFINE e == [Head(wire) EXCEPT !.bad = TRUE]
    <2>1. /\ UNCHANGED <<book, attempted, phase, stats, seen, since, unparsed, watch, emitted>>
          /\ Fault /\ wire # <<>> /\ wire' = <<e>> \o Tail(wire)
      BY <1>5 DEF EventGarbled, client
    <2>2. Head(wire) \in Event /\ Tail(wire) \in Seq(Event)
      BY <1>0, <2>1
    <2>3. e \in Event
      BY <2>2 DEF Event
    <2> HIDE DEF e
    <2>4. wire' \in Seq(Event)
      BY <2>1, <2>2, <2>3
    <2> QED BY <1>0, <1>1, <1>2, <2>1, <2>4
  <1>6. ASSUME NEW how \in {"finished", "closed", "ended", "error"}, WatchEnds(how)
        PROVE  TypeOK' /\ UNCHANGED <<book, attempted, phase, stats, seen, since, unparsed>>
    <2>1. /\ UNCHANGED <<book, attempted, phase, stats, seen, since, unparsed, emitted, wire, faults>>
          /\ watch' = how
      BY <1>6 DEF WatchEnds, exchangeVars
    <2> QED BY <1>0, <1>1, <2>1
  <1> QED BY <1>3, <1>4, <1>5, <1>6

\* The invariant holds at the start.
LEMMA InitInv ==
    ASSUME Init
    PROVE  IInv
  <1>1. stats \in Stats
    BY DEF Init, Stats, Alert
  <1>2. book \in Book /\ ~is_synced(book) /\ book.buffered = <<>>
    BY ResetIsBook DEF Init
  <1>3. TypeOK
    <2>1. /\ wire = <<>> /\ emitted = 0 /\ faults = 0 /\ seen = 0 /\ since = 0
          /\ phase = "idle" /\ watch = "running" /\ attempted \in BOOLEAN /\ unparsed \in BOOLEAN
      BY DEF Init
    <2>2. wire \in Seq(Event)
      BY <2>1
    <2>3. emitted \in 0..MaxId /\ faults \in 0..MaxFaults /\ seen \in Nat /\ since \in Nat
      BY <2>1, DepthConfigValid
    <2> QED BY <1>1, <1>2, <2>1, <2>2, <2>3 DEF TypeOK
  <1>4. BookFaithful /\ LagIsAlerted /\ FetchCovers /\ UnaskedIsNew
    BY <1>2 DEF Init, BookFaithful, LagIsAlerted, FetchCovers, UnaskedIsNew
  <1>5. BufferCounts
    BY <1>2, DepthConfigValid DEF Init, BufferCounts
  <1> QED BY <1>3, <1>4, <1>5 DEF IInv

\* Every step keeps it.
LEMMA StepInv ==
    ASSUME IInv, [Next]_vars
    PROVE  IInv'
  <1>1. CASE UNCHANGED vars
    <2>1. TypeOK' /\ UNCHANGED <<book, attempted, phase, stats, seen, since, unparsed>>
      BY <1>1 DEF vars, IInv, TypeOK
    <2> QED BY <2>1, OutsideInv
  <1>2. CASE \/ \E n \in 1..MaxSpan : ExchangeSends(n)
             \/ EventLost \/ EventRepeated \/ EventGarbled
             \/ \E how \in {"finished", "closed", "ended", "error"} : WatchEnds(how)
    BY <1>2, WireTypeOK, OutsideInv DEF IInv
  <1>3. CASE HandleDiffDepthEvent(Head(wire))
    BY <1>3, OldEventInv, ResetInv, DeltaInv, BufferedInv, BufferOverflowInv DEF HandleDiffDepthEvent
  <1>4. ASSUME NEW n \in 1..emitted, NEW failing \in {"none", "bids", "asks"},
               SnapshotArrives(n, failing)
        PROVE  IInv'
    <2>1. n \in Nat \ {0}
      BY DEF IInv, TypeOK
    <2> QED BY <1>4, <2>1, SnapshotArrivesInv
  <1>5. CASE SnapshotFetchFails
    BY <1>5, SnapshotFetchFailsInv
  <1> QED BY <1>1, <1>2, <1>3, <1>4, <1>5 DEF Next

-----------------------------------------------------------------------------
\* The invariant holds of every behaviour.
LEMMA Invariant == Spec => []IInv
  <1>1. Init => IInv
    BY InitInv
  <1>2. IInv /\ [Next]_vars => IInv'
    BY StepInv
  <1> QED BY <1>1, <1>2, PTL DEF Spec

\* A synced book is the exchange's book at its last_update_id, whatever was
\* lost, repeated, buffered or answered late; only a snapshot that does not
\* parse breaks it (sync_depth_book_from_snapshot, handle_synced_depth_event).
THEOREM BookIsFaithful == Spec => []BookFaithful
  <1>1. IInv => BookFaithful
    BY DEF IInv
  <1> QED BY <1>1, Invariant, PTL

\* A synced book that is behind the events it handled is not so in silence:
\* the newest gap alert is of a step that dropped events.
THEOREM LagAlerted == Spec => []LagIsAlerted
  <1>1. IInv => LagIsAlerted
    BY DEF IInv
  <1> QED BY <1>1, Invariant, PTL

\* An unsynced book never handles more than MAX_BUFFERED_EVENTS events without
\* asking for a snapshot (should_fetch_snapshot, buffer_unsynced_depth_event).
THEOREM RetriesWithinBuffer == Spec => []RetriedWithinBuffer
  <1>1. IInv => RetriedWithinBuffer
    BY DepthConfigValid DEF IInv, TypeOK, Book, BufferCounts, RetriedWithinBuffer
  <1> QED BY <1>1, Invariant, PTL
=============================================================================

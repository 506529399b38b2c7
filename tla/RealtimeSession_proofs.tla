----------------------- MODULE RealtimeSession_proofs -----------------------
(***************************************************************************)
(* What a realtime worker's exit status and health record stand for, for    *)
(* every number of events, messages in the socket, reconnects and failures. *)
(* The appends of a message's events and of the final records are folds     *)
(* over sets of outcomes: what they return is proved by induction on the    *)
(* records, the rest by an inductive invariant over the steps.              *)
(***************************************************************************)
EXTENDS RealtimeSession, WellFoundedInduction, TLAPS

(* The inductive invariant. *)

\* A gap alert, and what the four families store.
GapTypes == {"depth_update_id_gap", "ordering_violation", "ws_reconnect", "upbit_error"}
GapAlert == [gap_type : GapTypes, nr : Nat]
Record == (0..MaxEvents) \cup {"critical", "healthy", "degraded", "symbol"} \cup GapAlert

Sink == [buffer : [Families -> SUBSET Record], stored : [Families -> SUBSET Record],
         failed : Nat, manifest : BOOLEAN]
Stats == [received : BOOLEAN, malformed : Nat, reconnects : Nat, gaps : Nat,
          alerts : Seq(GapAlert), last : 0..MaxEvents]

\* A message in the socket: only data carries events.
Wired == {m \in Message : m.kind # "data" => m.events = <<>>}

\* Every variable the argument uses has its type.
TypeOK ==
    /\ pc \in {"start", "watch", "connecting", "sleep"} \cup SessionPc \cup FinalPc \cup Exited
    /\ sent \in 0..MaxEvents /\ wire \in Seq(Wired)
    /\ stats \in Stats /\ sink \in Sink
    /\ handled \in SUBSET (1..MaxEvents) /\ quiet \in Nat

\* The records of family f that are stored or on the way there.
Held(s, f) == s.stored[f] \cup s.buffer[f]

\* An event that was parsed is held, unless a counter says why it is not.
HandledIsHeld ==
    pc # "failed" /\ sink.failed = 0 /\ stats.gaps = 0 /\ quiet = 0 =>
        handled \subseteq Held(sink, "raw_market_event")

\* Nothing but parsed events and REST snapshots is held.
HeldIsHandled == Held(sink, "raw_market_event") \subseteq handled \cup {Snapshot}

\* Past their step of finalize_storage the alerts are held.
AlertsHeld ==
    pc \in {"flush", "manifest", "report", "ok"} /\ sink.failed = 0 =>
        Range(stats.alerts) \subseteq Held(sink, "gap_alert")

\* Past the flush the buffers are empty, and later the manifest is up.
Flushed == pc \in {"manifest", "report", "ok"} => \A f \in Families : sink.buffer[f] = {}
ManifestUp == pc \in {"report", "ok"} => sink.manifest
OkIsClean == pc = "ok" => sink.failed = 0

\* The health record is of the statistics, which no longer change.
Clean == stats.gaps = 0 /\ stats.malformed = 0
HealthIsTrue ==
    /\ pc \in {"start", "watch", "connecting", "sleep", "health"} \cup SessionPc => Held(sink, "source_health") = {}
    /\ "healthy" \in Held(sink, "source_health") => Clean

\* Before the first connection nothing is parsed; a worker that lost its
\* connection has alerted.
FirstConnection ==
    /\ pc \in {"start", "watch", "connecting"} /\ stats.gaps = 0 => handled = {}
    /\ pc = "sleep" => stats.gaps > 0
    /\ pc \notin SessionPc => conn = "none" /\ wire = <<>>

HoleFree(S) == \A n, m \in S : n < m => n + 1 \in S

\* The events the worker has, or will have read when it comes to message i.
ReadBy(w, S, i) == S \cup {n \in 1..MaxEvents : \E k \in 1..(i - 1) : n \in Range(w[k].events)}

\* A message before message i that the counters will tell of.
SpoiledBy(w, i) == \E k \in 1..(i - 1) : w[k].kind \notin {"data", "control"}

\* The events of a message follow those in T without a hole.
Continues(es, T) ==
    \A j \in 1..Len(es) :
        \/ es[j] \in T \/ es[j] - 1 \in T
        \/ \E l \in 1..(j - 1) : es[l] = es[j] - 1
        \/ T = {} /\ j = 1

\* As long as nothing was counted, what the worker read, what is in the socket
\* and what the exchange sends next leave no hole.
Unbroken ==
    Clean =>
        /\ HoleFree(handled)
        /\ \A i \in 1..Len(wire) :
              SpoiledBy(wire, i) \/ Continues(wire[i].events, ReadBy(wire, handled, i))
        /\ conn = "open" =>
              LET T == ReadBy(wire, handled, Len(wire) + 1)
              IN  SpoiledBy(wire, Len(wire) + 1) \/ sent \in T \/ T = {}

SessionInv == FirstConnection /\ Unbroken
SinkInv ==
    /\ HandledIsHeld /\ HeldIsHandled /\ AlertsHeld /\ Flushed /\ ManifestUp /\ OkIsClean
    /\ HealthIsTrue
IInv == TypeOK /\ SessionInv /\ SinkInv

-----------------------------------------------------------------------------
(* Induction. *)

\* A nonempty set of naturals has a least element.
LEMMA NatLeast ==
    ASSUME NEW T \in SUBSET Nat, T # {}
    PROVE  \E x \in T : \A y \in T : x <= y
  <1> DEFINE R == OpToRel(<, Nat)
  <1>1. IsWellFoundedOn(R, Nat)
    BY NatLessThanWellFounded
  <1>2. \A x, y \in Nat : x < y => <<x, y>> \in R
    BY DEF OpToRel
  <1> HIDE DEF R
  <1>3. PICK x \in T : \A y \in T : ~ (<<y, x>> \in R)
    BY <1>1, WFMin
  <1>4. ASSUME NEW y \in T PROVE x <= y
    <2>1. x \in Nat /\ y \in Nat
      OBVIOUS
    <2>2. ~(y < x)
      BY <1>2, <1>3, <2>1
    <2> QED BY <2>1, <2>2
  <1> QED BY <1>4

\* A set with 0 that is closed under successor holds every natural.
LEMMA NatSets ==
    ASSUME NEW S, 0 \in S, \A n \in Nat : n \in S => n + 1 \in S
    PROVE  Nat \subseteq S
  <1> SUFFICES ASSUME Nat \ S # {} PROVE FALSE
    OBVIOUS
  <1>1. PICK x \in Nat \ S : \A y \in Nat \ S : x <= y
    BY NatLeast
  <1>2. x # 0 /\ x - 1 \in Nat
    BY <1>1
  <1>3. x - 1 \in S
    BY <1>1, <1>2
  <1>4. (x - 1) + 1 \in S
    BY <1>2, <1>3
  <1> QED BY <1>1, <1>4

\* f holds what a fold of step from b has after 0, 1, ... m items.
IsFold(f, m, b, step) == f[0] = b /\ \A i \in 1..m : f[i] = step[<<i, f[i - 1]>>]

\* A fold of a function on V exists.
LEMMA FoldExists ==
    ASSUME NEW n \in Nat, NEW V, NEW b \in V, NEW step \in [(1..n) \X V -> V]
    PROVE  \E f \in [0..n -> V] : IsFold(f, n, b, step)
  <1> USE DEF IsFold
  <1> DEFINE Fits(f, m) == IsFold(f, m, b, step)
             S == {m \in Nat : m <= n => \E f \in [0..n -> V] : Fits(f, m)}
  <1>1. 0 \in S
    <2> DEFINE f == [i \in 0..n |-> b]
    <2>1. f \in [0..n -> V] /\ f[0] = b
      OBVIOUS
    <2> HIDE DEF f
    <2>2. \A i \in 1..0 : f[i] = step[<<i, f[i - 1]>>]
      OBVIOUS
    <2> QED BY <2>1, <2>2
  <1>2. ASSUME NEW m \in Nat, m \in S PROVE m + 1 \in S
    <2> SUFFICES ASSUME m + 1 <= n PROVE \E f \in [0..n -> V] : Fits(f, m + 1)
      OBVIOUS
    <2>1. PICK f \in [0..n -> V] : Fits(f, m)
      BY <1>2
    <2>2. <<m + 1, f[m]>> \in (1..n) \X V
      BY <2>1
    <2> DEFINE g == [f EXCEPT ![m + 1] = step[<<m + 1, f[m]>>]]
    <2>3. /\ g \in [0..n -> V]
          /\ g[m + 1] = step[<<m + 1, f[m]>>]
          /\ \A i \in 0..m : g[i] = f[i]
      BY <2>2
    <2> HIDE DEF g
    <2>4. Fits(g, m + 1)
      <3>1. g[0] = b
        BY <2>1, <2>3
      <3>2. ASSUME NEW i \in 1..(m + 1) PROVE g[i] = step[<<i, g[i - 1]>>]
        <4>1. i - 1 \in 0..m
          OBVIOUS
        <4>2. g[i - 1] = f[i - 1]
          BY <2>3, <4>1
        <4>3. CASE i = m + 1
          BY <2>3, <4>2, <4>3
        <4>4. CASE i \in 1..m
          BY <2>1, <2>3, <4>2, <4>4
        <4> QED BY <4>3, <4>4
      <3> QED BY <3>1, <3>2
    <2> HIDE DEF Fits, IsFold
    <2> QED BY <2>3, <2>4
  <1> HIDE DEF S
  <1>3. n \in S
    BY <1>1, <1>2, NatSets
  <1> QED BY <1>3 DEF S


-----------------------------------------------------------------------------
(* The sink. *)

\* The records of the families are records.
LEMMA Records ==
    /\ Snapshot \in Record /\ \A n \in 1..MaxEvents : n \in Record
    /\ \A a \in GapAlert : a \in Record
    /\ "critical" \in Record /\ "healthy" \in Record /\ "degraded" \in Record /\ "symbol" \in Record
  BY RealtimeConfigValid DEF Record, Snapshot

\* A family's buffer, its stored records or the count of failed uploads
\* replaced.
WithBuffer(s, f, X) == [s EXCEPT !.buffer[f] = X]
WithStored(s, f, X) == [s EXCEPT !.stored[f] = X]
WithFailure(s) == [s EXCEPT !.failed = @ + 1]

\* What replacing a family's buffer leaves.
LEMMA BufferUpdate ==
    ASSUME NEW s \in Sink, NEW f \in Families, NEW X \in SUBSET Record
    PROVE  LET t == WithBuffer(s, f, X)
           IN  /\ t \in Sink /\ t.stored = s.stored /\ t.failed = s.failed
               /\ t.manifest = s.manifest /\ t.buffer[f] = X
               /\ \A g \in Families : g # f => t.buffer[g] = s.buffer[g]
  BY DEF Sink, WithBuffer

\* What replacing a family's stored records leaves.
LEMMA StoredUpdate ==
    ASSUME NEW s \in Sink, NEW f \in Families, NEW X \in SUBSET Record
    PROVE  LET t == WithStored(s, f, X)
           IN  /\ t \in Sink /\ t.buffer = s.buffer /\ t.failed = s.failed
               /\ t.manifest = s.manifest /\ t.stored[f] = X
               /\ \A g \in Families : g # f => t.stored[g] = s.stored[g]
  BY DEF Sink, WithStored

\* What counting a failed upload leaves.
LEMMA FailureUpdate ==
    ASSUME NEW s \in Sink
    PROVE  LET t == WithFailure(s)
           IN  /\ t \in Sink /\ t.buffer = s.buffer /\ t.stored = s.stored
               /\ t.manifest = s.manifest /\ t.failed = s.failed + 1
  BY DEF Sink, WithFailure

\* Sink t comes of s by appending the records R of family f, of which any may
\* have been lost.
Grows(s, t, f, R) ==
    /\ t \in Sink /\ t.failed >= s.failed /\ t.manifest = s.manifest
    /\ \A g \in Families : Held(t, g) \subseteq Held(s, g) \cup (IF g = f THEN R ELSE {})

\* None was lost unless a failed upload was counted.
Keeps(s, t, f, R) ==
    t.failed = s.failed =>
        \A g \in Families : Held(s, g) \cup (IF g = f THEN R ELSE {}) \subseteq Held(t, g)

\* The outcomes of a flush of one family.
LEMMA FlushFamilyDoes ==
    ASSUME NEW s \in Sink, NEW f \in Families, NEW o \in FlushFamily(s, f)
    PROVE  /\ o.ok \in BOOLEAN /\ Grows(s, o.sink, f, {})
           /\ o.ok => /\ Keeps(s, o.sink, f, {})
                      /\ o.sink.buffer[f] = {}
                      /\ \A g \in Families : g # f => o.sink.buffer[g] = s.buffer[g]
  <1> DEFINE taken == WithBuffer(s, f, {})
             put == WithStored(taken, f, s.stored[f] \cup s.buffer[f])
             fails == WithFailure(taken)
  <1>0. s.failed \in Nat /\ s.stored[f] \in SUBSET Record /\ s.buffer[f] \in SUBSET Record
    BY DEF Sink
  <1>1. /\ taken \in Sink /\ taken.stored = s.stored /\ taken.failed = s.failed
        /\ taken.manifest = s.manifest /\ taken.buffer[f] = {}
        /\ \A g \in Families : g # f => taken.buffer[g] = s.buffer[g]
    BY BufferUpdate
  <1>2. \/ s.buffer[f] = {} /\ o = Ok(s)
        \/ o = Ok(put) \/ o = Ok(fails) \/ o = Err(taken)
    BY <1>1 DEF FlushFamily, WithBuffer, WithStored, WithFailure
  <1> HIDE DEF taken
  <1>3. /\ put \in Sink /\ put.buffer = taken.buffer /\ put.failed = s.failed
        /\ put.manifest = s.manifest /\ put.stored[f] = s.stored[f] \cup s.buffer[f]
        /\ \A g \in Families : g # f => put.stored[g] = s.stored[g]
    <2> DEFINE X == s.stored[f] \cup s.buffer[f]
    <2>1. X \in SUBSET Record
      BY <1>0
    <2> HIDE DEF X
    <2>2. LET t == WithStored(taken, f, X)
          IN  /\ t \in Sink /\ t.buffer = taken.buffer /\ t.failed = taken.failed
              /\ t.manifest = taken.manifest /\ t.stored[f] = X
              /\ \A g \in Families : g # f => t.stored[g] = taken.stored[g]
      BY <1>1, <2>1, StoredUpdate
    <2> QED BY <1>1, <2>2 DEF X
  <1>4. /\ fails \in Sink /\ fails.buffer = taken.buffer /\ fails.stored = s.stored
        /\ fails.manifest = s.manifest /\ fails.failed = s.failed + 1
    BY <1>0, <1>1, FailureUpdate
  <1> HIDE DEF put, fails
  <1>5. CASE s.buffer[f] = {} /\ o = Ok(s)
    BY <1>0, <1>5 DEF Ok, Grows, Keeps, Held
  <1>6. CASE o = Ok(put)
    <2>1. o.sink = put /\ o.ok = TRUE
      BY <1>6 DEF Ok
    <2>2. \A g \in Families : Held(put, g) = Held(s, g)
      BY <1>0, <1>1, <1>3 DEF Held
    <2>3. Grows(s, put, f, {}) /\ Keeps(s, put, f, {})
      BY <1>0, <1>3, <2>2 DEF Grows, Keeps
    <2> QED BY <1>1, <1>3, <2>1, <2>3
  <1>7. CASE o = Ok(fails)
    <2>1. o.sink = fails /\ o.ok = TRUE
      BY <1>7 DEF Ok
    <2>2. \A g \in Families : Held(fails, g) \subseteq Held(s, g)
      BY <1>0, <1>1, <1>4 DEF Held
    <2>3. Grows(s, fails, f, {}) /\ Keeps(s, fails, f, {})
      BY <1>0, <1>4, <2>2 DEF Grows, Keeps
    <2> QED BY <1>1, <1>4, <2>1, <2>3
  <1>8. CASE o = Err(taken)
    <2>1. o.sink = taken /\ o.ok = FALSE
      BY <1>8 DEF Err
    <2>2. \A g \in Families : Held(taken, g) \subseteq Held(s, g)
      BY <1>0, <1>1 DEF Held
    <2>3. Grows(s, taken, f, {})
      BY <1>0, <1>1, <2>2 DEF Grows
    <2> QED BY <2>1, <2>3
  <1> QED BY <1>2, <1>5, <1>6, <1>7, <1>8

\* An outcome of appending the records R of family f.
Does(s, o, f, R) ==
    /\ o.ok \in BOOLEAN /\ Grows(s, o.sink, f, R)
    /\ o.ok => Keeps(s, o.sink, f, R)

\* Appends of one family add up.
LEMMA GrowsAdds ==
    ASSUME NEW s \in Sink, NEW t, NEW u, NEW f, NEW Q, NEW R, Grows(s, t, f, Q), Grows(t, u, f, R)
    PROVE  /\ Grows(s, u, f, Q \cup R)
           /\ Keeps(s, t, f, Q) /\ Keeps(t, u, f, R) => Keeps(s, u, f, Q \cup R)
  <1>1. s.failed \in Nat /\ t.failed \in Nat /\ u.failed \in Nat
    BY DEF Grows, Sink
  <1>2. u \in Sink /\ u.manifest = s.manifest /\ t.failed >= s.failed /\ u.failed >= t.failed
    BY DEF Grows
  <1>3. ASSUME NEW g \in Families
        PROVE  Held(u, g) \subseteq Held(s, g) \cup (IF g = f THEN Q \cup R ELSE {})
    <2>1. Held(t, g) \subseteq Held(s, g) \cup (IF g = f THEN Q ELSE {})
      BY DEF Grows
    <2>2. Held(u, g) \subseteq Held(t, g) \cup (IF g = f THEN R ELSE {})
      BY DEF Grows
    <2> QED BY <2>1, <2>2
  <1>4. ASSUME Keeps(s, t, f, Q), Keeps(t, u, f, R), u.failed = s.failed, NEW g \in Families
        PROVE  Held(s, g) \cup (IF g = f THEN Q \cup R ELSE {}) \subseteq Held(u, g)
    <2>0. t.failed = s.failed /\ u.failed = t.failed
      BY <1>1, <1>2, <1>4
    <2>1. Held(s, g) \cup (IF g = f THEN Q ELSE {}) \subseteq Held(t, g)
      BY <1>4, <2>0 DEF Keeps
    <2>2. Held(t, g) \cup (IF g = f THEN R ELSE {}) \subseteq Held(u, g)
      BY <1>4, <2>0 DEF Keeps
    <2> QED BY <2>1, <2>2
  <1>5. Grows(s, u, f, Q \cup R)
    BY <1>1, <1>2, <1>3 DEF Grows
  <1>6. Keeps(s, t, f, Q) /\ Keeps(t, u, f, R) => Keeps(s, u, f, Q \cup R)
    BY <1>4 DEF Keeps
  <1> QED BY <1>5, <1>6

\* A flush appends nothing, to whatever family.
LEMMA GrowsNothing ==
    ASSUME NEW s, NEW t, NEW f, NEW g
    PROVE  /\ Grows(s, t, f, {}) => Grows(s, t, g, {})
           /\ Keeps(s, t, f, {}) => Keeps(s, t, g, {})
  BY DEF Grows, Keeps

\* Nothing appended.
LEMMA NoOutcome ==
    ASSUME NEW s \in Sink, NEW f
    PROVE  Grows(s, s, f, {}) /\ Keeps(s, s, f, {})
  <1>1. s.failed \in Nat
    BY DEF Sink
  <1> QED BY <1>1 DEF Grows, Keeps

\* The outcomes of an append.
LEMMA SinkAppendDoes ==
    ASSUME NEW s \in Sink, NEW f \in Families, NEW r \in Record, NEW o \in SinkAppend(s, f, r)
    PROVE  Does(s, o, f, {r}) /\ o = [sink |-> o.sink, ok |-> o.ok]
  <1> DEFINE X == s.buffer[f] \cup {r}
             buffered == WithBuffer(s, f, X)
  <1>0. s.failed \in Nat /\ s.buffer[f] \in SUBSET Record /\ X \in SUBSET Record
    BY DEF Sink
  <1>1. /\ buffered \in Sink /\ buffered.stored = s.stored /\ buffered.failed = s.failed
        /\ buffered.manifest = s.manifest /\ buffered.buffer[f] = X
        /\ \A g \in Families : g # f => buffered.buffer[g] = s.buffer[g]
    <2>1. X \in SUBSET Record
      BY <1>0
    <2> HIDE DEF X
    <2> QED BY <2>1, BufferUpdate
  <1>2. o = Ok(buffered) \/ o \in FlushFamily(buffered, f) \/ o = Err(s)
    BY DEF SinkAppend, WithBuffer
  <1> HIDE DEF X, buffered
  <1>3. \A g \in Families : Held(buffered, g) = Held(s, g) \cup (IF g = f THEN {r} ELSE {})
    BY <1>0, <1>1 DEF Held, X
  <1>4. Grows(s, buffered, f, {r}) /\ Keeps(s, buffered, f, {r})
    BY <1>0, <1>1, <1>3 DEF Grows, Keeps
  <1>5. CASE o = Ok(buffered)
    <2>1. o.sink = buffered /\ o.ok = TRUE /\ o = [sink |-> o.sink, ok |-> o.ok]
      BY <1>5 DEF Ok
    <2> QED BY <1>4, <2>1 DEF Does
  <1>6. CASE o \in FlushFamily(buffered, f)
    <2>1. o.ok \in BOOLEAN /\ Grows(buffered, o.sink, f, {}) /\ (o.ok => Keeps(buffered, o.sink, f, {}))
      BY <1>1, <1>6, FlushFamilyDoes
    <2>2. o = [sink |-> o.sink, ok |-> o.ok]
      BY <1>6 DEF FlushFamily, Ok, Err
    <2>3. {r} \cup {} = {r}
      OBVIOUS
    <2>4. Grows(s, o.sink, f, {r}) /\ (o.ok => Keeps(s, o.sink, f, {r}))
      BY <1>4, <2>1, <2>3, GrowsAdds
    <2> QED BY <2>1, <2>2, <2>4 DEF Does
  <1>7. CASE o = Err(s)
    <2>1. o.sink = s /\ o.ok = FALSE /\ o = [sink |-> o.sink, ok |-> o.ok]
      BY <1>7 DEF Err
    <2>2. Grows(s, s, f, {r})
      BY <1>0 DEF Grows
    <2> QED BY <2>1, <2>2 DEF Does
  <1> QED BY <1>2, <1>5, <1>6, <1>7

\* An outcome of flushing the families S.
Flushes(s, o, S) ==
    /\ o.ok \in BOOLEAN /\ Grows(s, o.sink, "gap_alert", {})
    /\ o.ok => Keeps(s, o.sink, "gap_alert", {}) /\ \A g \in S : o.sink.buffer[g] = {}

\* One more family is flushed, unless there was an error.
LEMMA FlushesOneMore ==
    ASSUME NEW s \in Sink, NEW S \in SUBSET Families, NEW f \in Families,
           NEW o, Flushes(s, o, S), NEW q \in (IF o.ok THEN FlushFamily(o.sink, f) ELSE {o})
    PROVE  Flushes(s, q, S \cup {f})
  <1>1. CASE o.ok
    <2>1. o.sink \in Sink /\ Grows(s, o.sink, "gap_alert", {}) /\ Keeps(s, o.sink, "gap_alert", {})
      BY <1>1 DEF Flushes, Grows
    <2>2. q \in FlushFamily(o.sink, f)
      BY <1>1
    <2> DEFINE t == o.sink
    <2> HIDE DEF t
    <2>3. t \in Sink /\ q \in FlushFamily(t, f)
      BY <2>1, <2>2 DEF t
    <2>4. /\ q.ok \in BOOLEAN /\ Grows(t, q.sink, f, {})
          /\ q.ok => /\ Keeps(t, q.sink, f, {}) /\ q.sink.buffer[f] = {}
                     /\ \A g \in Families : g # f => q.sink.buffer[g] = t.buffer[g]
      BY <2>3, FlushFamilyDoes
    <2>5. Grows(t, q.sink, "gap_alert", {}) /\ (q.ok => Keeps(t, q.sink, "gap_alert", {}))
      BY <2>4, GrowsNothing
    <2>6. Grows(s, t, "gap_alert", {}) /\ Keeps(s, t, "gap_alert", {}) /\ {} \cup {} = {}
      BY <2>1 DEF t
    <2>7. Grows(s, q.sink, "gap_alert", {}) /\ (q.ok => Keeps(s, q.sink, "gap_alert", {}))
      BY <2>5, <2>6, GrowsAdds
    <2>8. ASSUME q.ok, NEW g \in S \cup {f} PROVE q.sink.buffer[g] = {}
      <3>1. \A h \in S : t.buffer[h] = {}
        BY <1>1 DEF Flushes, t
      <3> QED BY <2>4, <2>8, <3>1
    <2> QED BY <2>4, <2>7, <2>8 DEF Flushes
  <1>2. CASE ~o.ok
    <2>1. q = o
      BY <1>2
    <2> QED BY <1>2, <2>1 DEF Flushes
  <1> QED BY <1>1, <1>2

\* The outcomes of flush_all: with success every buffer is empty.
LEMMA FlushAllDoes ==
    ASSUME NEW s \in Sink, NEW o \in FlushAll(s)
    PROVE  Flushes(s, o, Families)
  <1> DEFINE then(os, f) == UNION {IF p.ok THEN FlushFamily(p.sink, f) ELSE {p} : p \in os}
             A == FlushFamily(s, "raw_market_event")
             B == then(A, "source_health")
             C == then(B, "symbol_health")
             D == then(C, "gap_alert")
  <1>0. \A f \in {"raw_market_event", "source_health", "symbol_health", "gap_alert"} : f \in Families
    BY DEF Families
  <1>1. ASSUME NEW p \in A PROVE Flushes(s, p, {"raw_market_event"})
    <2>1. /\ p.ok \in BOOLEAN /\ Grows(s, p.sink, "raw_market_event", {})
          /\ p.ok => /\ Keeps(s, p.sink, "raw_market_event", {})
                     /\ p.sink.buffer["raw_market_event"] = {}
      BY <1>0, FlushFamilyDoes
    <2> QED BY <2>1, GrowsNothing DEF Flushes
  <1> HIDE DEF A
  <1>2. ASSUME NEW p \in B PROVE Flushes(s, p, {"raw_market_event", "source_health"})
    <2>1. PICK a \in A : p \in (IF a.ok THEN FlushFamily(a.sink, "source_health") ELSE {a})
      OBVIOUS
    <2>2. Flushes(s, p, {"raw_market_event"} \cup {"source_health"})
      BY <1>0, <1>1, <2>1, FlushesOneMore
    <2>3. {"raw_market_event"} \cup {"source_health"} = {"raw_market_event", "source_health"}
      OBVIOUS
    <2> QED BY <2>2, <2>3
  <1> HIDE DEF B
  <1>3. ASSUME NEW p \in C PROVE Flushes(s, p, {"raw_market_event", "source_health", "symbol_health"})
    <2> DEFINE S == {"raw_market_event", "source_health"}
    <2>1. PICK a \in B : p \in (IF a.ok THEN FlushFamily(a.sink, "symbol_health") ELSE {a})
      OBVIOUS
    <2>2. S \in SUBSET Families /\ Flushes(s, a, S)
      BY <1>0, <1>2, <2>1
    <2>3. S \cup {"symbol_health"} = {"raw_market_event", "source_health", "symbol_health"}
      OBVIOUS
    <2> HIDE DEF S
    <2>4. Flushes(s, p, S \cup {"symbol_health"})
      BY <1>0, <2>1, <2>2, FlushesOneMore
    <2> QED BY <2>3, <2>4
  <1> HIDE DEF C
  <1>4. ASSUME NEW p \in D PROVE Flushes(s, p, Families)
    <2> DEFINE S == {"raw_market_event", "source_health", "symbol_health"}
    <2>1. PICK a \in C : p \in (IF a.ok THEN FlushFamily(a.sink, "gap_alert") ELSE {a})
      OBVIOUS
    <2>2. S \in SUBSET Families /\ Flushes(s, a, S)
      BY <1>0, <1>3, <2>1
    <2>3. S \cup {"gap_alert"} = Families
      BY DEF Families
    <2> HIDE DEF S
    <2>4. Flushes(s, p, S \cup {"gap_alert"})
      BY <1>0, <2>1, <2>2, FlushesOneMore
    <2> QED BY <2>3, <2>4
  <1>5. o \in D \cup (IF LiveNats = "off" THEN {} ELSE {Err(p.sink) : p \in D})
    BY DEF FlushAll, A, B, C
  <1> HIDE DEF D
  <1>6. ASSUME NEW p \in D, o = Err(p.sink) PROVE Flushes(s, o, Families)
    <2>1. o.sink = p.sink /\ o.ok = FALSE
      BY <1>6 DEF Err
    <2>2. Grows(s, p.sink, "gap_alert", {})
      BY <1>4 DEF Flushes
    <2> QED BY <2>1, <2>2 DEF Flushes
  <1> QED BY <1>4, <1>5, <1>6

-----------------------------------------------------------------------------
(* Records and events, one after the other. *)

Outcome == [sink : Sink, ok : BOOLEAN]

\* One more record after the outcomes os.
AppendMore(os, f, r) == UNION {IF o.ok THEN SinkAppend(o.sink, f, r) ELSE {o} : o \in os}

\* h has the outcomes after 0, 1, ... records.
IsAppendAll(h, f, records) ==
    /\ h[0] = {Ok(sink)}
    /\ \A i \in 1..Len(records) : h[i] = AppendMore(h[i - 1], f, records[i])
    /\ AppendAll(f, records) = h[Len(records)]

\* AppendAll is a fold, of which IsAppendAll has every stage.
LEMMA AppendAllFolds ==
    ASSUME sink \in Sink, NEW f \in Families, NEW records \in Seq(Record)
    PROVE  \E h : IsAppendAll(h, f, records)
  <1> DEFINE n == Len(records)
             start == {Ok(sink)}
             V == SUBSET Outcome
             Def(h) == h = [i \in 0..n |->
                               IF i = 0 THEN start
                               ELSE UNION {IF o.ok THEN SinkAppend(o.sink, f, records[i]) ELSE {o}
                                               : o \in h[i - 1]}]
             step == [p \in (1..n) \X V |-> AppendMore(p[2], f, records[p[1]])]
  <1>1. n \in Nat /\ start \in V /\ \A i \in 1..n : records[i] \in Record
    BY DEF Ok, Outcome
  <1>2. step \in [(1..n) \X V -> V]
    <2>1. ASSUME NEW i \in 1..n, NEW os \in V PROVE AppendMore(os, f, records[i]) \in V
      <3>1. ASSUME NEW o \in Outcome, NEW a \in SinkAppend(o.sink, f, records[i]) PROVE a \in Outcome
        <4>1. o.sink \in Sink /\ records[i] \in Record
          BY <1>1 DEF Outcome
        <4> DEFINE s == o.sink
                   r == records[i]
        <4>2. s \in Sink /\ r \in Record /\ a \in SinkAppend(s, f, r)
          BY <4>1, <3>1
        <4> HIDE DEF s, r
        <4>3. Does(s, a, f, {r}) /\ a = [sink |-> a.sink, ok |-> a.ok]
          BY <4>2, SinkAppendDoes
        <4>4. a.sink \in Sink /\ a.ok \in BOOLEAN
          BY <4>3 DEF Does, Grows
        <4> QED BY <4>3, <4>4 DEF Outcome
      <3> QED BY <3>1 DEF AppendMore
    <2> HIDE DEF V, n
    <2> QED BY <2>1
  <1>3. \A i \in 1..n, os \in V : step[<<i, os>>] = AppendMore(os, f, records[i])
    OBVIOUS
  <1> HIDE DEF V, n, step, start
  <1>4. PICK h \in [0..n -> V] : IsFold(h, n, start, step)
    BY <1>1, <1>2, FoldExists
  <1>5. \E g : Def(g)
    <2>1. ASSUME NEW i \in 0..n
          PROVE  h[i] = IF i = 0 THEN start
                        ELSE UNION {IF o.ok THEN SinkAppend(o.sink, f, records[i]) ELSE {o}
                                        : o \in h[i - 1]}
      <3>1. CASE i = 0
        BY <1>4, <3>1 DEF IsFold
      <3>2. CASE i # 0
        <4>1. i \in 1..n /\ i - 1 \in 0..n
          BY <1>1, <3>2
        <4>2. h[i] = AppendMore(h[i - 1], f, records[i])
          BY <1>3, <1>4, <4>1 DEF IsFold
        <4> QED BY <3>2, <4>2 DEF AppendMore
      <3> QED BY <3>1, <3>2
    <2>2. Def(h)
      BY <2>1, Zenon
    <2> HIDE DEF Def
    <2> QED BY <2>2
  <1> DEFINE c == CHOOSE g : Def(g)
  <1>6. Def(c)
    BY <1>5, Zenon
  <1>7. AppendAll(f, records) = c[n]
    BY DEF AppendAll, n, start
  <1> HIDE DEF c
  <1>8. \A i \in 0..n : c[i] = IF i = 0 THEN start
                                ELSE UNION {IF o.ok THEN SinkAppend(o.sink, f, records[i]) ELSE {o}
                                                : o \in c[i - 1]}
    BY <1>6, Zenon
  <1>9. c[0] = start /\ \A i \in 1..n : c[i] = AppendMore(c[i - 1], f, records[i])
    <2>1. c[0] = start
      <3>1. 0 \in 0..n
        BY <1>1
      <3> QED BY <1>8, <3>1, Zenon
    <2>2. ASSUME NEW i \in 1..n PROVE c[i] = AppendMore(c[i - 1], f, records[i])
      <3>1. i \in 0..n /\ i # 0
        BY <1>1
      <3> QED BY <1>8, <3>1, Zenon DEF AppendMore
    <2> QED BY <2>1, <2>2
  <1>10. IsAppendAll(c, f, records)
    BY <1>7, <1>9 DEF n, start, IsAppendAll
  <1> QED BY <1>10

\* What has been appended after one more record.
LEMMA AppendsOneMore ==
    ASSUME NEW s \in Sink, NEW f \in Families, NEW R, NEW r \in Record, NEW o, Does(s, o, f, R),
           NEW q \in (IF o.ok THEN SinkAppend(o.sink, f, r) ELSE {o})
    PROVE  Does(s, q, f, R \cup {r})
  <1>1. CASE o.ok
    <2> DEFINE t == o.sink
    <2>1. t \in Sink /\ q \in SinkAppend(t, f, r) /\ Grows(s, t, f, R) /\ Keeps(s, t, f, R)
      BY <1>1 DEF Does, Grows
    <2> HIDE DEF t
    <2>2. q.ok \in BOOLEAN /\ Grows(t, q.sink, f, {r}) /\ (q.ok => Keeps(t, q.sink, f, {r}))
      BY <2>1, SinkAppendDoes DEF Does
    <2>3. Grows(s, q.sink, f, R \cup {r}) /\ (q.ok => Keeps(s, q.sink, f, R \cup {r}))
      BY <2>1, <2>2, GrowsAdds
    <2> QED BY <2>2, <2>3 DEF Does
  <1>2. CASE ~o.ok
    <2>1. q = o
      BY <1>2
    <2>2. Grows(s, o.sink, f, R) => Grows(s, o.sink, f, R \cup {r})
      BY DEF Grows
    <2> QED BY <1>2, <2>1, <2>2 DEF Does
  <1> QED BY <1>1, <1>2

\* The outcomes of appending a sequence of records.
LEMMA AppendAllDoes ==
    ASSUME sink \in Sink, NEW f \in Families, NEW records \in Seq(Record),
           NEW o \in AppendAll(f, records)
    PROVE  Does(sink, o, f, Range(records))
  <1> DEFINE n == Len(records)
             R(m) == {records[i] : i \in 1..m}
  <1>0. PICK h : IsAppendAll(h, f, records)
    BY AppendAllFolds
  <1>1. /\ h[0] = {Ok(sink)}
        /\ \A i \in 1..n : h[i] = AppendMore(h[i - 1], f, records[i])
        /\ AppendAll(f, records) = h[n]
    BY <1>0 DEF IsAppendAll
  <1> DEFINE T == {m \in Nat : m <= n => \A a \in h[m] : Does(sink, a, f, R(m))}
  <1>2. 0 \in T
    <2>1. ASSUME NEW a \in h[0] PROVE Does(sink, a, f, R(0))
      <3>1. a.sink = sink /\ a.ok = TRUE
        BY <1>1 DEF Ok
      <3>2. R(0) = {}
        OBVIOUS
      <3> QED BY <3>1, <3>2, NoOutcome DEF Does
    <2> HIDE DEF R
    <2> QED BY <2>1
  <1>3. ASSUME NEW m \in Nat, m \in T PROVE m + 1 \in T
    <2>1. ASSUME m + 1 <= n, NEW q \in h[m + 1] PROVE Does(sink, q, f, R(m + 1))
      <3>1. m + 1 \in 1..n /\ records[m + 1] \in Record /\ (m + 1) - 1 = m
        BY <2>1
      <3>2. q \in AppendMore(h[m], f, records[m + 1])
        BY <1>1, <2>1, <3>1
      <3>3. PICK a \in h[m] : q \in (IF a.ok THEN SinkAppend(a.sink, f, records[m + 1]) ELSE {a})
        BY <3>2 DEF AppendMore
      <3>4. Does(sink, a, f, R(m))
        BY <1>3, <2>1, <3>3
      <3>5. R(m + 1) = R(m) \cup {records[m + 1]}
        OBVIOUS
      <3> HIDE DEF R
      <3> QED BY <3>1, <3>3, <3>4, <3>5, AppendsOneMore
    <2> HIDE DEF R
    <2> QED BY <2>1
  <1>4. n \in T
    <2> HIDE DEF T
    <2>1. n \in Nat
      OBVIOUS
    <2> QED BY <1>2, <1>3, <2>1, NatSets
  <1>5. R(n) = Range(records)
    BY DEF Range
  <1> QED BY <1>1, <1>4, <1>5

-----------------------------------------------------------------------------
(* The statistics. *)

\* The counters never go back.
Counts(st, su) == su \in Stats /\ su.gaps >= st.gaps /\ su.malformed >= st.malformed

\* The parts of a statistics record.
LEMMA StatsParts ==
    ASSUME NEW st \in Stats
    PROVE  /\ st.malformed \in Nat /\ st.reconnects \in Nat /\ st.gaps \in Nat
           /\ st.alerts \in Seq(GapAlert) /\ Counts(st, st)
  BY DEF Stats, Counts

\* record_gap_alert counts one.
LEMMA AlertCounts ==
    ASSUME NEW st \in Stats, NEW type \in GapTypes
    PROVE  Counts(st, record_gap_alert(st, type)) /\ record_gap_alert(st, type).gaps = st.gaps + 1
  <1> DEFINE a == [gap_type |-> type, nr |-> st.gaps + 1]
             pushed == Append(st.alerts, a)
             kept == IF Len(pushed) > MaxStoredGapAlerts THEN Tail(pushed) ELSE pushed
  <1>1. a \in GapAlert
    BY StatsParts DEF GapAlert, GapTypes
  <1> HIDE DEF a
  <1>2. pushed \in Seq(GapAlert) /\ pushed # <<>>
    BY <1>1, StatsParts
  <1> HIDE DEF pushed
  <1>3. kept \in Seq(GapAlert)
    BY <1>2
  <1> DEFINE k == st.gaps + 1
             new == [[st EXCEPT !.gaps = k] EXCEPT !.alerts = kept]
  <1>4. record_gap_alert(st, type) = new
    BY DEF record_gap_alert, a, pushed
  <1> HIDE DEF kept
  <1>5. k \in Nat /\ st.gaps \in Nat /\ st.malformed \in Nat
    BY StatsParts
  <1>6. k >= st.gaps
    BY <1>5
  <1>7. new \in Stats /\ new.gaps = k /\ new.malformed = st.malformed
    <2> HIDE DEF k
    <2> QED BY <1>3, <1>5 DEF Stats
  <1> HIDE DEF new
  <1> QED BY <1>4, <1>5, <1>6, <1>7 DEF Counts

\* record_event and record_reconnect count too.
LEMMA EventCounts ==
    ASSUME NEW st \in Stats, NEW n \in 1..MaxEvents
    PROVE  Counts(st, record_event(st, n))
  <1> DEFINE seen == [st EXCEPT !.last = n]
  <1>0. n \in 0..MaxEvents
    BY RealtimeConfigValid
  <1>1. seen \in Stats /\ seen.gaps = st.gaps /\ seen.malformed = st.malformed
    BY <1>0 DEF Stats
  <1>2. \/ record_event(st, n) = seen
        \/ \E type \in GapTypes : record_event(st, n) = record_gap_alert(seen, type)
    BY DEF record_event, GapTypes
  <1> HIDE DEF seen
  <1>3. CASE record_event(st, n) = seen
    BY <1>1, <1>3, StatsParts DEF Counts
  <1>4. ASSUME NEW type \in GapTypes, record_event(st, n) = record_gap_alert(seen, type)
        PROVE  Counts(st, record_event(st, n))
    BY <1>1, <1>4, AlertCounts DEF Counts
  <1> QED BY <1>2, <1>3, <1>4

\* record_reconnect counts an alert.
LEMMA ReconnectCounts ==
    ASSUME NEW st \in Stats
    PROVE  Counts(st, record_reconnect(st)) /\ record_reconnect(st).gaps > 0
  <1> DEFINE seen == [st EXCEPT !.reconnects = @ + 1]
  <1>1. seen \in Stats /\ seen.gaps = st.gaps /\ seen.malformed = st.malformed
    BY DEF Stats
  <1>2. record_reconnect(st) = record_gap_alert(seen, "ws_reconnect")
    BY DEF record_reconnect
  <1> HIDE DEF seen
  <1>3. Counts(seen, record_gap_alert(seen, "ws_reconnect"))
        /\ record_gap_alert(seen, "ws_reconnect").gaps = seen.gaps + 1
    BY <1>1, AlertCounts DEF GapTypes
  <1>4. st.gaps \in Nat
    BY StatsParts
  <1> QED BY <1>1, <1>2, <1>3, <1>4 DEF Counts

-----------------------------------------------------------------------------
(* The handler of a message. *)

\* The elements of a sequence.
LEMMA SeqElements ==
    ASSUME NEW E, NEW q \in Seq(E)
    PROVE  Len(q) \in Nat /\ Range(q) \subseteq E /\ \A i \in 1..Len(q) : q[i] \in E
  BY DEF Range

\* A function on 1..k is a sequence.
LEMMA SeqOf ==
    ASSUME NEW E, NEW k \in Nat, NEW q \in [1..k -> E]
    PROVE  q \in Seq(E)
  OBVIOUS

Handling == [sink : Sink, ok : BOOLEAN, stats : Stats]

\* One more event after the outcomes os.
HandleMore(os, n) == UNION {IF o.ok THEN HandleEvent(o, n) ELSE {o} : o \in os}

\* An outcome of parsing and storing the events R, from sink s and statistics st.
Handles(s, st, o, R) == Does(s, o, "raw_market_event", R) /\ Counts(st, o.stats)

\* What has been handled after one more event.
LEMMA HandlesOneMore ==
    ASSUME NEW s \in Sink, NEW st \in Stats, NEW R, NEW n \in 1..MaxEvents,
           NEW o, Handles(s, st, o, R), NEW q \in (IF o.ok THEN HandleEvent(o, n) ELSE {o})
    PROVE  Handles(s, st, q, R \cup {n}) /\ (o \in Handling => q \in Handling)
  <1>0. n \in Record /\ "raw_market_event" \in Families
    BY Records DEF Families
  <1>1. CASE o.ok
    <2>1. PICK a \in SinkAppend(o.sink, "raw_market_event", n) :
             q = [sink |-> a.sink, ok |-> a.ok,
                  stats |-> IF a.ok THEN record_event(o.stats, n) ELSE o.stats]
      BY <1>1 DEF HandleEvent
    <2>2. q.sink = a.sink /\ q.ok = a.ok /\ q.stats \in {record_event(o.stats, n), o.stats}
      BY <2>1
    <2>3. Does(s, a, "raw_market_event", R \cup {n})
      BY <1>0, <1>1, <2>1, AppendsOneMore DEF Handles
    <2>4. Does(s, q, "raw_market_event", R \cup {n})
      BY <2>2, <2>3 DEF Does
    <2> DEFINE su == o.stats
    <2>5. su \in Stats /\ Counts(st, su)
      BY DEF Handles, Counts
    <2>6. Counts(st, q.stats)
      <3> HIDE DEF su
      <3>1. Counts(su, record_event(su, n))
        BY <2>5, EventCounts
      <3>2. st.gaps \in Nat /\ st.malformed \in Nat /\ su.gaps \in Nat /\ su.malformed \in Nat
        BY <2>5, StatsParts
      <3> DEFINE sv == record_event(su, n)
      <3>3. sv.gaps \in Nat /\ sv.malformed \in Nat
        BY <3>1, StatsParts DEF Counts
      <3>4. Counts(st, sv)
        <4> HIDE DEF sv
        <4>1. Counts(su, sv)
          BY <3>1 DEF sv
        <4> QED BY <2>5, <3>2, <3>3, <4>1 DEF Counts
      <3> QED BY <2>2, <2>5, <3>4 DEF su
    <2>7. a.sink \in Sink /\ a.ok \in BOOLEAN
      BY <2>3 DEF Does, Grows
    <2>8. q \in Handling
      <3>1. q.stats \in Stats
        BY <2>6 DEF Counts
      <3>2. q = [sink |-> a.sink, ok |-> a.ok, stats |-> q.stats]
        BY <2>1
      <3> QED BY <2>7, <3>1, <3>2 DEF Handling
    <2> QED BY <2>4, <2>6, <2>8 DEF Handles
  <1>2. CASE ~o.ok
    <2>1. q = o
      BY <1>2
    <2>2. q \in (IF o.ok THEN SinkAppend(o.sink, "raw_market_event", n) ELSE {o})
      BY <1>2, <2>1
    <2>3. Does(s, q, "raw_market_event", R \cup {n})
      BY <1>0, <2>2, AppendsOneMore DEF Handles
    <2> QED BY <2>1, <2>3 DEF Handles
  <1> QED BY <1>1, <1>2

\* h has the outcomes after 0, 1, ... events.
IsHandling(h, here, events) ==
    /\ h[0] = {here}
    /\ \A i \in 1..Len(events) : h[i] = HandleMore(h[i - 1], events[i])
    /\ HandleEvents(here, events) = h[Len(events)]

\* HandleEvents is a fold, of which IsHandling has every stage.
LEMMA HandleEventsFolds ==
    ASSUME NEW here \in Handling, NEW events \in Seq(1..MaxEvents)
    PROVE  \E h : IsHandling(h, here, events)
  <1> DEFINE n == Len(events)
             start == {here}
             V == SUBSET Handling
             Def(h) == h = [i \in 0..n |->
                               IF i = 0 THEN start
                               ELSE UNION {IF o.ok THEN HandleEvent(o, events[i]) ELSE {o}
                                               : o \in h[i - 1]}]
             step == [p \in (1..n) \X V |-> HandleMore(p[2], events[p[1]])]
  <1>1. n \in Nat /\ start \in V /\ \A i \in 1..n : events[i] \in 1..MaxEvents
    BY SeqElements
  <1>2. step \in [(1..n) \X V -> V]
    <2>1. ASSUME NEW i \in 1..n, NEW os \in V PROVE HandleMore(os, events[i]) \in V
      <3>1. ASSUME NEW o \in Handling, NEW q \in (IF o.ok THEN HandleEvent(o, events[i]) ELSE {o})
            PROVE  q \in Handling
        <4> DEFINE s == o.sink
                   st == o.stats
        <4>1. s \in Sink /\ st \in Stats /\ o.ok \in BOOLEAN /\ events[i] \in 1..MaxEvents
          BY <1>1 DEF Handling
        <4>2. Handles(s, st, o, {})
          BY <4>1, NoOutcome, StatsParts DEF Handles, Does
        <4> HIDE DEF s, st
        <4> QED BY <3>1, <4>1, <4>2, HandlesOneMore
      <3> QED BY <3>1 DEF HandleMore
    <2> HIDE DEF V, n
    <2> QED BY <2>1
  <1>3. \A i \in 1..n, os \in V : step[<<i, os>>] = HandleMore(os, events[i])
    OBVIOUS
  <1> HIDE DEF V, n, step, start
  <1>4. PICK h \in [0..n -> V] : IsFold(h, n, start, step)
    BY <1>1, <1>2, FoldExists
  <1>5. \E g : Def(g)
    <2>1. ASSUME NEW i \in 0..n
          PROVE  h[i] = IF i = 0 THEN start
                        ELSE UNION {IF o.ok THEN HandleEvent(o, events[i]) ELSE {o}
                                        : o \in h[i - 1]}
      <3>1. CASE i = 0
        BY <1>4, <3>1 DEF IsFold
      <3>2. CASE i # 0
        <4>1. i \in 1..n /\ i - 1 \in 0..n
          BY <1>1, <3>2
        <4>2. h[i] = HandleMore(h[i - 1], events[i])
          BY <1>3, <1>4, <4>1 DEF IsFold
        <4> QED BY <3>2, <4>2 DEF HandleMore
      <3> QED BY <3>1, <3>2
    <2>2. Def(h)
      BY <2>1, Zenon
    <2> HIDE DEF Def
    <2> QED BY <2>2
  <1> DEFINE c == CHOOSE g : Def(g)
  <1>6. Def(c)
    BY <1>5, Zenon
  <1>7. HandleEvents(here, events) = c[n]
    BY DEF HandleEvents, n, start
  <1> HIDE DEF c
  <1>8. \A i \in 0..n : c[i] = IF i = 0 THEN start
                                ELSE UNION {IF o.ok THEN HandleEvent(o, events[i]) ELSE {o}
                                                : o \in c[i - 1]}
    BY <1>6, Zenon
  <1>9. c[0] = start /\ \A i \in 1..n : c[i] = HandleMore(c[i - 1], events[i])
    <2>1. c[0] = start
      <3>1. 0 \in 0..n
        BY <1>1
      <3> QED BY <1>8, <3>1, Zenon
    <2>2. ASSUME NEW i \in 1..n PROVE c[i] = HandleMore(c[i - 1], events[i])
      <3>1. i \in 0..n /\ i # 0
        BY <1>1
      <3> QED BY <1>8, <3>1, Zenon DEF HandleMore
    <2> QED BY <2>1, <2>2
  <1>10. IsHandling(c, here, events)
    BY <1>7, <1>9 DEF n, start, IsHandling
  <1> QED BY <1>10

\* The outcomes of handling the events of a payload.
LEMMA HandleEventsDoes ==
    ASSUME NEW s \in Sink, NEW st \in Stats, NEW here \in Handling, Handles(s, st, here, {}),
           NEW events \in Seq(1..MaxEvents), NEW o \in HandleEvents(here, events)
    PROVE  Handles(s, st, o, Range(events))
  <1> DEFINE n == Len(events)
             R(m) == {events[i] : i \in 1..m}
  <1>0. PICK h : IsHandling(h, here, events)
    BY HandleEventsFolds
  <1>1. /\ h[0] = {here}
        /\ \A i \in 1..n : h[i] = HandleMore(h[i - 1], events[i])
        /\ HandleEvents(here, events) = h[n]
    BY <1>0 DEF IsHandling
  <1> DEFINE T == {m \in Nat : m <= n => \A a \in h[m] : Handles(s, st, a, R(m))}
  <1>2. 0 \in T
    <2>1. R(0) = {}
      OBVIOUS
    <2> HIDE DEF R
    <2> QED BY <1>1, <2>1
  <1>3. ASSUME NEW m \in Nat, m \in T PROVE m + 1 \in T
    <2>1. ASSUME m + 1 <= n, NEW q \in h[m + 1] PROVE Handles(s, st, q, R(m + 1))
      <3>0. m + 1 \in 1..n /\ (m + 1) - 1 = m
        BY <2>1
      <3> DEFINE e == events[m + 1]
      <3>1. m + 1 \in 1..n /\ e \in 1..MaxEvents /\ (m + 1) - 1 = m
        BY <3>0, SeqElements
      <3>2. q \in HandleMore(h[m], events[m + 1])
        BY <1>1, <2>1, <3>1
      <3>3. PICK a \in h[m] : q \in (IF a.ok THEN HandleEvent(a, events[m + 1]) ELSE {a})
        BY <3>2 DEF HandleMore
      <3>4. Handles(s, st, a, R(m))
        BY <1>3, <2>1, <3>3
      <3>5. R(m + 1) = R(m) \cup {e}
        OBVIOUS
      <3> HIDE DEF R, e
      <3>6. q \in (IF a.ok THEN HandleEvent(a, e) ELSE {a})
        BY <3>3 DEF e
      <3> QED BY <3>1, <3>4, <3>5, <3>6, HandlesOneMore
    <2> HIDE DEF R
    <2> QED BY <2>1
  <1>4. n \in T
    <2> HIDE DEF T
    <2>1. n \in Nat
      OBVIOUS
    <2> QED BY <1>2, <1>3, <2>1, NatSets
  <1>5. R(n) = Range(events)
    BY DEF Range
  <1> QED BY <1>1, <1>4, <1>5

\* The outcomes of handling a message: what is not data or control shows in
\* the counters, or ends the connection.
LEMMA HandleMessageDoes ==
    ASSUME sink \in Sink, stats \in Stats, NEW m \in Wired, NEW o \in HandleMessage(m)
    PROVE  /\ Handles(sink, stats, o, Range(m.events))
           /\ o.ok /\ m.kind \notin {"data", "control"} => o.stats.gaps > 0 \/ o.stats.malformed > 0
  <1> DEFINE su == [stats EXCEPT !.received = TRUE]
             here == [sink |-> sink, ok |-> TRUE, stats |-> su]
  <1>0. m \in Message /\ m.events \in Seq(1..MaxEvents) /\ (m.kind # "data" => m.events = <<>>)
    BY DEF Wired, Message
  <1>1. stats.gaps \in Nat /\ stats.malformed \in Nat /\ Counts(stats, stats)
    BY StatsParts
  <1>2. su \in Stats /\ su.gaps = stats.gaps /\ su.malformed = stats.malformed
    BY DEF Stats
  <1>3. Counts(stats, su)
    BY <1>1, <1>2 DEF Counts
  <1> HIDE DEF su
  <1>4. m.kind # "data" => Range(m.events) = {}
    <2>1. Range(<<>>) = {}
      BY DEF Range
    <2> QED BY <1>0, <2>1
  <1>5. ASSUME NEW st, Counts(stats, st), o.sink = sink, o.ok \in BOOLEAN, o.stats = st, m.kind # "data"
        PROVE  Handles(sink, stats, o, Range(m.events))
    BY <1>4, <1>5, NoOutcome DEF Handles, Does
  <1>6. CASE m.kind = "data"
    <2>1. here \in Handling /\ here.sink = sink /\ here.ok = TRUE /\ here.stats = su
      BY <1>2 DEF Handling
    <2>2. Handles(sink, stats, here, {})
      <3> HIDE DEF here
      <3> QED BY <1>3, <2>1, NoOutcome DEF Handles, Does
    <2>3. o \in HandleEvents(here, m.events)
      BY <1>6 DEF HandleMessage, su
    <2> HIDE DEF here
    <2> DEFINE es == m.events
    <2>4. es \in Seq(1..MaxEvents) /\ o \in HandleEvents(here, es)
      BY <1>0, <2>3
    <2> HIDE DEF es
    <2>5. Handles(sink, stats, o, Range(es))
      BY <2>1, <2>2, <2>4, HandleEventsDoes
    <2> QED BY <1>6, <2>5 DEF es
  <1>7. CASE m.kind \in {"garbled", "unknown"}
    <2>1. o = [here EXCEPT !.stats.malformed = @ + 1]
      BY <1>7 DEF HandleMessage, su
    <2> DEFINE k == su.malformed + 1
               sv == [su EXCEPT !.malformed = k]
    <2>2. o.sink = sink /\ o.ok = TRUE /\ o.stats = sv
      BY <2>1
    <2>3. k \in Nat /\ k > 0 /\ k >= stats.malformed
      BY <1>1, <1>2
    <2> HIDE DEF k
    <2>4. sv \in Stats /\ sv.gaps = stats.gaps /\ sv.malformed = k
      BY <1>2, <2>3 DEF Stats
    <2> HIDE DEF sv
    <2>5. Counts(stats, sv) /\ sv.malformed > 0
      BY <1>1, <2>3, <2>4 DEF Counts
    <2> QED BY <1>5, <1>7, <2>2, <2>5
  <1>8. CASE m.kind = "control"
    <2>1. o = [here EXCEPT !.stats = stats]
      BY <1>8 DEF HandleMessage, su
    <2>2. o.sink = sink /\ o.ok = TRUE /\ o.stats = stats
      BY <2>1
    <2> QED BY <1>1, <1>5, <1>8, <2>2
  <1>9. CASE m.kind = "error"
    <2> DEFINE sv == record_gap_alert(su, "upbit_error")
    <2>1. o = [here EXCEPT !.stats = sv]
      BY <1>9 DEF HandleMessage, su
    <2>2. Counts(su, sv) /\ sv.gaps = su.gaps + 1
      BY <1>2, AlertCounts DEF GapTypes
    <2> HIDE DEF sv
    <2>3. o.sink = sink /\ o.ok = TRUE /\ o.stats = sv
      BY <2>1
    <2>4. Counts(stats, sv) /\ sv.gaps > 0
      BY <1>1, <1>2, <2>2 DEF Counts
    <2> QED BY <1>5, <1>9, <2>3, <2>4
  <1>10. CASE m.kind = "not_utf8"
    <2>1. o = [here EXCEPT !.ok = FALSE, !.stats = stats]
      BY <1>10 DEF HandleMessage, su
    <2>2. o.sink = sink /\ o.ok = FALSE /\ o.stats = stats
      BY <2>1
    <2> QED BY <1>1, <1>5, <1>10, <2>2
  <1>11. m.kind \in {"data", "control", "garbled", "not_utf8", "unknown", "error"}
    BY <1>0 DEF Message
  <1> QED BY <1>6, <1>7, <1>8, <1>9, <1>10, <1>11

-----------------------------------------------------------------------------
(* The socket. *)

\* Events that continue a set without a hole leave none.
LEMMA ContinuesHoleFree ==
    ASSUME NEW T \in SUBSET (1..MaxEvents), NEW es \in Seq(1..MaxEvents), HoleFree(T), Continues(es, T)
    PROVE  HoleFree(T \cup Range(es))
  <1> DEFINE n == Len(es)
             R(m) == T \cup {es[i] : i \in 1..m}
             S == {m \in Nat : m <= n => HoleFree(R(m))}
  <1>0. n \in Nat /\ (\A i \in 1..n : es[i] \in 1..MaxEvents) /\ MaxEvents \in Nat
    BY SeqElements, RealtimeConfigValid
  <1>1. 0 \in S
    <2>1. R(0) = T
      OBVIOUS
    <2> HIDE DEF R
    <2> QED BY <2>1
  <1>2. ASSUME NEW m \in Nat, m \in S PROVE m + 1 \in S
    <2> SUFFICES ASSUME m + 1 <= n PROVE HoleFree(R(m + 1))
      OBVIOUS
    <2> DEFINE e == es[m + 1]
               Q == R(m)
    <2>1. m + 1 \in 1..n /\ e \in 1..MaxEvents
      BY <1>0
    <2>2. HoleFree(Q)
      BY <1>0, <1>2
    <2>3. e \in Q \/ e - 1 \in Q \/ Q = {}
      <3>1. \/ e \in T \/ e - 1 \in T
            \/ \E l \in 1..((m + 1) - 1) : es[l] = e - 1
            \/ T = {} /\ m + 1 = 1
        BY <2>1 DEF Continues
      <3>2. ASSUME T = {}, m + 1 = 1 PROVE Q = {}
        BY <3>2
      <3>3. ASSUME NEW l \in 1..((m + 1) - 1), es[l] = e - 1 PROVE e - 1 \in Q
        BY <3>3
      <3> QED BY <3>1, <3>2, <3>3
    <2>4. R(m + 1) = Q \cup {e}
      OBVIOUS
    <2>5. \A x \in Q : x \in Nat
      BY <1>0
    <2> HIDE DEF Q, e, R
    <2>6. HoleFree(Q \cup {e})
      <3> SUFFICES ASSUME NEW a \in Q \cup {e}, NEW b \in Q \cup {e}, a < b
                   PROVE  a + 1 \in Q \cup {e}
        BY DEF HoleFree
      <3>0. a \in Nat /\ b \in Nat /\ e \in Nat
        BY <1>0, <2>1, <2>5
      <3>1. CASE a \in Q /\ b \in Q
        BY <2>2, <3>1 DEF HoleFree
      <3>2. CASE b = e /\ a \in Q
        <4>1. e - 1 \in Q \/ e \in Q
          BY <2>3, <3>2
        <4>2. CASE a = e - 1
          BY <3>0, <4>2
        <4>3. CASE e - 1 \in Q /\ a # e - 1
          <5>1. a < e - 1
            BY <3>0, <3>2, <4>3
          <5> QED BY <2>2, <3>2, <4>3, <5>1 DEF HoleFree
        <4>4. CASE e \in Q
          BY <2>2, <3>2, <4>4 DEF HoleFree
        <4> QED BY <4>1, <4>2, <4>3, <4>4
      <3>3. CASE a = e /\ b \in Q
        <4>1. e \in Q
          <5>1. CASE e - 1 \in Q
            <6>1. e - 1 < b /\ (e - 1) + 1 = e
              BY <3>0, <3>3
            <6> QED BY <2>2, <3>3, <5>1, <6>1 DEF HoleFree
          <5> QED BY <2>3, <3>3, <5>1
        <4> QED BY <2>2, <3>3, <4>1 DEF HoleFree
      <3> QED BY <3>0, <3>1, <3>2, <3>3
    <2> QED BY <2>4, <2>6
  <1>3. n \in S
    <2> HIDE DEF S
    <2> QED BY <1>0, <1>1, <1>2, NatSets
  <1>4. R(n) = T \cup Range(es)
    BY DEF Range
  <1>5. HoleFree(R(n))
    <2> HIDE DEF R, n
    <2> QED BY <1>0, <1>3
  <1> QED BY <1>4, <1>5, Zenon

EventSet == SUBSET (1..MaxEvents)

\* What is read by message i, when a message more is in the socket.
LEMMA ReadByAppend ==
    ASSUME NEW w \in Seq(Wired), NEW m \in Wired, NEW S \in EventSet
    PROVE  LET v == Append(w, m) IN
           /\ v \in Seq(Wired) /\ Len(v) = Len(w) + 1 /\ v[Len(w) + 1] = m
           /\ \A i \in 1..Len(w) : v[i] = w[i]
           /\ \A i \in 1..(Len(w) + 1) :
                 ReadBy(v, S, i) = ReadBy(w, S, i) /\ (SpoiledBy(v, i) <=> SpoiledBy(w, i))
           /\ ReadBy(v, S, Len(w) + 2) = ReadBy(w, S, Len(w) + 1) \cup (Range(m.events) \cap 1..MaxEvents)
           /\ SpoiledBy(v, Len(w) + 2) <=>
                 SpoiledBy(w, Len(w) + 1) \/ m.kind \notin {"data", "control"}
  <1> DEFINE v == Append(w, m)
             n == Len(w)
  <1>1. /\ v \in Seq(Wired) /\ Len(v) = n + 1 /\ v[n + 1] = m /\ n \in Nat
        /\ \A i \in 1..n : v[i] = w[i]
    OBVIOUS
  <1> HIDE DEF v, n
  <1>2. ASSUME NEW i \in 1..(n + 1) PROVE \A k \in 1..(i - 1) : k \in 1..n /\ v[k] = w[k]
    BY <1>1
  <1>3. ASSUME NEW i \in 1..(n + 1)
        PROVE  ReadBy(v, S, i) = ReadBy(w, S, i) /\ (SpoiledBy(v, i) <=> SpoiledBy(w, i))
    <2>1. ReadBy(v, S, i) = ReadBy(w, S, i)
      BY <1>2 DEF ReadBy
    <2>2. SpoiledBy(v, i) <=> SpoiledBy(w, i)
      BY <1>2 DEF SpoiledBy
    <2> QED BY <2>1, <2>2
  <1>4. /\ (n + 2) - 1 = n + 1 /\ (n + 1) - 1 = n
        /\ \A k : k \in 1..(n + 1) <=> k \in 1..n \/ k = n + 1
    BY <1>1
  <1>5. ReadBy(v, S, n + 2) = ReadBy(w, S, n + 1) \cup (Range(m.events) \cap 1..MaxEvents)
    <2>1. ReadBy(v, S, n + 2) = S \cup {x \in 1..MaxEvents : \E k \in 1..(n + 1) : x \in Range(v[k].events)}
      BY <1>4 DEF ReadBy
    <2>2. ReadBy(w, S, n + 1) = S \cup {x \in 1..MaxEvents : \E k \in 1..n : x \in Range(w[k].events)}
      BY <1>4 DEF ReadBy
    <2>3. ASSUME NEW x
          PROVE  (\E k \in 1..(n + 1) : x \in Range(v[k].events)) <=>
                    (\E k \in 1..n : x \in Range(w[k].events)) \/ x \in Range(m.events)
      <3> DEFINE P(u, k) == x \in Range(u[k].events)
      <3>1. \A k \in 1..n : P(v, k) <=> P(w, k)
        BY <1>1
      <3>2. P(v, n + 1) <=> x \in Range(m.events)
        BY <1>1
      <3> HIDE DEF P
      <3>3. (\E k \in 1..(n + 1) : P(v, k)) <=> (\E k \in 1..n : P(w, k)) \/ x \in Range(m.events)
        BY <1>4, <3>1, <3>2, Zenon
      <3> QED BY <3>3, Zenon DEF P
    <2> QED BY <2>1, <2>2, <2>3
  <1>6. SpoiledBy(v, n + 2) <=> SpoiledBy(w, n + 1) \/ m.kind \notin {"data", "control"}
    <2> DEFINE P(u, k) == u[k].kind \notin {"data", "control"}
    <2>1. \A k \in 1..n : P(v, k) <=> P(w, k)
      BY <1>1
    <2>2. P(v, n + 1) <=> m.kind \notin {"data", "control"}
      BY <1>1
    <2> HIDE DEF P
    <2>3. (\E k \in 1..(n + 1) : P(v, k)) <=>
             (\E k \in 1..n : P(w, k)) \/ m.kind \notin {"data", "control"}
      BY <1>4, <2>1, <2>2, Zenon
    <2> QED BY <1>4, <2>3, Zenon DEF P, SpoiledBy
  <1> QED BY <1>1, <1>3, <1>5, <1>6 DEF v, n

\* The same when the oldest message has been read.
LEMMA ReadByTail ==
    ASSUME NEW w \in Seq(Wired), w # <<>>, NEW S \in EventSet
    PROVE  LET v == Tail(w)
               Q == S \cup Range(Head(w).events) IN
           /\ v \in Seq(Wired) /\ Len(w) = Len(v) + 1 /\ Head(w) = w[1] /\ Head(w) \in Wired
           /\ \A i \in 1..Len(v) : v[i] = w[i + 1]
           /\ \A i \in 1..(Len(v) + 1) :
                 /\ ReadBy(v, Q, i) = ReadBy(w, S, i + 1)
                 /\ SpoiledBy(w, i + 1) <=> SpoiledBy(v, i) \/ Head(w).kind \notin {"data", "control"}
           /\ ReadBy(w, S, 1) = S /\ ~SpoiledBy(w, 1)
  <1> DEFINE v == Tail(w)
             h == Head(w)
             n == Len(v)
             Q == S \cup Range(h.events)
  <1>1. /\ v \in Seq(Wired) /\ Len(w) = n + 1 /\ h = w[1] /\ h \in Wired /\ n \in Nat
        /\ \A i \in 1..n : v[i] = w[i + 1]
    OBVIOUS
  <1>2. h.events \in Seq(1..MaxEvents)
    BY <1>1 DEF Wired, Message
  <1>3. Range(h.events) \subseteq 1..MaxEvents
    <2> DEFINE es == h.events
    <2>1. es \in Seq(1..MaxEvents)
      BY <1>2
    <2> HIDE DEF es
    <2>2. Range(es) \subseteq 1..MaxEvents
      BY <2>1, SeqElements
    <2> QED BY <2>2 DEF es
  <1> HIDE DEF v, h, n
  <1>4. ASSUME NEW i \in 1..(n + 1)
        PROVE  /\ (i + 1) - 1 = i
               /\ \A k \in 1..(i - 1) : k + 1 \in 1..i /\ v[k] = w[k + 1]
               /\ \A k \in 1..i : k = 1 \/ (k - 1 \in 1..(i - 1) /\ w[k] = v[k - 1])
               /\ 1 \in 1..i
    <2>1. (i + 1) - 1 = i /\ 1 \in 1..i
      BY <1>1
    <2>2. ASSUME NEW k \in 1..(i - 1) PROVE k + 1 \in 1..i /\ v[k] = w[k + 1]
      BY <1>1
    <2>3. ASSUME NEW k \in 1..i, k # 1 PROVE k - 1 \in 1..(i - 1) /\ w[k] = v[k - 1]
      <3>1. k - 1 \in 1..n /\ (k - 1) + 1 = k
        BY <1>1, <2>3
      <3>2. v[k - 1] = w[(k - 1) + 1]
        BY <1>1, <3>1
      <3> QED BY <1>1, <2>3, <3>1, <3>2
    <2> QED BY <2>1, <2>2, <2>3
  <1>5. ASSUME NEW i \in 1..(n + 1) PROVE ReadBy(v, Q, i) = ReadBy(w, S, i + 1)
    <2>1. ReadBy(w, S, i + 1) = S \cup {x \in 1..MaxEvents : \E k \in 1..i : x \in Range(w[k].events)}
      BY <1>4 DEF ReadBy
    <2>2. ASSUME NEW x
          PROVE  (\E k \in 1..i : x \in Range(w[k].events)) <=>
                    (\E k \in 1..(i - 1) : x \in Range(v[k].events)) \/ x \in Range(h.events)
      <3> DEFINE P(u, k) == x \in Range(u[k].events)
      <3>1. \A k \in 1..(i - 1) : k + 1 \in 1..i /\ (P(v, k) <=> P(w, k + 1))
        BY <1>4
      <3>2. \A k \in 1..i : k = 1 \/ (k - 1 \in 1..(i - 1) /\ (P(w, k) <=> P(v, k - 1)))
        BY <1>4
      <3>3. (P(w, 1) <=> x \in Range(h.events)) /\ 1 \in 1..i
        BY <1>1, <1>4
      <3> HIDE DEF P
      <3>4. (\E k \in 1..i : P(w, k)) <=> (\E k \in 1..(i - 1) : P(v, k)) \/ x \in Range(h.events)
        BY <3>1, <3>2, <3>3, Zenon
      <3> QED BY <3>4, Zenon DEF P
    <2> QED BY <1>3, <2>1, <2>2 DEF ReadBy
  <1>6. ASSUME NEW i \in 1..(n + 1)
        PROVE  SpoiledBy(w, i + 1) <=> SpoiledBy(v, i) \/ h.kind \notin {"data", "control"}
    <2> DEFINE P(u, k) == u[k].kind \notin {"data", "control"}
    <2>1. \A k \in 1..(i - 1) : k + 1 \in 1..i /\ (P(v, k) <=> P(w, k + 1))
      BY <1>4
    <2>2. \A k \in 1..i : k = 1 \/ (k - 1 \in 1..(i - 1) /\ (P(w, k) <=> P(v, k - 1)))
      BY <1>4
    <2>3. (P(w, 1) <=> h.kind \notin {"data", "control"}) /\ 1 \in 1..i
      BY <1>1, <1>4
    <2> HIDE DEF P
    <2>4. (\E k \in 1..i : P(w, k)) <=>
             (\E k \in 1..(i - 1) : P(v, k)) \/ h.kind \notin {"data", "control"}
      BY <2>1, <2>2, <2>3, Zenon
    <2>5. (i + 1) - 1 = i
      BY <1>4
    <2> QED BY <2>4, <2>5, Zenon DEF P, SpoiledBy
  <1>7. ReadBy(w, S, 1) = S /\ ~SpoiledBy(w, 1)
    <2>1. \A k : k \notin 1..(1 - 1)
      OBVIOUS
    <2> QED BY <2>1 DEF ReadBy, SpoiledBy
  <1> QED BY <1>1, <1>5, <1>6, <1>7 DEF v, h, n

\* The newest message is replaced.
Damaged(w, m) == [w EXCEPT ![Len(w)] = m]

\* The socket when its newest message is damaged.
LEMMA ReadByGarbled ==
    ASSUME NEW w \in Seq(Wired), w # <<>>, NEW S \in EventSet,
           NEW m \in Wired, m.kind = "garbled"
    PROVE  LET v == Damaged(w, m) IN
           /\ v \in Seq(Wired) /\ Len(v) = Len(w) /\ v[Len(w)] = m
           /\ \A i \in 1..Len(w) : i # Len(w) => v[i] = w[i]
           /\ \A i \in 1..Len(w) :
                 ReadBy(v, S, i) = ReadBy(w, S, i) /\ (SpoiledBy(v, i) <=> SpoiledBy(w, i))
           /\ SpoiledBy(v, Len(w) + 1)
  <1> DEFINE n == Len(w)
             v == Damaged(w, m)
  <1>2. /\ v \in Seq(Wired) /\ Len(v) = n /\ v[n] = m /\ n \in Nat \ {0}
        /\ \A i \in 1..n : i # n => v[i] = w[i]
    BY DEF Damaged
  <1> HIDE DEF v, n
  <1>3. ASSUME NEW i \in 1..n PROVE \A k \in 1..(i - 1) : v[k] = w[k]
    BY <1>2
  <1>4. ASSUME NEW i \in 1..n PROVE ReadBy(v, S, i) = ReadBy(w, S, i)
    BY <1>3 DEF ReadBy
  <1>5. ASSUME NEW i \in 1..n PROVE SpoiledBy(v, i) <=> SpoiledBy(w, i)
    BY <1>3 DEF SpoiledBy
  <1>6. SpoiledBy(v, n + 1)
    <2>1. n \in 1..((n + 1) - 1)
      BY <1>2
    <2>2. v[n].kind \notin {"data", "control"}
      BY <1>2
    <2> QED BY <2>1, <2>2 DEF SpoiledBy
  <1> QED BY <1>2, <1>4, <1>5, <1>6 DEF v, n

-----------------------------------------------------------------------------
(* Steps of the exchange, the network, the signal and the clock. *)

\* The sink's part of the invariant is of the worker's variables only.
LEMMA SinkInvStays ==
    ASSUME SinkInv, UNCHANGED <<pc, stats, sink, handled, quiet>>
    PROVE  SinkInv'
  <1> USE DEF SinkInv
  <1>1. HandledIsHeld' /\ HeldIsHandled'
    BY DEF HandledIsHeld, HeldIsHandled, Held
  <1>2. AlertsHeld'
    BY DEF AlertsHeld, Held
  <1>3. Flushed' /\ ManifestUp' /\ OkIsClean'
    BY DEF Flushed, ManifestUp, OkIsClean
  <1>4. HealthIsTrue'
    BY DEF HealthIsTrue, Held, Clean
  <1> QED BY <1>1, <1>2, <1>3, <1>4

\* A message that follows on what is in the socket leaves it unbroken.
LEMMA MessageFollows ==
    ASSUME TypeOK, Unbroken, NEW m \in Wired, conn = "open", wire' = Append(wire, m),
           UNCHANGED <<handled, stats, conn>>,
           LET T == ReadBy(wire, handled, Len(wire) + 1)
               U == T \cup (Range(m.events) \cap 1..MaxEvents)
           IN  sent \in T \/ T = {} => Continues(m.events, T) /\ (sent' \in U \/ U = {})
    PROVE  Unbroken'
  <1> DEFINE T == ReadBy(wire, handled, Len(wire) + 1)
             U == T \cup (Range(m.events) \cap 1..MaxEvents)
             v == wire'
             n == Len(wire)
  <1>0. wire \in Seq(Wired) /\ n \in Nat /\ handled \in EventSet
    BY DEF TypeOK, EventSet
  <1>1. /\ Len(v) = n + 1 /\ v[n + 1] = m
        /\ \A i \in 1..n : v[i] = wire[i]
        /\ \A i \in 1..(n + 1) :
              /\ ReadBy(v, handled, i) = ReadBy(wire, handled, i)
              /\ SpoiledBy(v, i) <=> SpoiledBy(wire, i)
        /\ ReadBy(v, handled, n + 2) = U
        /\ SpoiledBy(v, n + 2) <=> SpoiledBy(wire, n + 1) \/ m.kind \notin {"data", "control"}
    <2>1. LET w == Append(wire, m) IN
          /\ w \in Seq(Wired) /\ Len(w) = Len(wire) + 1 /\ w[Len(wire) + 1] = m
          /\ \A i \in 1..Len(wire) : w[i] = wire[i]
          /\ \A i \in 1..(Len(wire) + 1) :
                /\ ReadBy(w, handled, i) = ReadBy(wire, handled, i)
                /\ SpoiledBy(w, i) <=> SpoiledBy(wire, i)
          /\ ReadBy(w, handled, Len(wire) + 2) = U
          /\ SpoiledBy(w, Len(wire) + 2) <=>
                SpoiledBy(wire, Len(wire) + 1) \/ m.kind \notin {"data", "control"}
      BY <1>0, ReadByAppend, Zenon
    <2>2. v = Append(wire, m)
      OBVIOUS
    <2> HIDE DEF v, U, T
    <2> QED BY <2>1, <2>2
  <1> SUFFICES ASSUME Clean'
               PROVE  /\ HoleFree(handled)
                      /\ \A i \in 1..Len(v) :
                            SpoiledBy(v, i) \/ Continues(v[i].events, ReadBy(v, handled, i))
                      /\ LET X == ReadBy(v, handled, Len(v) + 1)
                         IN  SpoiledBy(v, Len(v) + 1) \/ sent' \in X \/ X = {}
    BY Zenon DEF Unbroken
  <1>2. Clean
    BY DEF Clean
  <1>3. /\ HoleFree(handled)
        /\ \A i \in 1..n : SpoiledBy(wire, i) \/ Continues(wire[i].events, ReadBy(wire, handled, i))
        /\ SpoiledBy(wire, n + 1) \/ sent \in T \/ T = {}
    BY <1>2 DEF Unbroken
  <1>4. sent \in T \/ T = {} => Continues(m.events, T) /\ (sent' \in U \/ U = {})
    OBVIOUS
  <1> HIDE DEF T, U, v, n
  <1>5. ASSUME NEW i \in 1..Len(v)
        PROVE  SpoiledBy(v, i) \/ Continues(v[i].events, ReadBy(v, handled, i))
    <2>1. CASE i \in 1..n
      <3>1. i \in 1..(n + 1)
        BY <1>0, <2>1
      <3> QED BY <1>1, <1>3, <2>1, <3>1
    <2>2. CASE i = n + 1
      <3>1. ReadBy(v, handled, i) = T /\ v[i] = m /\ (SpoiledBy(v, i) <=> SpoiledBy(wire, n + 1))
        <4>1. n + 1 \in 1..(n + 1)
          BY <1>0
        <4>2. T = ReadBy(wire, handled, n + 1)
          BY DEF T, n
        <4>3. /\ ReadBy(v, handled, n + 1) = ReadBy(wire, handled, n + 1)
              /\ v[n + 1] = m /\ (SpoiledBy(v, n + 1) <=> SpoiledBy(wire, n + 1))
          BY <1>1, <4>1, Zenon
        <4> QED BY <2>2, <4>2, <4>3, Zenon
      <3> QED BY <1>3, <1>4, <3>1
    <2>3. i \in 1..n \/ i = n + 1
      <3>1. n \in Nat /\ Len(v) = n + 1
        BY <1>0, <1>1
      <3>2. i \in 1..(n + 1)
        BY <3>1
      <3> QED BY <3>1, <3>2
    <2> QED BY <2>1, <2>2, <2>3, Zenon
  <1>6. Len(v) + 1 = n + 2
    <2>1. n \in Nat /\ Len(v) = n + 1
      BY <1>0, <1>1, Zenon
    <2>2. n + 1 + 1 = n + 2
      BY <2>1
    <2> QED BY <2>1, <2>2, Zenon
  <1>7. SpoiledBy(v, n + 2) \/ sent' \in U \/ U = {}
    BY <1>1, <1>3, <1>4
  <1> QED BY <1>1, <1>3, <1>5, <1>6, <1>7

\* New events follow the newest one.
LEMMA ExchangeSendsInv ==
    ASSUME IInv, NEW k \in 1..2, ExchangeSends(k)
    PROVE  IInv'
  <1> USE DEF IInv, SessionInv
  <1>0. /\ sent \in 0..MaxEvents /\ MaxEvents \in Nat /\ wire \in Seq(Wired) /\ handled \subseteq 1..MaxEvents
        /\ sent' = sent + k /\ sent' <= MaxEvents
        /\ UNCHANGED <<pc, stats, sink, handled, quiet, conn>>
    BY RealtimeConfigValid DEF TypeOK, ExchangeSends, worker
  <1> DEFINE es == [i \in 1..k |-> sent + i]
             m == [kind |-> "data", events |-> es]
  <1>1. m \in Wired /\ m.events = es /\ m.kind = "data"
    <2>1. es \in Seq(1..MaxEvents)
      <3>1. es \in [1..k -> 1..MaxEvents]
        BY <1>0
      <3> HIDE DEF es
      <3>2. k \in Nat
        OBVIOUS
      <3> QED BY <3>1, <3>2, SeqOf
    <2> HIDE DEF es
    <2> QED BY <2>1 DEF Wired, Message
  <1>2. wire' = IF conn = "open" THEN Append(wire, m) ELSE wire
    BY DEF ExchangeSends
  <1>e. Len(es) = k /\ \A i \in 1..k : es[i] = sent + i
    OBVIOUS
  <1> HIDE DEF es, m
  <1>3. sent' \in 0..MaxEvents /\ wire' \in Seq(Wired)
    BY <1>0, <1>1, <1>2
  <1>4. TypeOK'
    BY <1>0, <1>3 DEF TypeOK
  <1>5. FirstConnection'
    BY <1>0, <1>2 DEF FirstConnection
  <1>6. Unbroken'
    <2>1. CASE conn = "open"
      <3> DEFINE T == ReadBy(wire, handled, Len(wire) + 1)
                 U == T \cup (Range(m.events) \cap 1..MaxEvents)
      <3>1. sent' \in U
        <4>1. k \in DOMAIN es /\ es[k] = sent'
          BY <1>0, <1>1, <1>e DEF es
        <4>2. sent' \in 1..MaxEvents
          BY <1>0
        <4> QED BY <1>1, <4>1, <4>2 DEF Range
      <3>2. ASSUME sent \in T \/ T = {} PROVE Continues(es, T)
        <4> SUFFICES ASSUME NEW j \in 1..k
                     PROVE  \/ es[j] \in T \/ es[j] - 1 \in T
                            \/ \E l \in 1..(j - 1) : es[l] = es[j] - 1
                            \/ T = {} /\ j = 1
          BY <1>e DEF Continues
        <4>1. CASE j = 1
          <5>1. es[j] - 1 = sent
            BY <1>0, <1>e, <4>1
          <5> QED BY <3>2, <4>1, <5>1
        <4>2. CASE j = 2
          <5>1. es[1] = es[j] - 1 /\ 1 \in 1..(j - 1)
            BY <1>0, <1>e, <4>2
          <5> QED BY <5>1
        <4> QED BY <4>1, <4>2
      <3>3. wire' = Append(wire, m)
        BY <1>2, <2>1
      <3> QED BY <1>0, <1>1, <2>1, <3>1, <3>2, <3>3, MessageFollows
    <2>2. CASE conn # "open"
      <3>1. wire' = wire
        BY <1>2, <2>2
      <3>2. Unbroken
        OBVIOUS
      <3> HIDE DEF IInv, SessionInv
      <3> QED BY <1>0, <2>2, <3>1, <3>2 DEF Unbroken, Clean
    <2> QED BY <2>1, <2>2
  <1> QED BY <1>0, <1>4, <1>5, <1>6, SinkInvStays

\* A control frame carries no event.
LEMMA ControlInv ==
    ASSUME IInv, ExchangeSendsControl
    PROVE  IInv'
  <1> USE DEF IInv, SessionInv
  <1> DEFINE m == [kind |-> "control", events |-> <<>>]
             T == ReadBy(wire, handled, Len(wire) + 1)
  <1>0. /\ wire \in Seq(Wired) /\ conn = "open" /\ wire' = Append(wire, m)
        /\ UNCHANGED <<pc, stats, sink, handled, quiet, conn, sent>>
    BY DEF TypeOK, ExchangeSendsControl, worker
  <1>1. m \in Wired /\ m.events = <<>>
    BY DEF Wired, Message
  <1>2. Continues(<<>>, T) /\ Range(<<>>) = {}
    BY DEF Continues, Range
  <1> HIDE DEF m
  <1>3. TypeOK'
    BY <1>0, <1>1 DEF TypeOK
  <1>4. FirstConnection'
    BY <1>0 DEF FirstConnection
  <1>5. Unbroken'
    BY <1>0, <1>1, <1>2, MessageFollows
  <1> QED BY <1>0, <1>3, <1>4, <1>5, SinkInvStays

\* A repeated event is no hole, and what does not parse will be counted.
LEMMA MisbehavesInv ==
    ASSUME IInv, ExchangeMisbehaves
    PROVE  IInv'
  <1> USE DEF IInv, SessionInv
  <1> DEFINE T == ReadBy(wire, handled, Len(wire) + 1)
             D(n) == [kind |-> "data", events |-> <<n>>]
             B(k) == [kind |-> k, events |-> <<>>]
  <1>0. /\ wire \in Seq(Wired) /\ conn = "open" /\ sent \in 1..MaxEvents /\ handled \subseteq 1..MaxEvents
        /\ UNCHANGED <<pc, stats, sink, handled, quiet, conn, sent>>
    BY RealtimeConfigValid DEF TypeOK, ExchangeMisbehaves, worker
  <1>1. \/ \E n \in handled \cup {sent} : wire' = Append(wire, D(n))
        \/ \E k \in BadKinds : wire' = Append(wire, B(k))
    BY DEF ExchangeMisbehaves
  <1>2. FirstConnection'
    BY <1>0 DEF FirstConnection
  <1>3. ASSUME NEW m \in Wired, wire' = Append(wire, m), Unbroken'
        PROVE  IInv'
    <2>1. TypeOK'
      BY <1>0, <1>3 DEF TypeOK
    <2> QED BY <1>0, <1>2, <1>3, <2>1, SinkInvStays
  <1>4. ASSUME NEW n \in handled \cup {sent}, wire' = Append(wire, D(n)) PROVE IInv'
    <2> DEFINE es == <<n>>
               m == [kind |-> "data", events |-> es]
    <2>0. D(n) = m
      OBVIOUS
    <2>1. n \in 1..MaxEvents
      BY <1>0
    <2>2. m \in Wired /\ m.events = es
      <3>1. es \in Seq(1..MaxEvents)
        <4> DEFINE E == 1..MaxEvents
        <4>1. n \in E
          BY <2>1
        <4> HIDE DEF E
        <4>2. es \in Seq(E)
          BY <4>1
        <4> QED BY <4>2 DEF E
      <3> HIDE DEF es
      <3> QED BY <3>1 DEF Wired, Message
    <2>3. Range(es) = {n} /\ Len(es) = 1 /\ es[1] = n
      BY DEF Range
    <2> HIDE DEF es, D
    <2>4. \A x \in handled : x \in T
      BY DEF ReadBy
    <2> HIDE DEF T
    <2>5. ASSUME sent \in T \/ T = {} PROVE Continues(es, T) /\ sent \in T \cup (Range(m.events) \cap 1..MaxEvents)
      <3>1. n \in T \/ T = {}
        BY <2>4, <2>5
      <3>2. sent \in T \cup {n}
        BY <2>4, <2>5
      <3>3. Continues(es, T)
        BY <2>3, <3>1 DEF Continues
      <3> QED BY <1>0, <2>2, <2>3, <3>2, <3>3
    <2> HIDE DEF m
    <2>6. Unbroken'
      BY <1>0, <1>4, <2>0, <2>2, <2>5, MessageFollows DEF T
    <2> QED BY <1>3, <1>4, <2>0, <2>2, <2>6
  <1>5. ASSUME NEW k \in BadKinds, wire' = Append(wire, B(k)) PROVE IInv'
    <2> DEFINE m == B(k)
               n == Len(wire)
               v == wire'
    <2>1. m \in Wired /\ m.events = <<>> /\ m.kind \notin {"data", "control"}
      BY DEF Wired, Message, BadKinds
    <2>w. wire' = Append(wire, m) /\ n \in Nat
      BY <1>0, <1>5
    <2> HIDE DEF m
    <2>2. /\ Len(v) = n + 1 /\ v[n + 1] = m /\ n \in Nat
          /\ \A i \in 1..n : v[i] = wire[i]
          /\ \A i \in 1..(n + 1) :
                /\ ReadBy(v, handled, i) = ReadBy(wire, handled, i)
                /\ SpoiledBy(v, i) <=> SpoiledBy(wire, i)
          /\ SpoiledBy(v, n + 2)
      <3> HIDE DEF IInv, SessionInv, n, T, D, B
      <3>1. wire \in Seq(Wired) /\ m \in Wired /\ v = Append(wire, m) /\ m.kind \notin {"data", "control"}
        BY <1>0, <2>w, <2>1
      <3>2. handled \in EventSet
        BY <1>0 DEF EventSet
      <3>3. LET w == Append(wire, m) IN
            /\ w \in Seq(Wired) /\ Len(w) = Len(wire) + 1 /\ w[Len(wire) + 1] = m
            /\ \A i \in 1..Len(wire) : w[i] = wire[i]
            /\ \A i \in 1..(Len(wire) + 1) :
                  /\ ReadBy(w, handled, i) = ReadBy(wire, handled, i)
                  /\ SpoiledBy(w, i) <=> SpoiledBy(wire, i)
            /\ ReadBy(w, handled, Len(wire) + 2)
                  = ReadBy(wire, handled, Len(wire) + 1) \cup (Range(m.events) \cap 1..MaxEvents)
            /\ SpoiledBy(w, Len(wire) + 2) <=>
                  SpoiledBy(wire, Len(wire) + 1) \/ m.kind \notin {"data", "control"}
        BY <3>1, <3>2, ReadByAppend, Zenon
      <3> HIDE DEF v
      <3> QED BY <2>w, <3>1, <3>3, Zenon DEF n
    <2>3. ASSUME Clean'
          PROVE  /\ HoleFree(handled)
                 /\ \A i \in 1..Len(v) :
                       SpoiledBy(v, i) \/ Continues(v[i].events, ReadBy(v, handled, i))
                 /\ SpoiledBy(v, Len(v) + 1)
      <3>1. Clean
        BY <1>0, <2>3 DEF Clean
      <3>2. /\ HoleFree(handled)
            /\ \A i \in 1..n : SpoiledBy(wire, i) \/ Continues(wire[i].events, ReadBy(wire, handled, i))
        BY <3>1 DEF Unbroken
      <3> HIDE DEF n, v
      <3>3. \A X : Continues(<<>>, X)
        BY DEF Continues
      <3>4. ASSUME NEW i \in 1..Len(v)
            PROVE  SpoiledBy(v, i) \/ Continues(v[i].events, ReadBy(v, handled, i))
        <4>1. CASE i \in 1..n
          <5>1. i \in 1..(n + 1)
            BY <2>2, <4>1
          <5> QED BY <2>2, <3>2, <4>1, <5>1
        <4>2. CASE i = n + 1
          BY <2>1, <2>2, <3>3, <4>2
        <4> QED BY <2>2, <4>1, <4>2
      <3>5. Len(v) + 1 = n + 2
        BY <2>2
      <3> QED BY <2>2, <3>2, <3>4, <3>5
    <2>4. Unbroken'
      BY <1>0, <2>3, Zenon DEF Unbroken
    <2> QED BY <1>3, <2>w, <2>1, <2>4
  <1> QED BY <1>1, <1>4, <1>5

\* A damaged message will be counted.
LEMMA GarbledInv ==
    ASSUME IInv, MessageGarbled
    PROVE  IInv'
  <1> USE DEF IInv, SessionInv
  <1> DEFINE m == [kind |-> "garbled", events |-> <<>>]
             n == Len(wire)
             v == wire'
  <1>0. /\ wire \in Seq(Wired) /\ wire # <<>> /\ n \in Nat /\ wire' = Damaged(wire, m)
        /\ handled \in EventSet
        /\ UNCHANGED <<pc, stats, sink, handled, quiet, conn, sent>>
    BY DEF TypeOK, MessageGarbled, worker, Damaged, EventSet
  <1>m. m \in Wired /\ m.kind = "garbled" /\ m.events = <<>>
    BY DEF Wired, Message
  <1> HIDE DEF m
  <1>1. /\ v \in Seq(Wired) /\ Len(v) = n /\ v[n] = m /\ n \in Nat
        /\ \A i \in 1..n : i # n => v[i] = wire[i]
        /\ \A i \in 1..n :
              /\ ReadBy(v, handled, i) = ReadBy(wire, handled, i)
              /\ SpoiledBy(v, i) <=> SpoiledBy(wire, i)
        /\ SpoiledBy(v, n + 1)
    <2>1. LET w == Damaged(wire, m) IN
          /\ w \in Seq(Wired) /\ Len(w) = Len(wire) /\ w[Len(wire)] = m
          /\ \A i \in 1..Len(wire) : i # Len(wire) => w[i] = wire[i]
          /\ \A i \in 1..Len(wire) :
                /\ ReadBy(w, handled, i) = ReadBy(wire, handled, i)
                /\ SpoiledBy(w, i) <=> SpoiledBy(wire, i)
          /\ SpoiledBy(w, Len(wire) + 1)
      BY <1>0, <1>m, ReadByGarbled, Zenon
    <2>2. v = Damaged(wire, m) /\ n \in Nat
      BY <1>0
    <2> HIDE DEF IInv, SessionInv, v
    <2> QED BY <2>1, <2>2
  <1>2. TypeOK'
    BY <1>0, <1>1 DEF TypeOK
  <1>3. FirstConnection'
    BY <1>0 DEF FirstConnection
  <1>4. ASSUME Clean'
        PROVE  /\ HoleFree(handled)
               /\ \A i \in 1..Len(v) :
                     SpoiledBy(v, i) \/ Continues(v[i].events, ReadBy(v, handled, i))
               /\ SpoiledBy(v, Len(v) + 1)
    <2>1. Clean
      BY <1>0, <1>4 DEF Clean
    <2>2. /\ HoleFree(handled)
          /\ \A i \in 1..n : SpoiledBy(wire, i) \/ Continues(wire[i].events, ReadBy(wire, handled, i))
      BY <2>1 DEF Unbroken
    <2>3. m.events = <<>> /\ \A X : Continues(<<>>, X)
      BY <1>m DEF Continues
    <2> HIDE DEF n, v
    <2>4. ASSUME NEW i \in 1..Len(v)
          PROVE  SpoiledBy(v, i) \/ Continues(v[i].events, ReadBy(v, handled, i))
      <3>1. CASE i # n
        BY <1>1, <2>2, <3>1
      <3>2. CASE i = n
        BY <1>1, <2>3, <3>2
      <3> QED BY <3>1, <3>2
    <2> QED BY <1>1, <2>2, <2>4
  <1>5. Unbroken'
    BY <1>0, <1>4, Zenon DEF Unbroken
  <1> QED BY <1>0, <1>2, <1>3, <1>5, SinkInvStays

\* A step that changes none of the worker's variables and leaves the socket
\* alone, but may have ended the connection.
LEMMA OutsideInv ==
    ASSUME IInv, ConnectionBreaks \/ StopRequested \/ Clock
    PROVE  IInv'
  <1> USE DEF IInv, SessionInv
  <1>0. /\ UNCHANGED <<pc, stats, sink, handled, quiet, sent, wire>>
        /\ UNCHANGED conn \/ (conn = "open" /\ conn' # "open")
    BY DEF ConnectionBreaks, StopRequested, Clock, worker
  <1>1. TypeOK'
    BY <1>0 DEF TypeOK
  <1>2. FirstConnection'
    BY <1>0 DEF FirstConnection
  <1>3. Unbroken'
    BY <1>0 DEF Unbroken, Clean
  <1> QED BY <1>0, <1>1, <1>2, <1>3, SinkInvStays

-----------------------------------------------------------------------------
(* Steps of the worker that leave the sink alone. *)

Early == {"start", "watch", "connecting", "sleep", "health"} \cup SessionPc
Late == {"flush", "manifest", "report", "ok"}

\* The sink's part of the invariant, when the worker moves on.
LEMMA WorkerMoves ==
    ASSUME SinkInv, UNCHANGED <<stats, sink, handled, quiet>>, pc # "failed",
           pc' \in Late => pc = "report" /\ pc' = "ok" /\ sink.failed = 0,
           pc' \in Early => pc \in Early
    PROVE  SinkInv'
  <1> USE DEF SinkInv
  <1>1. HandledIsHeld' /\ HeldIsHandled'
    BY DEF HandledIsHeld, HeldIsHandled, Held
  <1>2. AlertsHeld'
    BY DEF AlertsHeld, Held, Late
  <1>3. Flushed' /\ ManifestUp' /\ OkIsClean'
    BY DEF Flushed, ManifestUp, OkIsClean, Late
  <1>4. HealthIsTrue'
    BY DEF HealthIsTrue, Held, Clean, Early
  <1> QED BY <1>1, <1>2, <1>3, <1>4

\* Steps that only move the worker on.
LEMMA StartUpInv ==
    ASSUME IInv,
           \/ StartFails \/ StartUpbit \/ BeginConnect \/ Wake \/ BeginPoll \/ Tick \/ Housekeeping
           \/ BeginDerivativeSnapshot \/ ValidateReport
    PROVE  IInv'
  <1> USE DEF IInv, SessionInv
  <1>0. UNCHANGED <<stats, sink, handled, quiet, sent, wire, conn>>
    BY DEF StartFails, StartUpbit, BeginConnect, Wake, BeginPoll, Tick, Housekeeping,
           BeginDerivativeSnapshot, ValidateReport, env
  <1>1. /\ pc # "failed"
        /\ \/ pc = "start" /\ pc' \in {"failed", "watch"}
           \/ pc = "sleep" /\ pc' = "watch"
           \/ pc = "watch" /\ pc' = "connecting"
           \/ pc \in SessionPc /\ pc' \in SessionPc
           \/ pc = "report" /\ pc' = "failed"
           \/ pc = "report" /\ pc' = "ok" /\ sink.failed = 0
    BY DEF StartFails, StartUpbit, BeginConnect, Wake, BeginPoll, Tick, Housekeeping,
           BeginDerivativeSnapshot, ValidateReport, SessionPc, ValidStorageReport, ValidCommonStorageReport
  <1>2. TypeOK'
    BY <1>0, <1>1 DEF TypeOK, SessionPc, FinalPc, Exited
  <1>3. FirstConnection'
    BY <1>0, <1>1 DEF FirstConnection, SessionPc
  <1>4. Unbroken'
    BY <1>0 DEF Unbroken, Clean
  <1>5. SinkInv'
    <2>1. /\ pc' \in Late => pc = "report" /\ pc' = "ok" /\ sink.failed = 0
          /\ pc' \in Early => pc \in Early
      BY <1>1 DEF Late, Early, SessionPc
    <2> QED BY <1>0, <1>1, <2>1, WorkerMoves
  <1> QED BY <1>2, <1>3, <1>4, <1>5

\* A new connection: the socket is empty, and as long as nothing was counted
\* it is the first one.
LEMMA ConnectInv ==
    ASSUME IInv, Connect \/ LeaveWatch
    PROVE  IInv'
  <1> USE DEF IInv, SessionInv
  <1>0. /\ UNCHANGED <<stats, sink, handled, quiet, sent>> /\ wire' = <<>>
        /\ \/ pc = "connecting" /\ pc' = "session"
           \/ pc \in {"watch", "session"} /\ pc' = "health" /\ conn' = "none"
    BY DEF Connect, LeaveWatch, env
  <1>1. TypeOK'
    <2>1. wire' \in Seq(Wired)
      BY <1>0
    <2> QED BY <1>0, <2>1 DEF TypeOK, SessionPc, FinalPc
  <1>2. FirstConnection'
    BY <1>0 DEF FirstConnection, SessionPc
  <1>3. Unbroken'
    <2> SUFFICES ASSUME Clean'
                 PROVE  /\ HoleFree(handled)
                        /\ \A i \in 1..Len(<<>>) :
                              SpoiledBy(<<>>, i) \/ Continues(<<>>[i].events, ReadBy(<<>>, handled, i))
                        /\ conn' = "open" => ReadBy(<<>>, handled, Len(<<>>) + 1) = {}
      BY <1>0 DEF Unbroken
    <2>1. Clean
      BY <1>0 DEF Clean
    <2>2. HoleFree(handled)
      BY <2>1 DEF Unbroken
    <2>3. \A i : i \notin 1..Len(<<>>)
      OBVIOUS
    <2>4. ASSUME conn' = "open" PROVE ReadBy(<<>>, handled, Len(<<>>) + 1) = {}
      <3>1. handled = {}
        BY <1>0, <2>1, <2>4 DEF FirstConnection, Clean
      <3>2. \A k : k \notin 1..((Len(<<>>) + 1) - 1)
        OBVIOUS
      <3> QED BY <3>1, <3>2 DEF ReadBy
    <2> QED BY <2>2, <2>3, <2>4
  <1>4. SinkInv'
    <2>1. pc' \notin Late /\ (pc' \in Early => pc \in Early) /\ pc # "failed"
      BY <1>0 DEF Late, Early, SessionPc
    <2> QED BY <1>0, <2>1, WorkerMoves
  <1> QED BY <1>1, <1>2, <1>3, <1>4

\* What a disconnect leaves, whatever was read before it: an alert.
LEMMA Disconnected ==
    ASSUME TypeOK, pc \in {"connecting"} \cup SessionPc, NEW st \in Stats, Disconnect(st), sink' \in Sink,
           handled' \in SUBSET (1..MaxEvents), UNCHANGED <<sent, quiet>>
    PROVE  /\ TypeOK' /\ FirstConnection' /\ Unbroken' /\ pc' = "sleep"
           /\ stats' \in Stats /\ stats'.gaps > 0 /\ stats'.gaps >= st.gaps
  <1>1. stats' \in Stats /\ stats'.gaps > 0 /\ stats'.gaps >= st.gaps
    BY ReconnectCounts DEF Disconnect, Counts
  <1>2. pc' = "sleep" /\ wire' = <<>> /\ conn' = "none"
    BY DEF Disconnect
  <1>3. wire' \in Seq(Wired)
    BY <1>2
  <1>4. TypeOK'
    BY <1>1, <1>2, <1>3 DEF TypeOK
  <1>5. ~(stats'.gaps = 0)
    <2>1. stats'.gaps \in Nat
      BY <1>1, StatsParts
    <2> QED BY <1>1, <2>1
  <1>6. FirstConnection' /\ Unbroken'
    BY <1>1, <1>2, <1>5 DEF FirstConnection, Unbroken, Clean
  <1> QED BY <1>1, <1>2, <1>4, <1>6

\* A connection that is given up is counted.
LEMMA GivenUpInv ==
    ASSUME IInv, ConnectFails \/ StreamEnds \/ StaleOrPingFails
    PROVE  IInv'
  <1> USE DEF IInv, SessionInv
  <1>0. /\ UNCHANGED <<sink, handled, quiet, sent>> /\ pc \in {"connecting"} \cup SessionPc
        /\ stats \in Stats /\ sink \in Sink /\ handled \in SUBSET (1..MaxEvents)
    BY DEF ConnectFails, StreamEnds, StaleOrPingFails, env, SessionPc, TypeOK
  <1>1. \E st \in Stats : Disconnect(st)
    <2>1. CASE ConnectFails \/ StaleOrPingFails
      BY <1>0, <2>1 DEF ConnectFails, StaleOrPingFails
    <2>2. CASE StreamEnds
      <3> DEFINE k == stats.malformed + (IF conn = "error" THEN 1 ELSE 0)
                 st == [stats EXCEPT !.malformed = k]
      <3>1. k \in Nat
        BY <1>0, StatsParts
      <3>2. Disconnect(st)
        BY <2>2 DEF StreamEnds
      <3> HIDE DEF k
      <3>3. st \in Stats
        BY <1>0, <3>1 DEF Stats
      <3> QED BY <3>2, <3>3
    <2> QED BY <2>1, <2>2
  <1>2. /\ TypeOK' /\ FirstConnection' /\ Unbroken' /\ pc' = "sleep"
        /\ stats' \in Stats /\ stats'.gaps > 0
    BY <1>0, <1>1, Disconnected
  <1>3. SinkInv'
    <2>0. SinkInv /\ pc \in Early
      BY <1>0 DEF Early
    <2>g. ~(stats'.gaps = 0)
      <3>1. stats'.gaps \in Nat
        BY <1>2, StatsParts
      <3> QED BY <1>2, <3>1
    <2> HIDE DEF IInv, SessionInv
    <2> USE DEF SinkInv
    <2>1. HandledIsHeld' /\ HeldIsHandled'
      BY <1>0, <1>2, <2>0, <2>g DEF HandledIsHeld, HeldIsHandled, Held
    <2>2. AlertsHeld' /\ Flushed' /\ ManifestUp' /\ OkIsClean'
      BY <1>2 DEF AlertsHeld, Flushed, ManifestUp, OkIsClean
    <2>3. HealthIsTrue'
      BY <1>0, <1>2, <2>0 DEF HealthIsTrue, Held, Early
    <2> QED BY <2>1, <2>2, <2>3
  <1> QED BY <1>2, <1>3

-----------------------------------------------------------------------------
(* Steps of the worker that use the sink. *)

\* A flush after an outcome.
LEMMA ThenFlush ==
    ASSUME NEW s \in Sink, NEW f, NEW R, NEW d, Does(s, d, f, R),
           NEW o \in (IF d.ok THEN FlushAll(d.sink) ELSE {d})
    PROVE  Does(s, o, f, R)
  <1>1. CASE d.ok
    <2> DEFINE t == d.sink
    <2>1. t \in Sink /\ o \in FlushAll(t) /\ Grows(s, t, f, R) /\ Keeps(s, t, f, R)
      BY <1>1 DEF Does, Grows
    <2> HIDE DEF t
    <2>2. /\ o.ok \in BOOLEAN /\ Grows(t, o.sink, "gap_alert", {})
          /\ o.ok => Keeps(t, o.sink, "gap_alert", {})
      BY <2>1, FlushAllDoes DEF Flushes
    <2>3. Grows(t, o.sink, f, {}) /\ (o.ok => Keeps(t, o.sink, f, {}))
      BY <2>2, GrowsNothing
    <2>4. R \cup {} = R
      OBVIOUS
    <2>5. Grows(s, o.sink, f, R) /\ (o.ok => Keeps(s, o.sink, f, R))
      BY <2>1, <2>3, <2>4, GrowsAdds
    <2> QED BY <2>2, <2>5 DEF Does
  <1>2. CASE ~d.ok
    <2>1. o = d
      BY <1>2
    <2> QED BY <2>1
  <1> QED BY <1>1, <1>2

\* A derivative snapshot after an outcome.
LEMMA ThenSnapshot ==
    ASSUME NEW s \in Sink, NEW R \in SUBSET {Snapshot}, NEW a, Does(s, a, "raw_market_event", R),
           NEW d \in (IF a.ok THEN DerivativeSnapshots(a.sink) ELSE {a})
    PROVE  \E Q \in SUBSET {Snapshot} : Does(s, d, "raw_market_event", Q)
  <1>0. Snapshot \in Record /\ "raw_market_event" \in Families
    BY Records DEF Families
  <1>1. CASE d \in (IF a.ok THEN SinkAppend(a.sink, "raw_market_event", Snapshot) ELSE {a})
    <2>1. Does(s, d, "raw_market_event", R \cup {Snapshot})
      BY <1>0, <1>1, AppendsOneMore
    <2> QED BY <2>1
  <1>2. CASE a.ok /\ d = Ok(a.sink)
    <2>1. d.sink = a.sink /\ d.ok = TRUE
      BY <1>2 DEF Ok
    <2>2. Does(s, d, "raw_market_event", R)
      BY <1>2, <2>1 DEF Does
    <2> QED BY <2>2
  <1> QED BY <1>1, <1>2 DEF DerivativeSnapshots

\* The events parsed so far stay held, with those of this step.
LEMMA HandledKept ==
    ASSUME HandledIsHeld, pc # "failed", sink \in Sink, NEW f, NEW R, Grows(sink, sink', f, R),
           handled' \subseteq handled \cup (IF f = "raw_market_event" THEN R ELSE {}),
           stats'.gaps = 0 => stats.gaps = 0, quiet' = 0 => quiet = 0,
           pc' # "failed" /\ stats'.gaps = 0 /\ quiet' = 0 => Keeps(sink, sink', f, R)
    PROVE  HandledIsHeld'
  <1> SUFFICES ASSUME pc' # "failed", sink'.failed = 0, stats'.gaps = 0, quiet' = 0
               PROVE  handled' \subseteq Held(sink', "raw_market_event")
    BY DEF HandledIsHeld, Held
  <1>1. sink'.failed = sink.failed
    <2>1. sink.failed \in Nat /\ sink'.failed >= sink.failed
      BY DEF Sink, Grows
    <2> QED BY <2>1
  <1>2. handled \subseteq Held(sink, "raw_market_event")
    BY <1>1 DEF HandledIsHeld
  <1>3. Held(sink, "raw_market_event") \cup (IF f = "raw_market_event" THEN R ELSE {})
            \subseteq Held(sink', "raw_market_event")
    <2>1. "raw_market_event" \in Families
      BY DEF Families
    <2>2. /\ Keeps(sink, sink', f, R)
          /\ IF "raw_market_event" = f THEN f = "raw_market_event" ELSE f # "raw_market_event"
      OBVIOUS
    <2> QED BY <1>1, <2>1, <2>2 DEF Keeps
  <1> QED BY <1>2, <1>3

\* Before the finalization only events and snapshots come in.
LEMMA EarlySink ==
    ASSUME SinkInv, sink \in Sink, NEW R, Grows(sink, sink', "raw_market_event", R),
           R \subseteq handled' \cup {Snapshot}, handled \subseteq handled',
           pc \in Early, pc' \notin Late, HandledIsHeld'
    PROVE  SinkInv'
  <1> USE DEF SinkInv
  <1>0. \A f \in {"raw_market_event", "source_health", "symbol_health", "gap_alert"} : f \in Families
    BY DEF Families
  <1>1. HeldIsHandled'
    <2>1. Held(sink', "raw_market_event") \subseteq Held(sink, "raw_market_event") \cup R
      BY <1>0 DEF Grows
    <2>2. Held(sink, "raw_market_event") \subseteq handled \cup {Snapshot}
      BY DEF HeldIsHandled
    <2>3. Held(sink', "raw_market_event") \subseteq handled' \cup {Snapshot}
      BY <2>1, <2>2
    <2> QED BY <2>3 DEF HeldIsHandled, Held
  <1>2. AlertsHeld' /\ Flushed' /\ ManifestUp' /\ OkIsClean'
    BY DEF AlertsHeld, Flushed, ManifestUp, OkIsClean, Late
  <1>3. HealthIsTrue'
    <2>1. Held(sink', "source_health") \subseteq Held(sink, "source_health")
      BY <1>0 DEF Grows
    <2>2. Held(sink, "source_health") = {}
      BY DEF HealthIsTrue, Early
    <2>3. Held(sink', "source_health") = {}
      BY <2>1, <2>2
    <2> QED BY <2>3 DEF HealthIsTrue, Held
  <1> QED BY <1>1, <1>2, <1>3

\* The snapshots of the start.
LEMMA StartBinanceInv ==
    ASSUME IInv, StartBinance
    PROVE  IInv'
  <1> USE DEF IInv, SessionInv
  <1>0. /\ UNCHANGED <<stats, handled, quiet, sent, conn, wire>> /\ pc = "start" /\ sink \in Sink
        /\ SinkInv /\ "raw_market_event" \in Families /\ Snapshot \in Record
    BY Records DEF StartBinance, env, TypeOK, Families
  <1> DEFINE Ends(o) == sink' = o.sink /\ pc' = IF o.ok THEN "watch" ELSE "failed"
  <1>a. PICK a \in SinkAppend(sink, "raw_market_event", Snapshot) :
             \E d \in (IF a.ok THEN DerivativeSnapshots(a.sink) ELSE {a}) :
             \E o \in (IF d.ok THEN FlushAll(d.sink) ELSE {d}) : Ends(o)
    BY DEF StartBinance
  <1> HIDE DEF Ends
  <1>d. PICK d \in (IF a.ok THEN DerivativeSnapshots(a.sink) ELSE {a}) :
             \E o \in (IF d.ok THEN FlushAll(d.sink) ELSE {d}) : Ends(o)
    BY <1>a
  <1>o. PICK o \in (IF d.ok THEN FlushAll(d.sink) ELSE {d}) : Ends(o)
    BY <1>d
  <1>1. sink' = o.sink /\ pc' = IF o.ok THEN "watch" ELSE "failed"
    BY <1>o DEF Ends
  <1>2. Does(sink, a, "raw_market_event", {Snapshot})
    BY <1>0, <1>a, SinkAppendDoes
  <1>3. PICK R \in SUBSET {Snapshot} : Does(sink, d, "raw_market_event", R)
    <2>1. {Snapshot} \in SUBSET {Snapshot}
      OBVIOUS
    <2> QED BY <1>0, <1>d, <1>2, <2>1, ThenSnapshot
  <1>4. Does(sink, o, "raw_market_event", R)
    BY <1>0, <1>o, <1>3, ThenFlush
  <1>5. Grows(sink, sink', "raw_market_event", R) /\ (pc' # "failed" => Keeps(sink, sink', "raw_market_event", R))
    BY <1>1, <1>4 DEF Does
  <1>6. sink' \in Sink /\ pc' \in {"watch", "failed"}
    BY <1>1, <1>5 DEF Grows
  <1>7. TypeOK'
    BY <1>0, <1>6 DEF TypeOK, Exited
  <1>8. FirstConnection' /\ Unbroken'
    <2>1. FirstConnection'
      BY <1>0, <1>6 DEF FirstConnection, SessionPc
    <2>2. Unbroken'
      BY <1>0 DEF Unbroken, Clean
    <2> QED BY <2>1, <2>2
  <1>9. HandledIsHeld'
    <2>1. HandledIsHeld
      BY DEF SinkInv
    <2> HIDE DEF IInv, SessionInv
    <2> QED BY <1>0, <1>5, <2>1, HandledKept
  <1>10. SinkInv'
    <2>1. pc \in Early /\ pc' \notin Late /\ R \subseteq handled' \cup {Snapshot} /\ handled \subseteq handled'
      BY <1>0, <1>3, <1>6 DEF Early, Late
    <2> HIDE DEF IInv, SessionInv
    <2> QED BY <1>0, <1>5, <1>9, <2>1, EarlySink
  <1> QED BY <1>7, <1>8, <1>10

\* The periodic snapshot: an error is logged, and quiet tells of it.
LEMMA DerivativeSnapshotInv ==
    ASSUME IInv, DerivativeSnapshot
    PROVE  IInv'
  <1> USE DEF IInv, SessionInv
  <1>0. /\ UNCHANGED <<stats, handled, sent, conn, wire>> /\ pc = "fetching" /\ pc' = "session"
        /\ sink \in Sink /\ SinkInv /\ quiet \in Nat
    BY DEF DerivativeSnapshot, env, TypeOK
  <1> DEFINE Ends(o) == sink' = o.sink /\ quiet' = quiet + (IF o.ok THEN 0 ELSE 1)
  <1>a. PICK a \in DerivativeSnapshots(sink) :
             \E o \in (IF a.ok THEN FlushAll(a.sink) ELSE {a}) : Ends(o)
    BY DEF DerivativeSnapshot
  <1> HIDE DEF Ends
  <1>o. PICK o \in (IF a.ok THEN FlushAll(a.sink) ELSE {a}) : Ends(o)
    BY <1>a
  <1>1. sink' = o.sink /\ quiet' = quiet + (IF o.ok THEN 0 ELSE 1)
    BY <1>o DEF Ends
  <1>2. PICK R \in SUBSET {Snapshot} : Does(sink, a, "raw_market_event", R)
    <2> DEFINE b == Ok(sink)
    <2>1. b.sink = sink /\ b.ok = TRUE
      BY DEF Ok
    <2> HIDE DEF b
    <2>2. Does(sink, b, "raw_market_event", {})
      BY <1>0, <2>1, NoOutcome DEF Does
    <2>3. a \in (IF b.ok THEN DerivativeSnapshots(b.sink) ELSE {b}) /\ {} \in SUBSET {Snapshot}
      BY <1>a, <2>1
    <2> QED BY <1>0, <2>2, <2>3, ThenSnapshot
  <1>3. Does(sink, o, "raw_market_event", R)
    BY <1>0, <1>o, <1>2, ThenFlush
  <1>4. quiet' \in Nat /\ (quiet' = 0 => quiet = 0 /\ o.ok)
    BY <1>0, <1>1
  <1>5. Grows(sink, sink', "raw_market_event", R) /\ (quiet' = 0 => Keeps(sink, sink', "raw_market_event", R))
    BY <1>1, <1>3, <1>4 DEF Does
  <1>6. sink' \in Sink
    BY <1>5 DEF Grows
  <1>7. TypeOK'
    BY <1>0, <1>4, <1>6 DEF TypeOK, SessionPc
  <1>8. FirstConnection' /\ Unbroken'
    <2>1. FirstConnection'
      BY <1>0 DEF FirstConnection, SessionPc
    <2>2. Unbroken'
      BY <1>0 DEF Unbroken, Clean
    <2> QED BY <2>1, <2>2
  <1>9. HandledIsHeld'
    <2>1. HandledIsHeld
      BY DEF SinkInv
    <2> HIDE DEF IInv, SessionInv
    <2> QED BY <1>0, <1>4, <1>5, <2>1, HandledKept
  <1>10. SinkInv'
    <2>1. pc \in Early /\ pc' \notin Late /\ R \subseteq handled' \cup {Snapshot} /\ handled \subseteq handled'
      BY <1>0, <1>2 DEF Early, Late, SessionPc
    <2> HIDE DEF IInv, SessionInv
    <2> QED BY <1>0, <1>5, <1>9, <2>1, EarlySink
  <1> QED BY <1>7, <1>8, <1>10

\* The socket behind a message that was read without an error.
LEMMA MessageRead ==
    ASSUME TypeOK, Unbroken, wire # <<>>, wire' = Tail(wire), UNCHANGED <<conn, sent>>,
           handled' = handled \cup Range(Head(wire).events),
           Clean' => Clean /\ Head(wire).kind \in {"data", "control"}
    PROVE  Unbroken'
  <1> DEFINE v == wire'
             h == Head(wire)
             n == Len(v)
             Q == handled'
  <1>0. wire \in Seq(Wired) /\ handled \in EventSet /\ handled \in SUBSET (1..MaxEvents)
    BY DEF TypeOK, EventSet
  <1>1. /\ v \in Seq(Wired) /\ Len(wire) = n + 1 /\ h = wire[1] /\ h \in Wired /\ n \in Nat
        /\ \A i \in 1..n : v[i] = wire[i + 1]
        /\ \A i \in 1..(n + 1) :
              /\ ReadBy(v, Q, i) = ReadBy(wire, handled, i + 1)
              /\ SpoiledBy(wire, i + 1) <=> SpoiledBy(v, i) \/ h.kind \notin {"data", "control"}
        /\ ReadBy(wire, handled, 1) = handled /\ ~SpoiledBy(wire, 1)
    <2>1. v = Tail(wire) /\ h = Head(wire) /\ Q = handled \cup Range(h.events) /\ wire # <<>>
      OBVIOUS
    <2>2. n = Len(v) /\ n \in Nat
      BY <1>0
    <2>3. LET w == Tail(wire)
              X == handled \cup Range(Head(wire).events) IN
          /\ w \in Seq(Wired) /\ Len(wire) = Len(w) + 1 /\ Head(wire) = wire[1] /\ Head(wire) \in Wired
          /\ \A i \in 1..Len(w) : w[i] = wire[i + 1]
          /\ \A i \in 1..(Len(w) + 1) :
                /\ ReadBy(w, X, i) = ReadBy(wire, handled, i + 1)
                /\ SpoiledBy(wire, i + 1) <=> SpoiledBy(w, i) \/ Head(wire).kind \notin {"data", "control"}
          /\ ReadBy(wire, handled, 1) = handled /\ ~SpoiledBy(wire, 1)
      BY <1>0, <2>1, ReadByTail, Zenon
    <2> HIDE DEF v, h, n, Q
    <2> QED BY <2>1, <2>2, <2>3
  <1> SUFFICES ASSUME Clean'
               PROVE  /\ HoleFree(Q)
                      /\ \A i \in 1..n : SpoiledBy(v, i) \/ Continues(v[i].events, ReadBy(v, Q, i))
                      /\ conn = "open" =>
                            LET X == ReadBy(v, Q, n + 1)
                            IN  SpoiledBy(v, n + 1) \/ sent \in X \/ X = {}
    BY Zenon DEF Unbroken
  <1>2. Clean /\ h.kind \in {"data", "control"} /\ Q = handled \cup Range(h.events)
    OBVIOUS
  <1>3. /\ HoleFree(handled)
        /\ \A i \in 1..Len(wire) :
              SpoiledBy(wire, i) \/ Continues(wire[i].events, ReadBy(wire, handled, i))
        /\ conn = "open" =>
              LET X == ReadBy(wire, handled, Len(wire) + 1)
              IN  SpoiledBy(wire, Len(wire) + 1) \/ sent \in X \/ X = {}
    BY <1>2 DEF Unbroken
  <1> HIDE DEF v, h, n, Q
  <1>4. HoleFree(Q)
    <2> DEFINE es == h.events
    <2>1. es \in Seq(1..MaxEvents)
      BY <1>1 DEF Wired, Message
    <2>2. 1 \in 1..Len(wire)
      BY <1>1
    <2>3. Continues(es, handled)
      BY <1>1, <1>3, <2>2
    <2> HIDE DEF es
    <2>4. HoleFree(handled \cup Range(es))
      BY <1>0, <1>3, <2>1, <2>3, ContinuesHoleFree
    <2> QED BY <1>2, <2>4 DEF es
  <1>5. ASSUME NEW i \in 1..n PROVE SpoiledBy(v, i) \/ Continues(v[i].events, ReadBy(v, Q, i))
    <2>1. i \in 1..(n + 1) /\ i + 1 \in 1..Len(wire)
      BY <1>1
    <2>2. SpoiledBy(wire, i + 1) \/ Continues(wire[i + 1].events, ReadBy(wire, handled, i + 1))
      BY <1>3, <2>1
    <2> QED BY <1>1, <1>2, <2>1, <2>2
  <1>6. ASSUME conn = "open"
        PROVE  SpoiledBy(v, n + 1) \/ sent \in ReadBy(v, Q, n + 1) \/ ReadBy(v, Q, n + 1) = {}
    <2>1. n + 1 \in 1..(n + 1)
      BY <1>1
    <2>2. /\ ReadBy(v, Q, n + 1) = ReadBy(wire, handled, (n + 1) + 1)
          /\ SpoiledBy(wire, (n + 1) + 1) => SpoiledBy(v, n + 1)
      BY <1>1, <1>2, <2>1
    <2>3. \/ SpoiledBy(wire, (n + 1) + 1) \/ sent \in ReadBy(wire, handled, (n + 1) + 1)
          \/ ReadBy(wire, handled, (n + 1) + 1) = {}
      BY <1>1, <1>3, <1>6
    <2> QED BY <2>2, <2>3
  <1> QED BY <1>4, <1>5, <1>6

\* A message is read: its events are held, or the disconnect is counted.
LEMMA ReadMessageInv ==
    ASSUME IInv, ReadMessage
    PROVE  IInv'
  <1> USE DEF IInv, SessionInv
  <1> DEFINE h == Head(wire)
             R == Range(h.events)
  <1>0. /\ UNCHANGED <<quiet, sent>> /\ pc = "poll" /\ wire # <<>> /\ wire \in Seq(Wired)
        /\ sink \in Sink /\ stats \in Stats /\ SinkInv /\ handled' = handled \cup R
        /\ handled \in SUBSET (1..MaxEvents)
    BY DEF ReadMessage, env, TypeOK
  <1>h. h \in Wired /\ R \subseteq 1..MaxEvents
    <2>1. h \in Wired
      BY <1>0
    <2> DEFINE es == h.events
    <2>2. es \in Seq(1..MaxEvents)
      BY <2>1 DEF Wired, Message
    <2> HIDE DEF es
    <2>3. Range(es) \subseteq 1..MaxEvents
      BY <2>2, SeqElements
    <2> QED BY <2>1, <2>3 DEF es
  <1> DEFINE Ends(o) == /\ sink' = o.sink
                        /\ IF o.ok
                           THEN /\ stats' = o.stats /\ wire' = Tail(wire)
                                /\ pc' = "housekeeping" /\ UNCHANGED conn
                           ELSE Disconnect(MessageError(o.stats))
  <1>1. PICK o \in HandleMessage(h) : Ends(o)
    BY DEF ReadMessage
  <1> HIDE DEF h, R
  <1>2. /\ Handles(sink, stats, o, R)
        /\ o.ok /\ h.kind \notin {"data", "control"} => o.stats.gaps > 0 \/ o.stats.malformed > 0
    BY <1>0, <1>h, <1>1, HandleMessageDoes DEF R
  <1>3. /\ Grows(sink, sink', "raw_market_event", R) /\ sink' \in Sink
        /\ o.ok \in BOOLEAN /\ (o.ok => Keeps(sink, sink', "raw_market_event", R))
        /\ o.stats \in Stats /\ o.stats.gaps >= stats.gaps /\ o.stats.malformed >= stats.malformed
    BY <1>1, <1>2 DEF Handles, Does, Grows, Counts
  <1>4. stats.gaps \in Nat /\ stats.malformed \in Nat /\ o.stats.gaps \in Nat /\ o.stats.malformed \in Nat
    BY <1>0, <1>3, StatsParts
  <1>c. /\ o.stats.gaps = 0 => stats.gaps = 0
        /\ o.stats.malformed = 0 => stats.malformed = 0
        /\ o.stats.malformed + 1 \in Nat
    <2> DEFINE a == o.stats.gaps
               b == stats.gaps
               c == o.stats.malformed
               d == stats.malformed
    <2>1. a \in Nat /\ b \in Nat /\ c \in Nat /\ d \in Nat /\ a >= b /\ c >= d
      BY <1>3, <1>4, Zenon
    <2> HIDE DEF IInv, SessionInv, Ends, a, b, c, d
    <2>2. (a = 0 => b = 0) /\ (c = 0 => d = 0) /\ c + 1 \in Nat
      BY <2>1
    <2> QED BY <2>2, Zenon DEF a, b, c, d
  <1>5. handled' \in SUBSET (1..MaxEvents)
    BY <1>0, <1>h
  <1>6. ASSUME stats'.gaps = 0 => stats.gaps = 0 /\ o.ok, pc' \notin Late
        PROVE  SinkInv'
    <2>1. HandledIsHeld
      BY DEF SinkInv
    <2>2. pc \in Early /\ pc # "failed" /\ R \subseteq handled' \cup {Snapshot} /\ handled \subseteq handled'
      BY <1>0 DEF Early, SessionPc
    <2> HIDE DEF IInv, SessionInv
    <2>3. HandledIsHeld'
      BY <1>0, <1>3, <1>6, <2>1, <2>2, HandledKept
    <2> QED BY <1>0, <1>3, <1>6, <2>2, <2>3, EarlySink
  <1>7. CASE o.ok
    <2>0. stats' = o.stats /\ wire' = Tail(wire) /\ pc' = "housekeeping" /\ UNCHANGED conn
      BY <1>1, <1>7
    <2>1. TypeOK'
      <3>1. wire' \in Seq(Wired)
        BY <1>0, <2>0
      <3> QED BY <1>0, <1>3, <1>5, <2>0, <3>1 DEF TypeOK, SessionPc
    <2>2. FirstConnection'
      BY <2>0 DEF FirstConnection, SessionPc
    <2>3. Unbroken'
      <3>1. Clean' => Clean /\ h.kind \in {"data", "control"}
        <4> SUFFICES ASSUME o.stats.gaps = 0, o.stats.malformed = 0
                     PROVE  Clean /\ h.kind \in {"data", "control"}
          BY <2>0 DEF Clean
        <4>1. stats.gaps = 0 /\ stats.malformed = 0
          BY <1>c, Zenon
        <4>2. ~(o.stats.gaps > 0 \/ o.stats.malformed > 0)
          <5> HIDE DEF IInv, SessionInv, Ends
          <5> QED OBVIOUS
        <4>3. h.kind \in {"data", "control"}
          BY <1>2, <1>7, <4>2, Zenon
        <4> QED BY <4>1, <4>3, Zenon DEF Clean
      <3>2. TypeOK /\ Unbroken
        OBVIOUS
      <3>3. /\ wire # <<>> /\ wire' = Tail(wire) /\ UNCHANGED <<conn, sent>>
            /\ handled' = handled \cup Range(Head(wire).events)
            /\ Clean' => Clean /\ Head(wire).kind \in {"data", "control"}
        BY <1>0, <2>0, <3>1 DEF h, R
      <3> HIDE DEF IInv, SessionInv, Ends
      <3> QED BY <3>2, <3>3, MessageRead, Zenon
    <2>4. SinkInv'
      <3>1. stats'.gaps = 0 => stats.gaps = 0 /\ o.ok
        <4> HIDE DEF IInv, SessionInv, Ends
        <4> QED BY <1>c, <1>7, <2>0
      <3>2. pc' \notin Late
        BY <2>0 DEF Late
      <3> QED BY <1>6, <3>1, <3>2
    <2> QED BY <2>1, <2>2, <2>3, <2>4
  <1>8. CASE ~o.ok
    <2> DEFINE st == MessageError(o.stats)
               su == o.stats
               k == su.malformed + (IF venue = "upbit" THEN 1 ELSE 0)
    <2>1. st = [su EXCEPT !.malformed = k]
      BY DEF MessageError
    <2>2. su \in Stats /\ k \in Nat
      <3>1. /\ su \in Stats /\ su.malformed \in Nat /\ su.malformed + 1 \in Nat
        BY <1>3, <1>4, <1>c, Zenon
      <3>2. k = su.malformed + 1 \/ k = su.malformed + 0
        BY Zenon
      <3> HIDE DEF IInv, SessionInv, Ends, k, su
      <3>3. su.malformed + 0 \in Nat
        BY <3>1
      <3> QED BY <3>1, <3>2, <3>3, Zenon
    <2>3. Disconnect(st)
      BY <1>1, <1>8
    <2> HIDE DEF k, su, st
    <2>4. st \in Stats
      BY <2>1, <2>2 DEF Stats
    <2>5. /\ TypeOK' /\ FirstConnection' /\ Unbroken' /\ pc' = "sleep"
          /\ stats' \in Stats /\ stats'.gaps > 0
      <3>1. TypeOK /\ pc \in {"connecting"} \cup SessionPc
        BY <1>0 DEF SessionPc
      <3> HIDE DEF IInv, SessionInv, Ends
      <3> QED BY <1>0, <1>3, <1>5, <2>3, <2>4, <3>1, Disconnected
    <2>6. SinkInv'
      <3>1. ~(stats'.gaps = 0)
        <4>1. stats'.gaps \in Nat
          BY <2>5, StatsParts
        <4> QED BY <2>5, <4>1
      <3>2. pc' \notin Late
        BY <2>5 DEF Late
      <3> QED BY <1>6, <3>1, <3>2
    <2> QED BY <2>5, <2>6
  <1> QED BY <1>3, <1>7, <1>8

-----------------------------------------------------------------------------
(* The finalization. *)

\* What every step of finalize_storage keeps: none of them touches the raw
\* records, and one that fails ends the process.
LEMMA FinalStepInv ==
    ASSUME IInv, NEW f \in Families, NEW R, NEW o, Does(sink, o, f, R),
           f = "raw_market_event" => R = {},
           NEW from \in FinalPc, NEW to \in FinalPc, pc = from, from # "report", to # "health",
           sink' = o.sink, pc' = IF o.ok THEN to ELSE "failed",
           UNCHANGED <<stats, handled, quiet, sent, conn, wire>>
    PROVE  /\ TypeOK' /\ SessionInv' /\ HandledIsHeld' /\ HeldIsHandled' /\ OkIsClean'
           /\ Grows(sink, sink', f, R) /\ (pc' # "failed" => pc' = to /\ o.ok /\ Keeps(sink, sink', f, R))
  <1> USE DEF IInv, SessionInv
  <1>0. sink \in Sink /\ pc # "failed" /\ HandledIsHeld /\ HeldIsHandled
    BY DEF TypeOK, SinkInv, FinalPc
  <1>1. Grows(sink, sink', f, R) /\ (pc' # "failed" => pc' = to /\ o.ok /\ Keeps(sink, sink', f, R))
    BY DEF Does
  <1>2. sink' \in Sink /\ pc' \in FinalPc \cup {"failed"} /\ pc' # "health"
    BY <1>1 DEF Grows, FinalPc
  <1>3. TypeOK'
    BY <1>2 DEF TypeOK, FinalPc, Exited
  <1>4. FirstConnection'
    BY <1>2 DEF FirstConnection, FinalPc, SessionPc
  <1>5. Unbroken'
    BY DEF Unbroken, Clean
  <1>6. HandledIsHeld'
    <2> HIDE DEF IInv, SessionInv
    <2> QED BY <1>0, <1>1, HandledKept
  <1>7. HeldIsHandled'
    <2>1. "raw_market_event" \in Families
      BY DEF Families
    <2>2. Held(sink', "raw_market_event") \subseteq
             Held(sink, "raw_market_event") \cup (IF "raw_market_event" = f THEN R ELSE {})
      BY <1>1, <2>1 DEF Grows
    <2>3. Held(sink', "raw_market_event") \subseteq handled \cup {Snapshot}
      BY <1>0, <2>2 DEF HeldIsHandled
    <2> QED BY <2>3 DEF HeldIsHandled, Held
  <1>8. OkIsClean'
    BY <1>2 DEF OkIsClean, FinalPc
  <1> QED BY <1>1, <1>3, <1>4, <1>5, <1>6, <1>7, <1>8

\* The three steps that append.
LEMMA AppendStepInv ==
    ASSUME IInv, NEW f \in {"source_health", "symbol_health", "gap_alert"}, NEW records \in Seq(Record),
           NEW from \in {"health", "symbols", "alerts"}, NEW to \in {"symbols", "alerts", "flush"},
           FinalStep(AppendAll(f, records), from, to),
           f = "source_health" => from = "health" /\ ("healthy" \in Range(records) => Clean),
           to = "flush" => f = "gap_alert" /\ Range(records) = Range(stats.alerts)
    PROVE  IInv'
  <1>0. /\ pc = from /\ UNCHANGED <<stats, handled, quiet, sent, conn, wire>> /\ f \in Families
        /\ f # "raw_market_event" /\ from \in FinalPc /\ to \in FinalPc /\ from # "report" /\ to # "health"
    BY DEF FinalStep, env, FinalPc, Families
  <1>1. PICK o \in AppendAll(f, records) : sink' = o.sink /\ pc' = IF o.ok THEN to ELSE "failed"
    BY DEF FinalStep
  <1> DEFINE R == Range(records)
  <1>2. sink \in Sink /\ HealthIsTrue
    BY DEF IInv, TypeOK, SinkInv
  <1>3. Does(sink, o, f, R)
    BY <1>0, <1>1, <1>2, AppendAllDoes
  <1> HIDE DEF R
  <1>4. /\ TypeOK' /\ SessionInv' /\ HandledIsHeld' /\ HeldIsHandled' /\ OkIsClean'
        /\ Grows(sink, sink', f, R) /\ (pc' # "failed" => pc' = to /\ o.ok /\ Keeps(sink, sink', f, R))
    BY <1>0, <1>1, <1>3, FinalStepInv
  <1>5. pc' \in {"symbols", "alerts", "flush", "failed"}
    BY <1>4
  <1>6. Flushed' /\ ManifestUp'
    BY <1>5 DEF Flushed, ManifestUp
  <1>7. AlertsHeld'
    <2> SUFFICES ASSUME pc' = "flush", sink'.failed = 0
                 PROVE  Range(stats.alerts) \subseteq Held(sink', "gap_alert")
      BY <1>0, <1>5 DEF AlertsHeld, Held
    <2>1. Keeps(sink, sink', f, R) /\ f = "gap_alert" /\ R = Range(stats.alerts)
      BY <1>4 DEF R
    <2>2. sink'.failed = sink.failed
      <3>1. sink.failed \in Nat /\ sink'.failed >= sink.failed
        BY <1>2, <1>4 DEF Sink, Grows
      <3> QED BY <3>1
    <2>3. Held(sink, f) \cup (IF f = f THEN R ELSE {}) \subseteq Held(sink', f)
      BY <1>0, <2>1, <2>2 DEF Keeps
    <2> QED BY <2>1, <2>3
  <1>8. HealthIsTrue'
    <2>1. "source_health" \in Families
      BY DEF Families
    <2>2. Held(sink', "source_health") \subseteq
             Held(sink, "source_health") \cup (IF "source_health" = f THEN R ELSE {})
      BY <1>4, <2>1 DEF Grows
    <2>3. "healthy" \in Held(sink', "source_health") => Clean
      <3>1. CASE f = "source_health"
        <4>1. Held(sink, "source_health") = {}
          BY <1>0, <1>2, <3>1 DEF HealthIsTrue
        <4>2. "healthy" \in R => Clean
          BY <3>1 DEF R
        <4> QED BY <2>2, <4>1, <4>2
      <3>2. CASE f # "source_health"
        BY <1>2, <2>2, <3>2 DEF HealthIsTrue
      <3> QED BY <3>1, <3>2
    <2>4. pc' \notin {"start", "watch", "connecting", "sleep", "health"} \cup SessionPc
      BY <1>5 DEF SessionPc
    <2>5. Clean <=> Clean'
      BY <1>0 DEF Clean
    <2> QED BY <2>3, <2>4, <2>5 DEF HealthIsTrue, Held
  <1> QED BY <1>4, <1>6, <1>7, <1>8 DEF IInv, SinkInv

\* The flush and the manifest.
LEMMA FlushStepInv ==
    ASSUME IInv, FinalStep(FlushAll(sink), "flush", "manifest")
    PROVE  IInv'
  <1>0. /\ pc = "flush" /\ UNCHANGED <<stats, handled, quiet, sent, conn, wire>>
        /\ "gap_alert" \in Families /\ "source_health" \in Families /\ "flush" \in FinalPc /\ "manifest" \in FinalPc
    BY DEF FinalStep, env, FinalPc, Families
  <1>1. PICK o \in FlushAll(sink) : sink' = o.sink /\ pc' = IF o.ok THEN "manifest" ELSE "failed"
    BY DEF FinalStep
  <1>2. sink \in Sink /\ HealthIsTrue /\ AlertsHeld
    BY DEF IInv, TypeOK, SinkInv
  <1>3. Flushes(sink, o, Families)
    BY <1>1, <1>2, FlushAllDoes
  <1>4. Does(sink, o, "gap_alert", {})
    BY <1>3 DEF Flushes, Does
  <1>5. /\ TypeOK' /\ SessionInv' /\ HandledIsHeld' /\ HeldIsHandled' /\ OkIsClean'
        /\ Grows(sink, sink', "gap_alert", {})
        /\ pc' # "failed" => pc' = "manifest" /\ o.ok /\ Keeps(sink, sink', "gap_alert", {})
    <2>1. /\ "gap_alert" # "raw_market_event" /\ "flush" # "report" /\ "manifest" # "health"
          /\ {} = {}
      OBVIOUS
    <2> QED BY <1>0, <1>1, <1>4, <2>1, FinalStepInv, Zenon
  <1>6. pc' \in {"manifest", "failed"}
    BY <1>5
  <1>7. Flushed' /\ ManifestUp'
    BY <1>1, <1>3, <1>5, <1>6 DEF Flushes, Flushed, ManifestUp
  <1>8. AlertsHeld'
    <2> SUFFICES ASSUME pc' = "manifest", sink'.failed = 0
                 PROVE  Range(stats.alerts) \subseteq Held(sink', "gap_alert")
      BY <1>0, <1>6 DEF AlertsHeld, Held
    <2>1. sink'.failed = sink.failed
      <3>1. sink.failed \in Nat /\ sink'.failed >= sink.failed
        BY <1>2, <1>5 DEF Sink, Grows
      <3> QED BY <3>1
    <2>2. Held(sink, "gap_alert") \subseteq Held(sink', "gap_alert")
      BY <1>0, <1>5, <2>1 DEF Keeps
    <2> QED BY <1>0, <1>2, <2>1, <2>2 DEF AlertsHeld
  <1>9. HealthIsTrue'
    <2>1. Held(sink', "source_health") \subseteq Held(sink, "source_health")
      BY <1>0, <1>5 DEF Grows
    <2>2. pc' \notin {"start", "watch", "connecting", "sleep", "health"} \cup SessionPc
      BY <1>6 DEF SessionPc
    <2>3. Clean <=> Clean'
      BY <1>0 DEF Clean
    <2> QED BY <1>2, <2>1, <2>2, <2>3 DEF HealthIsTrue, Held
  <1> QED BY <1>5, <1>7, <1>8, <1>9 DEF IInv, SinkInv

\* The manifest is uploaded.
LEMMA ManifestStepInv ==
    ASSUME IInv, FinalStep({Ok([sink EXCEPT !.manifest = TRUE]), Err(sink)}, "manifest", "report")
    PROVE  IInv'
  <1> USE DEF IInv, SessionInv, SinkInv
  <1> DEFINE up == [sink EXCEPT !.manifest = TRUE]
  <1>0. pc = "manifest" /\ UNCHANGED <<stats, handled, quiet, sent, conn, wire>> /\ sink \in Sink
    BY DEF FinalStep, env, TypeOK
  <1>1. \/ sink' = up /\ pc' = "report"
        \/ sink' = sink /\ pc' = "failed"
    <2>1. PICK o \in {Ok(up), Err(sink)} : sink' = o.sink /\ pc' = IF o.ok THEN "report" ELSE "failed"
      BY DEF FinalStep
    <2> HIDE DEF up
    <2>2. CASE o = Ok(up)
      <3>1. o.sink = up /\ o.ok = TRUE
        BY <2>2 DEF Ok
      <3> QED BY <2>1, <3>1
    <2>3. CASE o = Err(sink)
      <3>1. o.sink = sink /\ o.ok = FALSE
        BY <2>3 DEF Err
      <3> QED BY <2>1, <3>1
    <2> QED BY <2>1, <2>2, <2>3
  <1>2. /\ sink' \in Sink /\ sink'.buffer = sink.buffer /\ sink'.stored = sink.stored
        /\ sink'.failed = sink.failed /\ (pc' = "report" => sink'.manifest) /\ pc' \in {"report", "failed"}
    BY <1>0, <1>1 DEF Sink
  <1>3. TypeOK'
    BY <1>0, <1>2 DEF TypeOK, FinalPc, Exited
  <1>4. FirstConnection'
    BY <1>0, <1>2 DEF FirstConnection, SessionPc
  <1>5. Unbroken'
    BY <1>0 DEF Unbroken, Clean
  <1>6. HandledIsHeld' /\ HeldIsHandled'
    BY <1>0, <1>2 DEF HandledIsHeld, HeldIsHandled, Held
  <1>7. AlertsHeld'
    BY <1>0, <1>2 DEF AlertsHeld, Held
  <1>8. Flushed' /\ ManifestUp' /\ OkIsClean'
    BY <1>0, <1>2 DEF Flushed, ManifestUp, OkIsClean
  <1>9. HealthIsTrue'
    BY <1>0, <1>2 DEF HealthIsTrue, Held, Clean, SessionPc
  <1> QED BY <1>3, <1>4, <1>5, <1>6, <1>7, <1>8, <1>9

\* Every step of finalize_storage.
LEMMA FinalizeInv ==
    ASSUME IInv, FinalizeStorage
    PROVE  IInv'
  <1>0. stats.alerts \in Seq(GapAlert)
    BY StatsParts DEF IInv, TypeOK
  <1>1. CASE FinalStep(AppendAll("source_health", <<health_level>>), "health", "symbols")
    <2> DEFINE records == <<health_level>>
    <2>1. health_level \in {"critical", "healthy", "degraded"} /\ (health_level = "healthy" => Clean)
      BY DEF health_level, Clean
    <2>2. health_level \in Record
      BY <2>1, Records
    <2>3. Range(records) = {health_level} /\ records \in Seq(Record)
      BY <2>2 DEF Range
    <2> HIDE DEF records
    <2>4. FinalStep(AppendAll("source_health", records), "health", "symbols")
      BY <1>1 DEF records
    <2>5. "healthy" \in Range(records) => Clean
      BY <2>1, <2>3
    <2> QED BY <2>3, <2>4, <2>5, AppendStepInv
  <1>2. CASE FinalStep(AppendAll("symbol_health", symbol_health_drafts), "symbols", "alerts")
    <2>1. symbol_health_drafts \in Seq(Record)
      BY Records DEF symbol_health_drafts
    <2> QED BY <1>2, <2>1, AppendStepInv
  <1>3. CASE FinalStep(AppendAll("gap_alert", stats.alerts), "alerts", "flush")
    <2> DEFINE records == stats.alerts
    <2>1. records \in Seq(Record)
      BY <1>0, Records
    <2>2. FinalStep(AppendAll("gap_alert", records), "alerts", "flush") /\ Range(records) = Range(stats.alerts)
      BY <1>3
    <2> HIDE DEF records
    <2> QED BY <2>1, <2>2, AppendStepInv
  <1>4. CASE FinalStep(FlushAll(sink), "flush", "manifest")
    BY <1>4, FlushStepInv
  <1>5. CASE FinalStep({Ok([sink EXCEPT !.manifest = TRUE]), Err(sink)}, "manifest", "report")
    BY <1>5, ManifestStepInv
  <1> QED BY <1>1, <1>2, <1>3, <1>4, <1>5 DEF FinalizeStorage

-----------------------------------------------------------------------------
(* The theorems. *)

\* The invariant holds at the start.
LEMMA InitInv ==
    ASSUME Init
    PROVE  IInv
  <1>0. /\ pc = "start" /\ sent = 0 /\ conn = "none" /\ wire = <<>> /\ handled = {} /\ quiet = 0
        /\ stats.gaps = 0
        /\ \A f \in Families : sink.buffer[f] = {} /\ sink.stored[f] = {}
        /\ MaxEvents \in Nat
    BY RealtimeConfigValid DEF Init
  <1>1. TypeOK
    <2>1. stats \in Stats
      <3>1. <<>> \in Seq(GapAlert) /\ 0 \in 0..MaxEvents
        BY <1>0
      <3> QED BY <3>1 DEF Init, Stats, NoEvent
    <2>2. sink \in Sink
      BY DEF Init, Sink
    <2>3. sent \in 0..MaxEvents /\ wire \in Seq(Wired) /\ handled \in SUBSET (1..MaxEvents)
      BY <1>0
    <2> QED BY <1>0, <2>1, <2>2, <2>3 DEF TypeOK
  <1>2. FirstConnection
    BY <1>0 DEF FirstConnection
  <1>3. Unbroken
    <2>1. HoleFree(handled) /\ \A i : i \notin 1..Len(wire)
      BY <1>0 DEF HoleFree
    <2> QED BY <1>0, <2>1 DEF Unbroken
  <1>4. "raw_market_event" \in Families /\ "source_health" \in Families
    BY DEF Families
  <1>5. HandledIsHeld /\ HeldIsHandled
    BY <1>0, <1>4 DEF HandledIsHeld, HeldIsHandled, Held
  <1>6. AlertsHeld /\ Flushed /\ ManifestUp /\ OkIsClean
    BY <1>0 DEF AlertsHeld, Flushed, ManifestUp, OkIsClean
  <1>7. HealthIsTrue
    BY <1>0, <1>4 DEF HealthIsTrue, Held
  <1> QED BY <1>1, <1>2, <1>3, <1>5, <1>6, <1>7 DEF IInv, SessionInv, SinkInv

\* Every step keeps the invariant.
LEMMA StepInv ==
    ASSUME IInv, [Next]_vars
    PROVE  IInv'
  <1>1. CASE Task \/ Answer
    <2>1. CASE \/ StartFails \/ StartUpbit \/ BeginConnect \/ Wake \/ BeginPoll \/ Tick \/ Housekeeping
               \/ BeginDerivativeSnapshot \/ ValidateReport
      BY <2>1, StartUpInv
    <2>2. CASE Connect \/ LeaveWatch
      BY <2>2, ConnectInv
    <2>3. CASE ConnectFails \/ StreamEnds \/ StaleOrPingFails
      BY <2>3, GivenUpInv
    <2>4. CASE StartBinance
      BY <2>4, StartBinanceInv
    <2>5. CASE ReadMessage
      BY <2>5, ReadMessageInv
    <2>6. CASE DerivativeSnapshot
      BY <2>6, DerivativeSnapshotInv
    <2>7. CASE FinalizeStorage
      BY <2>7, FinalizeInv
    <2> QED BY <1>1, <2>1, <2>2, <2>3, <2>4, <2>5, <2>6, <2>7 DEF Task, Answer
  <1>2. ASSUME NEW k \in 1..2, ExchangeSends(k) PROVE IInv'
    BY <1>2, ExchangeSendsInv
  <1>3. CASE ExchangeSendsControl
    BY <1>3, ControlInv
  <1>4. CASE ExchangeMisbehaves
    BY <1>4, MisbehavesInv
  <1>5. CASE MessageGarbled
    BY <1>5, GarbledInv
  <1>6. CASE ConnectionBreaks \/ StopRequested \/ Clock
    BY <1>6, OutsideInv
  <1>7. CASE UNCHANGED vars
    <2> USE DEF IInv, SessionInv
    <2>0. UNCHANGED <<pc, sent, conn, wire, stats, sink, handled, quiet>>
      BY <1>7 DEF vars
    <2>1. TypeOK'
      BY <2>0 DEF TypeOK
    <2>2. FirstConnection'
      BY <2>0 DEF FirstConnection
    <2>3. Unbroken'
      BY <2>0 DEF Unbroken, Clean
    <2> QED BY <2>0, <2>1, <2>2, <2>3, SinkInvStays
  <1> QED BY <1>1, <1>2, <1>3, <1>4, <1>5, <1>6, <1>7 DEF Next, Terminated

\* The inductive invariant holds in every reachable state.
LEMMA Invariant == Spec => []IInv
  <1>1. Init => IInv
    BY InitInv
  <1>2. IInv /\ [Next]_vars => IInv'
    BY StepInv
  <1> QED BY <1>1, <1>2, PTL DEF Spec

\* A worker that exits with success has nothing left in its buffers, its
\* manifest up and every retained alert stored, and every event it parsed is
\* stored unless an alert or a logged flush error says otherwise, for every
\* configuration and every number of events, reconnects and failures.
THEOREM SuccessIsDurable == Spec => []ExitOkIsDurable
  <1>1. ASSUME IInv PROVE ExitOkIsDurable
    <2> SUFFICES ASSUME pc = "ok"
                 PROVE  /\ \A f \in Families : sink.buffer[f] = {}
                        /\ sink.manifest
                        /\ Range(stats.alerts) \subseteq sink.stored["gap_alert"]
                        /\ handled \subseteq sink.stored["raw_market_event"] \/ stats.gaps > 0 \/ quiet > 0
      BY DEF ExitOkIsDurable
    <2>1. (\A f \in Families : sink.buffer[f] = {}) /\ sink.manifest /\ sink.failed = 0
      BY <1>1 DEF IInv, SinkInv, Flushed, ManifestUp, OkIsClean
    <2>2. \A f \in Families : Held(sink, f) = sink.stored[f]
      BY <2>1 DEF Held
    <2>3. Range(stats.alerts) \subseteq sink.stored["gap_alert"]
      BY <1>1, <2>1, <2>2 DEF IInv, SinkInv, AlertsHeld, Families
    <2>4. stats.gaps \in Nat /\ quiet \in Nat
      BY <1>1, StatsParts DEF IInv, TypeOK
    <2>5. stats.gaps = 0 /\ quiet = 0 => handled \subseteq sink.stored["raw_market_event"]
      BY <1>1, <2>1, <2>2 DEF IInv, SinkInv, HandledIsHeld, Families
    <2>6. (stats.gaps = 0 \/ stats.gaps > 0) /\ (quiet = 0 \/ quiet > 0)
      <3> DEFINE g == stats.gaps
      <3>1. g \in Nat
        BY <2>4
      <3> HIDE DEF g
      <3>2. g = 0 \/ g > 0
        BY <3>1
      <3>3. quiet = 0 \/ quiet > 0
        BY <2>4
      <3> QED BY <3>2, <3>3, Zenon DEF g
    <2> QED BY <2>1, <2>3, <2>5, <2>6, Zenon
  <1> QED BY <1>1, Invariant, PTL

\* A source_health record that says "healthy", from a worker that exits with
\* success, stands for a run without a hole.
THEOREM HealthyMeansComplete == Spec => []HealthyIsComplete
  <1>1. ASSUME IInv PROVE HealthyIsComplete
    <2> SUFFICES ASSUME pc = "ok", "healthy" \in sink.stored["source_health"]
                 PROVE  HolesOf(handled) = {} /\ (HolesOf(Kept) = {} \/ quiet > 0)
      BY DEF HealthyIsComplete
    <2>1. Clean /\ sink.failed = 0
      BY <1>1 DEF IInv, SinkInv, HealthIsTrue, Held, OkIsClean
    <2>2. HoleFree(handled)
      BY <1>1, <2>1 DEF IInv, SessionInv, Unbroken
    <2>4. quiet \in Nat /\ handled \in SUBSET (1..MaxEvents)
      BY <1>1, Zenon DEF IInv, TypeOK
    <2>3. HolesOf(handled) = {}
      <3> SUFFICES ASSUME NEW n \in handled, n + 1 \notin handled, NEW m \in handled, m > n
                   PROVE  FALSE
        BY DEF HolesOf
      <3>1. n \in Int /\ m \in Int
        BY <2>4
      <3> QED BY <2>2, <3>1 DEF HoleFree
    <2>5. ASSUME quiet = 0 PROVE Kept = handled
      <3>1. handled \subseteq Held(sink, "raw_market_event")
        BY <1>1, <2>1, <2>5 DEF IInv, SinkInv, HandledIsHeld, Clean
      <3>2. Held(sink, "raw_market_event") \subseteq handled \cup {Snapshot}
        BY <1>1 DEF IInv, SinkInv, HeldIsHandled
      <3>3. Snapshot \notin handled
        BY <2>4 DEF Snapshot
      <3> QED BY <3>1, <3>2, <3>3 DEF Kept, Held
    <2> QED BY <2>3, <2>4, <2>5
  <1> QED BY <1>1, Invariant, PTL
=============================================================================

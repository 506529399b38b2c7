----------------------- MODULE NormalizeWorker_proofs -----------------------
(***************************************************************************)
(* What the choice of windows guarantees for every interval, watermark,    *)
(* page size, lookback and budget that WorkerConfigValid allows, whatever  *)
(* faults happen.                                                          *)
(***************************************************************************)
EXTENDS NormalizeWorker, TLAPS, WellFoundedInduction

TypeOK ==
    /\ mode \in Modes /\ clock \in 0..MaxClock
    /\ index \in [Slots -> [status : {"none", "success", "empty"}, end : Slots \cup {NoTime}]]
    /\ pc \in {"down", "sleep", "live", "drain", "run", "publish"}
    /\ now \in Nat /\ now <= clock
    /\ last \in Nat \cup {NoTime} /\ oldest \in {0, NoTime} /\ live \in Nat \cup {NoTime}
    /\ job \in [by : {"none", "live", "sequential"}, start : Nat \cup {NoTime}]
    /\ status \in {"none", "success", "empty"}
    /\ pending \subseteq Slots
    /\ ran \subseteq Nat

Running == pc \in {"run", "publish"}

\* The window in hand was closed and had settled when it was chosen.
JobIsClosed ==
    /\ Running => /\ job.start \in Nat /\ job.start % Interval = 0
                  /\ job.start + Interval + Settled <= clock
                  /\ job.by # "none"
    /\ pc = "publish" => pending \subseteq SlotsOf(job.start)

\* A pointer names the end of a window that was run.
EndsAreWindows ==
    /\ \A s \in Slots : Indexed(s) => /\ index[s].end \in Nat /\ index[s].end % Interval = 0
                                      /\ index[s].end - Interval \in attempted
    /\ last # NoTime => last % Interval = 0
    /\ pc = "publish" => job.start \in attempted

\* Apart from the live window, a drain goes upwards.
RanBefore ==
    /\ pc = "live" => ran = {}
    /\ pc = "drain" => \A w \in ran : w = live \/ (last # NoTime /\ w + Interval <= last)
    /\ Running /\ job.by = "live" => ran = {job.start}
    /\ Running /\ job.by = "sequential" => \A w \in ran : w = live \/ w <= job.start

\* Without live priority the windows that were run have no hole.
NoHole ==
    mode = "sequential" =>
        /\ \A w \in attempted : Behind(w) \subseteq attempted
        /\ last # NoTime => Behind(last) \subseteq attempted
        /\ Running => job.by = "sequential" /\ Behind(job.start) \subseteq attempted
        /\ live = NoTime

IInv == TypeOK /\ JobIsClosed /\ IndexedIsClosed /\ EndsAreWindows /\ RanBefore /\ NoHole

LEMMA Config ==
    /\ Interval \in Nat /\ Interval > 0 /\ Watermark \in Nat
    /\ Settled \in Nat /\ Settled <= Interval /\ Settled <= Watermark
    /\ MaxClock \in Nat /\ "none" \notin Outcomes /\ NoTime = -1
    /\ Outcomes \subseteq {"success", "empty", "blocked"}
  BY WorkerConfigValid DEF NoTime, Settled

\* Multiples of the interval, as the window arithmetic of the code uses them.
LEMMA FloorFacts ==
    ASSUME NEW t \in Nat
    PROVE  /\ AlignFloor(t) \in Nat /\ AlignFloor(t) <= t /\ t < AlignFloor(t) + Interval
           /\ AlignFloor(t) % Interval = 0
           /\ (t \div Interval) * Interval = AlignFloor(t)
           /\ t % Interval = 0 => AlignFloor(t) = t
  <1>1. PICK q \in Nat, r \in Nat : q = t \div Interval /\ r = t % Interval /\ r < Interval
    BY Config
  <1>2. t = q * Interval + r
    BY <1>1, Config
  <1>3. (q * Interval) % Interval = 0
    BY <1>1, Config
  <1> QED BY <1>1, <1>2, <1>3, Config DEF AlignFloor

LEMMA Apart ==
    ASSUME NEW a \in Nat, NEW b \in Nat, a % Interval = 0, b % Interval = 0, a < b
    PROVE  a + Interval <= b
  <1>1. PICK i \in Nat, j \in Nat : a = i * Interval /\ b = j * Interval
    BY Config
  <1>2. i < j
    BY <1>1, Config
  <1>3. (i + 1) * Interval <= j * Interval
    BY <1>2, Config
  <1> QED BY <1>1, <1>3, Config

LEMMA Shift ==
    ASSUME NEW a \in Nat, a % Interval = 0
    PROVE  (a + Interval) % Interval = 0 /\ (a >= Interval => (a - Interval) % Interval = 0)
  <1>1. PICK i \in Nat : a = i * Interval
    BY Config
  <1>2. a + Interval = (i + 1) * Interval /\ a - Interval = (i - 1) * Interval
    BY <1>1, Config
  <1>3. ((i + 1) * Interval) % Interval = 0
    BY Config
  <1>4. ((i - 1) * Interval) % Interval = 0
    BY Config
  <1> QED BY <1>1, <1>2, <1>3, <1>4, Config

\* A set of slots that is not empty has a greatest one.
LEMMA MaxIn ==
    ASSUME NEW S \in SUBSET Slots, S # {}
    PROVE  Max(S) \in S
  <1> DEFINE T == {MaxClock - s : s \in S}
  <1>0. \A s \in S : MaxClock - s \in Nat
    BY Config DEF Slots
  <1>1. T \subseteq Nat /\ T # {}
    BY <1>0
  <1> DEFINE Less == {p \in Nat \X Nat : p[1] < p[2]}
  <1>2. IsWellFoundedOn(Less, Nat)
    BY NatLessThanWellFounded, Zenon DEF OpToRel
  <1> HIDE DEF T
  <1>3. PICK x \in T : \A y \in T : <<y, x>> \notin Less
    <2> HIDE DEF Less
    <2> QED BY <1>1, <1>2, WFMin
  <1>4. \A y \in T : ~(y < x)
    BY <1>1, <1>3
  <1>5. PICK m \in S : x = MaxClock - m
    BY DEF T
  <1>6. ASSUME NEW y \in S PROVE m >= y
    <2>1. ~(MaxClock - y < MaxClock - m)
      BY <1>4, <1>5 DEF T
    <2>2. y \in Nat /\ m \in Nat /\ MaxClock \in Nat
      BY Config DEF Slots
    <2> QED BY <2>1, <2>2
  <1> QED BY <1>5, <1>6 DEF Max

\* The look-up returns the end of an indexed window, if anything.
LEMMA ResolvedIsEnd ==
    ASSUME IInv
    PROVE  \/ ResolveLast = NoTime
           \/ \E s \in Slots : Indexed(s) /\ ResolveLast = index[s].end
  <1>1. VisibleSuccess \subseteq Slots /\ \A s \in VisibleSuccess : Indexed(s)
    BY DEF VisibleSuccess, PageOf
  <1>2. CASE VisibleSuccess = {}
    BY <1>2 DEF ResolveLast
  <1>3. CASE VisibleSuccess # {}
    <2>1. Max(VisibleSuccess) \in VisibleSuccess
      BY <1>1, <1>3, MaxIn
    <2> QED BY <1>1, <1>3, <2>1 DEF ResolveLast
  <1> QED BY <1>2, <1>3

\* Every window below a multiple of the interval is the last one or below that.
LEMMA BehindNext ==
    ASSUME NEW a \in Nat, a % Interval = 0
    PROVE  Behind(a + Interval) \subseteq Behind(a) \cup {a}
  <1> SUFFICES ASSUME NEW w \in Behind(a + Interval), w # a, ~(w < a) PROVE FALSE
    BY DEF Behind
  <1>1. w \in Nat /\ w % Interval = 0 /\ w < a + Interval
    BY Config DEF Behind, WindowStarts, Slots
  <1>2. a < w
    BY <1>1
  <1>3. a + Interval <= w
    BY <1>1, <1>2, Apart
  <1> QED BY <1>1, <1>3, Config

LEMMA BehindZero == Behind(0) = {}
  BY Config DEF Behind, WindowStarts, Slots

\* Both decisions choose closed windows that have settled.
LEMMA LiveChoice ==
    ASSUME TypeOK, DecideLivePriorityMode # NoTime
    PROVE  /\ DecideLivePriorityMode \in Nat /\ DecideLivePriorityMode % Interval = 0
           /\ DecideLivePriorityMode + Interval + Settled <= clock
           /\ mode # "sequential"
  <1>1. /\ DecideLivePriorityMode = ReadyEnd - Interval /\ ReadyEnd > 0
        /\ now >= ReadyEnd + Watermark /\ mode # "sequential"
    BY DEF DecideLivePriorityMode, LivePriority
  <1>2. now \in Nat /\ now <= clock /\ clock \in Nat
    BY Config DEF TypeOK
  <1>3. ReadyEnd \in Nat /\ ReadyEnd % Interval = 0
    BY <1>2, FloorFacts DEF ReadyEnd
  <1>4. ReadyEnd >= Interval
    <2>1. 0 % Interval = 0
      BY Config
    <2> QED BY <1>1, <1>3, <2>1, Apart, Config
  <1>5. (ReadyEnd - Interval) % Interval = 0
    BY <1>3, <1>4, Shift
  <1> QED BY <1>1, <1>2, <1>3, <1>4, <1>5, Config

LEMMA SequentialChoice ==
    ASSUME TypeOK, last # NoTime => last % Interval = 0, DecideMode # NoTime
    PROVE  /\ DecideMode \in Nat /\ DecideMode % Interval = 0
           /\ DecideMode + Interval + Settled <= clock
           /\ last # NoTime => DecideMode = last
           /\ last = NoTime => DecideMode = 0
  <1>1. /\ DecideMode = NextStart /\ NextStart # NoTime /\ NextStart + Interval <= ReadyEnd
        /\ NextStart + Interval = ReadyEnd => now >= ReadyEnd + Watermark
    BY DEF DecideMode
  <1>2. now \in Nat /\ now <= clock /\ clock \in Nat
    BY Config DEF TypeOK
  <1>3. ReadyEnd \in Nat /\ ReadyEnd % Interval = 0 /\ ReadyEnd <= now
    BY <1>2, FloorFacts DEF ReadyEnd
  <1>4. NextStart \in Nat /\ NextStart % Interval = 0
    BY <1>1, FloorFacts DEF NextStart, TypeOK
  <1>5. NextStart + Interval + Settled <= now
    <2>1. CASE NextStart + Interval = ReadyEnd
      BY <1>1, <1>2, <1>3, <2>1, Config
    <2>2. CASE NextStart + Interval < ReadyEnd
      <3>1. NextStart + Interval + Interval <= ReadyEnd
        BY <1>3, <1>4, <2>2, Shift, Apart, Config
      <3> QED BY <1>2, <1>3, <1>4, <3>1, Config
    <2> QED BY <1>1, <1>3, <1>4, <2>1, <2>2, Config
  <1>6. last # NoTime => NextStart = last
    BY FloorFacts DEF NextStart, TypeOK
  <1>7. last = NoTime => NextStart = 0
    <2>1. AlignFloor(0) = 0
      BY FloorFacts
    <2> QED BY <1>1, <2>1 DEF NextStart, TypeOK
  <1> QED BY <1>1, <1>2, <1>4, <1>5, <1>6, <1>7, Config

LEMMA InitInv == Init => IInv
  <1> SUFFICES ASSUME Init PROVE IInv
    OBVIOUS
  <1>1. \A s \in Slots : ~Indexed(s)
    BY DEF Init, Indexed
  <1>2. TypeOK
    BY Config DEF Init, TypeOK, NoJob, NoPointer
  <1>3. JobIsClosed /\ IndexedIsClosed /\ EndsAreWindows /\ RanBefore /\ NoHole
    BY <1>1 DEF Init, JobIsClosed, IndexedIsClosed, EndsAreWindows, RanBefore, NoHole, Running
  <1> QED BY <1>2, <1>3 DEF IInv

\* The worker leaves a drain, or the process: what it had in hand is gone.
LEMMA StopInv ==
    ASSUME IInv, pc' \in {"down", "sleep"},
           UNCHANGED <<mode, clock, index, now, last, oldest, live, ran, attempted>>,
           job' \in {job, NoJob}, status' \in {status, "none"}, pending' \in {pending, {}}
    PROVE  IInv'
  <1> USE DEF IInv
  <1>1. TypeOK'
    BY Config DEF TypeOK, NoJob
  <1>2. JobIsClosed' /\ RanBefore'
    BY DEF JobIsClosed, RanBefore, Running
  <1>3. IndexedIsClosed' /\ EndsAreWindows'
    BY DEF IndexedIsClosed, EndsAreWindows, Indexed, SlotsOf
  <1>4. NoHole'
    BY DEF NoHole, Running, Behind
  <1> QED BY <1>1, <1>2, <1>3, <1>4

\* Steps of the clock and of nothing else that matters here.
LEMMA TimeInv ==
    ASSUME IInv, clock' \in {clock, clock + 1}, clock' <= MaxClock,
           UNCHANGED <<mode, index, pc, now, last, oldest, live, job, status, pending, ran, attempted>>
    PROVE  IInv'
  <1> USE DEF IInv
  <1>0. clock \in Nat /\ now \in Nat /\ now <= clock
    BY Config DEF TypeOK
  <1>1. TypeOK'
    BY <1>0, Config DEF TypeOK
  <1>2. JobIsClosed'
    BY <1>0, Config DEF JobIsClosed, Running, SlotsOf
  <1>3. IndexedIsClosed'
    <2> SUFFICES ASSUME NEW s \in Slots, Indexed(s)
                 PROVE  s \in SlotsOf(index[s].end - Interval) /\ clock' >= index[s].end + Settled
      BY DEF IndexedIsClosed, Indexed
    <2>1. s \in SlotsOf(index[s].end - Interval) /\ clock >= index[s].end + Settled
      BY DEF IndexedIsClosed
    <2>2. index[s].end \in Nat
      BY DEF EndsAreWindows
    <2> QED BY <1>0, <2>1, <2>2, Config
  <1>4. EndsAreWindows' /\ RanBefore'
    BY DEF EndsAreWindows, RanBefore, Running, Indexed
  <1>5. NoHole'
    BY DEF NoHole, Running, Behind
  <1> QED BY <1>1, <1>2, <1>3, <1>4, <1>5

LEMMA BeginDrainInv ==
    ASSUME IInv, BeginDrain, UNCHANGED mode
    PROVE  IInv'
  <1> USE DEF IInv, BeginDrain, runVars
  <1>1. /\ last' = NoTime \/ \E s \in Slots : Indexed(s) /\ last' = index[s].end
        /\ oldest' \in {0, NoTime}
    BY ResolvedIsEnd DEF ResolveInitialState
  <1>2. last' # NoTime => /\ last' \in Nat /\ last' % Interval = 0 /\ last' - Interval \in Nat
                          /\ last' - Interval \in attempted /\ (last' - Interval) % Interval = 0
    <2> SUFFICES ASSUME last' # NoTime,
                        NEW s \in Slots, Indexed(s), last' = index[s].end
                 PROVE  /\ last' \in Nat /\ last' % Interval = 0 /\ last' - Interval \in Nat
                        /\ last' - Interval \in attempted /\ (last' - Interval) % Interval = 0
      BY <1>1
    <2>1. last' \in Nat /\ last' % Interval = 0 /\ last' - Interval \in attempted
      BY DEF EndsAreWindows
    <2>2. s \in (last' - Interval)..(last' - Interval + Interval - 1) /\ s \in Nat
      BY Config DEF IndexedIsClosed, SlotsOf, Slots
    <2>3. last' > 0
      BY <2>1, <2>2, Config
    <2>4. 0 % Interval = 0
      BY Config
    <2>5. last' >= Interval
      BY <2>1, <2>3, <2>4, Apart, Config
    <2> QED BY <2>1, <2>5, Shift, Config
  <1>3. TypeOK'
    BY <1>1, <1>2, Config DEF TypeOK
  <1>4. JobIsClosed' /\ RanBefore'
    BY DEF JobIsClosed, RanBefore, Running
  <1>5. IndexedIsClosed'
    BY DEF IndexedIsClosed, Indexed
  <1>6. EndsAreWindows'
    BY <1>2 DEF EndsAreWindows, Indexed
  <1>7. NoHole'
    <2> SUFFICES ASSUME mode = "sequential", last' # NoTime PROVE Behind(last') \subseteq attempted
      BY DEF NoHole, Running, Behind
    <2>1. PICK a \in Nat : a = last' - Interval /\ a + Interval = last'
      BY <1>2, Config
    <2>2. Behind(a) \subseteq attempted /\ a \in attempted
      BY <1>2, <2>1 DEF NoHole
    <2>3. Behind(a + Interval) \subseteq Behind(a) \cup {a}
      BY <1>2, <2>1, BehindNext
    <2> QED BY <2>1, <2>2, <2>3
  <1> QED BY <1>3, <1>4, <1>5, <1>6, <1>7

LEMMA RunLivePriorityInv ==
    ASSUME IInv, RunLivePriority, UNCHANGED mode
    PROVE  IInv'
  <1> USE DEF IInv, RunLivePriority, StartRun, drainVars
  <1>0. PICK d \in Nat : /\ d = DecideLivePriorityMode /\ d % Interval = 0
                         /\ d + Interval + Settled <= clock /\ mode # "sequential"
    BY LiveChoice
  <1>1. TypeOK'
    BY <1>0 DEF TypeOK
  <1>2. JobIsClosed' /\ RanBefore'
    BY <1>0 DEF JobIsClosed, RanBefore, Running
  <1>3. IndexedIsClosed' /\ EndsAreWindows'
    BY DEF IndexedIsClosed, EndsAreWindows, Indexed
  <1>4. NoHole'
    BY <1>0 DEF NoHole
  <1> QED BY <1>1, <1>2, <1>3, <1>4

LEMMA NoLivePriorityInv ==
    ASSUME IInv, NoLivePriority, UNCHANGED mode
    PROVE  IInv'
  <1> USE DEF NoLivePriority, drainVars, runVars
  <1>1. CASE LivePriorityOnly
    BY <1>1, StopInv DEF DrainReturns
  <1>2. CASE ~LivePriorityOnly
    <2> USE <1>2 DEF IInv
    <2>1. TypeOK' /\ JobIsClosed' /\ RanBefore'
      BY DEF TypeOK, JobIsClosed, RanBefore, Running
    <2>2. IndexedIsClosed' /\ EndsAreWindows'
      BY DEF IndexedIsClosed, EndsAreWindows, Indexed
    <2>3. NoHole'
      BY DEF NoHole, Running, Behind
    <2> QED BY <2>1, <2>2, <2>3
  <1> QED BY <1>1, <1>2

\* The loop's next window is none that this drain has run.
LEMMA RunNextReadyInv ==
    ASSUME IInv, RunNextReady, UNCHANGED mode
    PROVE  IInv' /\ job'.start \notin ran
  <1> USE DEF IInv, RunNextReady, Ready, StartRun, drainVars
  <1>0. PICK d \in Nat : /\ d = DecideMode /\ d % Interval = 0
                         /\ d + Interval + Settled <= clock
                         /\ last # NoTime => d = last
                         /\ last = NoTime => d = 0
    BY SequentialChoice DEF EndsAreWindows
  <1>a. job' = [by |-> "sequential", start |-> d] /\ ran' = ran \cup {d} /\ d # live
    BY <1>0
  <1>b. \A w \in ran : w \in Nat /\ (w = live \/ w + Interval <= d)
    BY <1>0 DEF RanBefore, TypeOK
  <1>1. TypeOK'
    BY <1>0 DEF TypeOK
  <1>2. JobIsClosed'
    BY <1>0 DEF JobIsClosed, Running
  <1>3. RanBefore'
    BY <1>a, <1>b, Config DEF RanBefore, Running
  <1>4. IndexedIsClosed' /\ EndsAreWindows'
    BY DEF IndexedIsClosed, EndsAreWindows, Indexed
  <1>5. NoHole'
    <2>1. mode = "sequential" => Behind(d) \subseteq attempted
      BY <1>0, BehindZero DEF NoHole
    <2> QED BY <1>a, <2>1 DEF NoHole, Running, Behind
  <1>6. d \notin ran
    BY <1>0, <1>a, <1>b, Config
  <1> QED BY <1>1, <1>2, <1>3, <1>4, <1>5, <1>6, <1>a

\* The loop has done a window, or has met the one that live priority did.
LEMMA AfterSequentialInv ==
    ASSUME IInv, NEW d \in Nat, d % Interval = 0, AfterSequential(d),
           \A w \in ran : w = live \/ w <= d,
           attempted \subseteq attempted', attempted' \subseteq attempted \cup {d},
           mode = "sequential" => d \in attempted' /\ Behind(d) \subseteq attempted,
           UNCHANGED <<mode, clock, index, pending, ran>>,
           job' \in {job, NoJob}, status' \in {status, "none"}
    PROVE  IInv'
  <1> USE DEF IInv, AfterSequential
  <1>0. /\ last' = d + Interval /\ last' \in Nat /\ last' # NoTime /\ last' % Interval = 0
        /\ pc' \in {"down", "sleep", "drain"} /\ now' \in {now, clock} /\ live' = live
        /\ oldest' = NoTime
    BY Shift, Config DEF DrainReturns
  <1> HIDE DEF AfterSequential
  <1>1. TypeOK'
    BY <1>0, Config DEF TypeOK, NoJob
  <1>2. JobIsClosed'
    BY <1>0 DEF JobIsClosed, Running
  <1>3. RanBefore'
    <2>1. \A w \in ran : w = live \/ w + Interval <= d + Interval
      BY Config DEF TypeOK
    <2> QED BY <1>0, <2>1 DEF RanBefore, Running
  <1>4. IndexedIsClosed' /\ EndsAreWindows'
    BY <1>0 DEF IndexedIsClosed, EndsAreWindows, Indexed
  <1>5. NoHole'
    <2> SUFFICES ASSUME mode = "sequential"
                 PROVE  /\ \A w \in attempted' : Behind(w) \subseteq attempted'
                        /\ Behind(d + Interval) \subseteq attempted'
      BY <1>0 DEF NoHole, Running, Behind
    <2>1. Behind(d) \subseteq attempted' /\ d \in attempted'
      OBVIOUS
    <2>2. Behind(d + Interval) \subseteq attempted'
      BY <2>1, BehindNext
    <2>3. \A w \in attempted' : Behind(w) \subseteq attempted'
      BY <2>1 DEF NoHole
    <2> QED BY <2>2, <2>3
  <1> QED BY <1>1, <1>2, <1>3, <1>4, <1>5

LEMMA AfterLiveInv ==
    ASSUME IInv, NEW d \in Nat, d % Interval = 0, AfterLive(d), ran = {d},
           attempted \subseteq attempted', mode # "sequential",
           UNCHANGED <<mode, clock, index, pending, ran>>,
           job' \in {job, NoJob}, status' \in {status, "none"}
    PROVE  IInv'
  <1> USE DEF IInv, AfterLive
  <1>0. /\ last' # NoTime => last' \in Nat /\ last' % Interval = 0
        /\ pc' \in {"down", "sleep", "drain"} /\ now' = clock /\ live' = d
        /\ oldest' = NoTime /\ last' \in Nat \cup {NoTime}
    BY Shift, Config DEF DrainReturns, EndsAreWindows, TypeOK
  <1> HIDE DEF AfterLive
  <1>1. TypeOK'
    BY <1>0, Config DEF TypeOK, NoJob
  <1>2. JobIsClosed'
    BY <1>0 DEF JobIsClosed, Running
  <1>3. RanBefore'
    BY <1>0 DEF RanBefore, Running
  <1>4. IndexedIsClosed' /\ EndsAreWindows'
    BY <1>0 DEF IndexedIsClosed, EndsAreWindows, Indexed
  <1>5. NoHole'
    BY DEF NoHole
  <1> QED BY <1>1, <1>2, <1>3, <1>4, <1>5

LEMMA SkipInv ==
    ASSUME IInv, SkipLivePriorityDuplicate, UNCHANGED mode
    PROVE  IInv'
  <1> USE DEF SkipLivePriorityDuplicate, Ready, runVars
  <1>0. /\ live \in Nat /\ live % Interval = 0 /\ live # NoTime
        /\ last # NoTime => live = last
    BY SequentialChoice DEF IInv, EndsAreWindows
  <1>1. \A w \in ran : w = live \/ w <= live
    BY <1>0, Config DEF IInv, RanBefore, TypeOK
  <1>2. mode # "sequential"
    BY <1>0 DEF IInv, NoHole
  <1> QED BY <1>0, <1>1, <1>2, AfterSequentialInv

\* A run has ended and the drain goes on.
LEMMA ContinueInv ==
    ASSUME IInv, Running, Continue, UNCHANGED <<mode, clock, index, pending, ran>>,
           attempted' = attempted \cup {job.start}
    PROVE  IInv'
  <1> USE DEF Continue
  <1>0. PICK d \in Nat : d = job.start /\ d % Interval = 0
    BY DEF IInv, JobIsClosed
  <1>1. CASE job.by = "live"
    <2>1. ran = {d} /\ mode # "sequential"
      BY <1>0, <1>1 DEF IInv, RanBefore, NoHole
    <2> QED BY <1>0, <1>1, <2>1, AfterLiveInv
  <1>2. CASE job.by # "live"
    <2>1. job.by = "sequential"
      BY <1>2 DEF IInv, JobIsClosed, TypeOK
    <2>2. /\ \A w \in ran : w = live \/ w <= d
          /\ mode = "sequential" => Behind(d) \subseteq attempted
      BY <1>0, <2>1 DEF IInv, RanBefore, NoHole
    <2> QED BY <1>0, <1>2, <2>2, AfterSequentialInv
  <1> QED BY <1>1, <1>2

LEMMA RunBuiltInv ==
    ASSUME IInv, NEW result \in Outcomes, RunBuilt(result), UNCHANGED mode
    PROVE  IInv'
  <1> USE DEF IInv, RunBuilt, drainVars
  <1>0. PICK d \in Nat : /\ d = job.start /\ d + Interval + Settled <= clock
                         /\ pending' = d..(d + Interval - 1) /\ clock \in 0..MaxClock
    BY DEF JobIsClosed, Running, SlotsOf, TypeOK
  <1>1. TypeOK'
    <2>1. pending' \subseteq Slots
      BY <1>0, Config DEF Slots
    <2>2. result \in {"success", "empty"}
      BY Config
    <2> QED BY <2>1, <2>2 DEF TypeOK
  <1>2. JobIsClosed' /\ RanBefore'
    BY DEF JobIsClosed, RanBefore, Running, SlotsOf
  <1>3. IndexedIsClosed' /\ EndsAreWindows'
    BY DEF IndexedIsClosed, EndsAreWindows, Indexed
  <1>4. NoHole'
    <2> SUFFICES ASSUME mode = "sequential"
                 PROVE  /\ \A w \in attempted' : Behind(w) \subseteq attempted'
                        /\ last # NoTime => Behind(last) \subseteq attempted'
                        /\ Behind(job.start) \subseteq attempted'
      BY DEF NoHole, Running, Behind
    <2> QED BY DEF NoHole, Running
  <1> QED BY <1>1, <1>2, <1>3, <1>4

LEMMA PublishPointerInv ==
    ASSUME IInv, NEW s \in Slots, PublishPointer(s), UNCHANGED mode
    PROVE  IInv'
  <1> USE DEF IInv, PublishPointer, drainVars
  <1>0. PICK d \in Nat : /\ d = job.start /\ d % Interval = 0 /\ d \in attempted
                         /\ d + Interval + Settled <= clock /\ clock \in 0..MaxClock
                         /\ s \in d..(d + Interval - 1)
    BY DEF JobIsClosed, EndsAreWindows, Running, SlotsOf, TypeOK
  <1>1. PICK ptr \in [status : {"none", "success", "empty"}, end : Slots \cup {NoTime}] :
           index' = [index EXCEPT ![s] = ptr] /\ ptr.end = d + Interval
    <2>1. d + Interval \in Slots
      BY <1>0, Config DEF Slots
    <2>2. [status |-> status, end |-> d + Interval]
             \in [status : {"none", "success", "empty"}, end : Slots \cup {NoTime}]
      BY <2>1 DEF TypeOK
    <2>3. index' = [index EXCEPT ![s] = [status |-> status, end |-> d + Interval]]
      BY <1>0
    <2> HIDE DEF IInv, PublishPointer
    <2> QED BY <2>2, <2>3
  <1>2. index'[s] = ptr /\ \A t \in Slots : t # s => index'[t] = index[t]
    BY <1>1 DEF TypeOK
  <1>3. TypeOK'
    BY <1>1 DEF TypeOK
  <1>4. JobIsClosed' /\ RanBefore'
    BY DEF JobIsClosed, RanBefore, Running
  <1>5. IndexedIsClosed'
    <2> SUFFICES ASSUME NEW t \in Slots, index'[t] # NoPointer
                 PROVE  t \in SlotsOf(index'[t].end - Interval) /\ clock >= index'[t].end + Settled
      BY DEF IndexedIsClosed, Indexed, SlotsOf
    <2>1. CASE t = s
      <3>1. /\ index'[t].end = d + Interval /\ t \in d..(d + Interval - 1)
            /\ d + Interval + Settled <= clock /\ clock \in Nat
        BY <1>0, <1>1, <1>2, <2>1, Config
      <3> HIDE DEF IInv, PublishPointer
      <3>2. d + Interval - Interval = d
        BY Config
      <3> QED BY <3>1, <3>2, Config DEF SlotsOf
    <2>2. CASE t # s
      BY <1>2, <2>2 DEF IndexedIsClosed, Indexed
    <2> QED BY <2>1, <2>2
  <1>6. EndsAreWindows'
    <2> SUFFICES ASSUME NEW t \in Slots, index'[t] # NoPointer
                 PROVE  /\ index'[t].end \in Nat /\ index'[t].end % Interval = 0
                        /\ index'[t].end - Interval \in attempted
      BY DEF EndsAreWindows, Indexed
    <2>1. CASE t = s
      <3>1. d % Interval = 0 /\ d \in attempted
        BY <1>0
      <3>2. PICK e \in Nat : e = d + Interval /\ e % Interval = 0
        <4> HIDE DEF IInv, PublishPointer
        <4> QED BY <3>1, Shift, Config
      <3>3. e - Interval = d
        BY <3>2, Config
      <3>4. index'[t].end = e
        BY <1>1, <1>2, <2>1, <3>2
      <3> HIDE DEF IInv, PublishPointer
      <3> QED BY <3>1, <3>2, <3>3, <3>4
    <2>2. CASE t # s
      BY <1>2, <2>2 DEF EndsAreWindows, Indexed
    <2> QED BY <2>1, <2>2
  <1>7. NoHole'
    BY DEF NoHole, Running, Behind
  <1> QED BY <1>3, <1>4, <1>5, <1>6, <1>7

LEMMA PublishPointerFailsInv ==
    ASSUME IInv, NEW s \in Slots, PublishPointerFails(s), UNCHANGED mode
    PROVE  IInv'
  <1> USE DEF IInv, PublishPointerFails, drainVars
  <1>1. TypeOK' /\ JobIsClosed' /\ RanBefore'
    BY DEF TypeOK, JobIsClosed, RanBefore, Running
  <1>2. IndexedIsClosed' /\ EndsAreWindows'
    BY DEF IndexedIsClosed, EndsAreWindows, Indexed
  <1>3. NoHole'
    BY DEF NoHole, Running, Behind
  <1> QED BY <1>1, <1>2, <1>3

LEMMA NextInv == IInv /\ [Next]_vars => IInv'
  <1> SUFFICES ASSUME IInv, [Next]_vars PROVE IInv'
    OBVIOUS
  <1>1. CASE UNCHANGED vars
    <2>1. clock \in 0..MaxClock /\ MaxClock \in Nat
      BY Config DEF IInv, TypeOK
    <2>2. clock' \in {clock, clock + 1} /\ clock' <= MaxClock
      BY <1>1, <2>1 DEF vars
    <2> QED BY <1>1, <2>2, TimeInv DEF vars
  <1>2. ASSUME Tick \/ RequestShutdown, UNCHANGED mode PROVE IInv'
    <2>1. clock \in 0..MaxClock /\ MaxClock \in Nat
      BY Config DEF IInv, TypeOK
    <2> QED BY <1>2, <2>1, TimeInv DEF Tick, RequestShutdown, drainVars, runVars
  <1>3. ASSUME DrainStops \/ StopAsleep, UNCHANGED mode PROVE IInv'
    BY <1>3, StopInv DEF DrainStops, StopAsleep, DrainReturns, WorkerExits, drainVars, runVars
  <1>4. ASSUME PublishFails \/ RunFails \/ Crash, UNCHANGED mode PROVE IInv'
    BY <1>4, StopInv DEF PublishFails, RunFails, Crash, WorkerExits, ForgetRun, drainVars
  <1>5. ASSUME RunBlocked \/ RunPublished, UNCHANGED mode PROVE IInv'
    <2>1. CASE RunBlocked
      BY <1>5, <2>1, ContinueInv DEF RunBlocked, Running
    <2>2. CASE RunPublished
      <3>1. attempted' = attempted \cup {job.start}
        BY <2>2 DEF RunPublished, IInv, EndsAreWindows
      <3> QED BY <1>5, <2>2, <3>1, ContinueInv DEF RunPublished, Running
    <2> QED BY <1>5, <2>1, <2>2
  <1>6. ASSUME BeginDrain \/ RunLivePriority \/ NoLivePriority \/ RunNextReady
                  \/ SkipLivePriorityDuplicate, UNCHANGED mode
        PROVE  IInv'
    BY <1>6, BeginDrainInv, RunLivePriorityInv, NoLivePriorityInv, RunNextReadyInv, SkipInv
  <1>7. ASSUME UNCHANGED mode,
               \/ \E result \in Outcomes : RunBuilt(result)
               \/ \E s \in Slots : PublishPointer(s) \/ PublishPointerFails(s)
        PROVE  IInv'
    BY <1>7, RunBuiltInv, PublishPointerInv, PublishPointerFailsInv
  <1> QED BY <1>1, <1>2, <1>3, <1>4, <1>5, <1>6, <1>7 DEF Next, WorkerStep

\* The invariant of drains, runs and pointers holds for ever.
THEOREM WorkerInvariance == Spec => []IInv
  BY InitInv, NextInv, PTL DEF Spec

\* Pointers are only published for windows that have settled, in every mode and
\* for every interval: closed at least the watermark ago, or a whole interval
\* ago when the interval is shorter.
THEOREM OnlyClosedIndexed == Spec => []IndexedIsClosed
  <1>1. IInv => IndexedIsClosed
    BY DEF IInv
  <1> QED BY <1>1, WorkerInvariance, PTL

\* A worker without live priority leaves no hole behind, whatever look-ups,
\* puts and runs fail and however often it is restarted.
THEOREM SequentialLeavesNoHole == Spec => []NoWindowSkipped
  <1>1. IInv => NoWindowSkipped
    BY DEF IInv, NoHole, Running, NoWindowSkipped
  <1> QED BY <1>1, WorkerInvariance, PTL

\* No drain runs a window twice.
THEOREM WindowOncePerDrain == Spec => OneRunPerDrain
  <1>1. IInv /\ [Next]_vars => [pc # "run" /\ pc' = "run" => job'.start \notin ran]_vars
    <2> SUFFICES ASSUME IInv, Next, pc # "run", pc' = "run" PROVE job'.start \notin ran
      OBVIOUS
    <2>1. CASE RunLivePriority
      BY <2>1 DEF RunLivePriority, IInv, RanBefore
    <2>2. CASE RunNextReady
      BY <2>2, RunNextReadyInv DEF Next
    <2>3. ~BeginDrain /\ ~NoLivePriority /\ ~DrainStops /\ ~StopAsleep /\ ~PublishFails
      BY DEF BeginDrain, NoLivePriority, DrainStops, StopAsleep, PublishFails, DrainReturns, WorkerExits
    <2>4. ~SkipLivePriorityDuplicate /\ ~RunBlocked /\ ~RunPublished
      BY DEF SkipLivePriorityDuplicate, RunBlocked, RunPublished, Continue, AfterSequential,
             AfterLive, DrainReturns
    <2>5. /\ \A result \in Outcomes : ~RunBuilt(result)
          /\ \A s \in Slots : ~PublishPointer(s) /\ ~PublishPointerFails(s)
      BY DEF RunBuilt, PublishPointer, PublishPointerFails
    <2>6. ~Tick /\ ~RunFails /\ ~Crash /\ ~RequestShutdown
      BY DEF Tick, RunFails, Crash, RequestShutdown, WorkerExits
    <2> QED BY <2>1, <2>2, <2>3, <2>4, <2>5, <2>6 DEF Next, WorkerStep
  <1> QED BY <1>1, WorkerInvariance, PTL DEF Spec, OneRunPerDrain

-----------------------------------------------------------------------------
(* Live priority *)

\* The newest window that was ready when the drain began.
Newest == AlignFloor(began) - Interval
NewestDone ==
    LivePriority /\ Newest >= 0 /\ began >= AlignFloor(began) + Watermark => Newest \in attempted

\* The live decision sees the clock and the index of the drain's beginning; what
\* comes after it in the drain finds the newest ready window done.
LiveInv ==
    /\ began \in Nat
    /\ pc = "live" => /\ now = began
                      /\ last # NoTime => last <= began /\ last - Interval \in attempted
    /\ pc = "drain" => ~LivePriorityOnly /\ NewestDone
    /\ Running /\ job.by = "sequential" => ~LivePriorityOnly /\ NewestDone
    /\ Running /\ job.by = "live" => job.start = Newest

\* What was done stays done while the drain lasts.
LEMMA NewestStays ==
    ASSUME NewestDone, UNCHANGED <<mode, began>>, attempted \subseteq attempted'
    PROVE  NewestDone'
  BY DEF NewestDone, Newest, LivePriority, AlignFloor

\* A step that keeps the drain's place, or leaves the drain.
LEMMA LiveStays ==
    ASSUME LiveInv, UNCHANGED <<mode, began>>, attempted \subseteq attempted',
           \/ pc' \in {"down", "sleep"}
           \/ UNCHANGED <<pc, now, last, job>>
           \/ pc = "run" /\ pc' = "publish" /\ UNCHANGED job
    PROVE  LiveInv'
  <1>1. NewestDone => NewestDone'
    BY NewestStays
  <1>2. Newest' = Newest
    BY DEF Newest, AlignFloor
  <1> QED BY <1>1, <1>2 DEF LiveInv, LivePriorityOnly, Running

\* The drain takes its clock and looks up the index at the same time.
LEMMA BeginDrainLive ==
    ASSUME IInv, BeginDrain
    PROVE  LiveInv'
  <1> USE DEF IInv, BeginDrain
  <1>0. clock \in Nat
    BY Config DEF TypeOK
  <1>1. last' = NoTime \/ \E s \in Slots : Indexed(s) /\ last' = index[s].end
    BY ResolvedIsEnd DEF ResolveInitialState
  <1>2. last' # NoTime => last' <= clock /\ last' - Interval \in attempted
    <2> SUFFICES ASSUME NEW s \in Slots, Indexed(s), last' = index[s].end
                 PROVE  last' <= clock /\ last' - Interval \in attempted
      BY <1>1
    <2>1. last' \in Nat /\ last' - Interval \in attempted
      BY DEF EndsAreWindows
    <2>2. clock >= last' + Settled
      BY DEF IndexedIsClosed
    <2> QED BY <1>0, <2>1, <2>2, Config
  <1> QED BY <1>0, <1>2 DEF LiveInv, Running

\* The live decision passes only when the newest ready window is done.
LEMMA NoLivePriorityLive ==
    ASSUME IInv, LiveInv, LagThreshold <= Interval, NoLivePriority, UNCHANGED mode
    PROVE  LiveInv'
  <1> USE DEF NoLivePriority, drainVars, runVars
  <1>1. CASE LivePriorityOnly
    BY <1>1, LiveStays DEF DrainReturns
  <1>2. CASE ~LivePriorityOnly
    <2>0. /\ began \in Nat /\ now = began /\ last \in Nat \cup {NoTime}
          /\ last # NoTime => /\ last <= began /\ last - Interval \in attempted
                              /\ last % Interval = 0
      BY DEF IInv, LiveInv, TypeOK, EndsAreWindows
    <2> DEFINE E == AlignFloor(began)
    <2>1. /\ E \in Nat /\ E % Interval = 0 /\ E <= began /\ began < E + Interval /\ ReadyEnd = E
      BY <2>0, FloorFacts DEF ReadyEnd
    <2>2. NewestDone
      <3> SUFFICES ASSUME LivePriority, E - Interval >= 0, began >= E + Watermark
                   PROVE  E - Interval \in attempted
        BY DEF NewestDone, Newest
      <3>1. last # NoTime /\ ~(last < E /\ E - last >= LagThreshold)
        <4>1. E > 0 /\ E - Interval # NoTime
          BY <2>1, Config
        <4> QED BY <2>0, <2>1, <4>1 DEF DecideLivePriorityMode
      <3> HIDE DEF E
      <3>2. ~(last < E)
        <4> SUFFICES ASSUME last < E PROVE FALSE
          OBVIOUS
        <4>1. last + Interval <= E
          BY <2>0, <2>1, <3>1, Apart
        <4> QED BY <2>0, <2>1, <3>1, <4>1, Config, WorkerConfigValid
      <3>3. ~(E < last)
        <4> SUFFICES ASSUME E < last PROVE FALSE
          OBVIOUS
        <4>1. E + Interval <= last
          BY <2>0, <2>1, <3>1, Apart
        <4> QED BY <2>0, <2>1, <3>1, <4>1, Config
      <3>4. last = E
        BY <2>0, <2>1, <3>1, <3>2, <3>3
      <3> QED BY <2>0, <3>1, <3>4
    <2>3. NewestDone'
      BY <2>2, NewestStays
    <2> QED BY <1>2, <2>0, <2>3 DEF LiveInv, LivePriorityOnly, Running
  <1> QED BY <1>1, <1>2

\* The live decision chooses the newest ready window.
LEMMA RunLivePriorityLive ==
    ASSUME IInv, LiveInv, RunLivePriority, UNCHANGED mode
    PROVE  LiveInv'
  <1> USE DEF RunLivePriority, StartRun
  <1>1. began \in Nat /\ now = began
    BY DEF LiveInv
  <1>2. DecideLivePriorityMode = Newest
    <2>1. ReadyEnd = AlignFloor(began)
      BY <1>1, FloorFacts DEF ReadyEnd
    <2> QED BY <2>1 DEF DecideLivePriorityMode, Newest
  <1>3. pc' = "run" /\ job'.by = "live" /\ job'.start = Newest' /\ began' = began
    BY <1>2 DEF Newest, AlignFloor
  <1> QED BY <1>1, <1>3 DEF LiveInv

\* The loop starts its next window.
LEMMA RunNextReadyLive ==
    ASSUME IInv, LiveInv, RunNextReady, UNCHANGED mode
    PROVE  LiveInv'
  <1> USE DEF RunNextReady, Ready, StartRun
  <1>1. NewestDone'
    BY NewestStays DEF LiveInv
  <1> QED BY <1>1 DEF LiveInv, LivePriorityOnly

\* A run, or the duplicate of the live run, is over and the drain goes on.
LEMMA AfterRunLive ==
    ASSUME IInv, LiveInv, UNCHANGED <<mode, began>>,
           attempted \subseteq attempted',
           \/ pc = "drain" /\ AfterSequential(live)
           \/ Running /\ Continue /\ job.start \in attempted'
    PROVE  LiveInv'
  <1>1. CASE pc' \in {"down", "sleep"}
    BY <1>1, LiveStays
  <1>2. CASE pc' \notin {"down", "sleep"}
    <2>1. pc' = "drain"
      BY <1>2 DEF Continue, AfterSequential, AfterLive, DrainReturns
    <2>2. CASE pc = "drain" \/ job.by = "sequential"
      <3>1. NewestDone' /\ ~LivePriorityOnly
        BY <2>2, NewestStays DEF LiveInv, Running
      <3> QED BY <2>1, <3>1 DEF LiveInv, LivePriorityOnly, Running
    <2>3. CASE Running /\ job.by = "live"
      <3>1. /\ ~LivePriorityOnly /\ job.start \in attempted' /\ job.start = Newest
        BY <1>2, <2>3 DEF LiveInv, Running, Continue, AfterLive, DrainReturns
      <3>2. NewestDone'
        BY <3>1 DEF NewestDone, Newest, AlignFloor
      <3> QED BY <2>1, <3>1, <3>2 DEF LiveInv, LivePriorityOnly, Running
    <2>4. Running => job.by \in {"live", "sequential"}
      BY DEF IInv, TypeOK, JobIsClosed
    <2> QED BY <2>2, <2>3, <2>4
  <1> QED BY <1>1, <1>2

LEMMA LiveNext ==
    ASSUME LagThreshold <= Interval
    PROVE  IInv /\ LiveInv /\ [Next]_vars => LiveInv'
  <1> SUFFICES ASSUME IInv, LiveInv, [Next]_vars PROVE LiveInv'
    OBVIOUS
  <1>1. CASE UNCHANGED vars
    BY <1>1, LiveStays DEF vars
  <1>2. ASSUME Tick \/ RequestShutdown, UNCHANGED mode PROVE LiveInv'
    BY <1>2, LiveStays DEF Tick, RequestShutdown, drainVars, runVars
  <1>3. ASSUME DrainStops \/ StopAsleep, UNCHANGED mode PROVE LiveInv'
    BY <1>3, LiveStays DEF DrainStops, StopAsleep, DrainReturns, WorkerExits
  <1>4. ASSUME PublishFails \/ RunFails \/ Crash, UNCHANGED mode PROVE LiveInv'
    BY <1>4, LiveStays DEF PublishFails, RunFails, Crash, WorkerExits
  <1>5. ASSUME RunBlocked \/ RunPublished, UNCHANGED mode PROVE LiveInv'
    <2>1. RunPublished => job.start \in attempted
      BY DEF RunPublished, IInv, EndsAreWindows
    <2> QED BY <1>5, <2>1, AfterRunLive DEF RunBlocked, RunPublished, Running
  <1>6. ASSUME SkipLivePriorityDuplicate, UNCHANGED mode PROVE LiveInv'
    BY <1>6, AfterRunLive DEF SkipLivePriorityDuplicate, Ready
  <1>7. ASSUME BeginDrain \/ RunLivePriority \/ NoLivePriority \/ RunNextReady, UNCHANGED mode
        PROVE  LiveInv'
    BY <1>7, BeginDrainLive, RunLivePriorityLive, NoLivePriorityLive, RunNextReadyLive
  <1>8. ASSUME UNCHANGED mode,
               \/ \E result \in Outcomes : RunBuilt(result)
               \/ \E s \in Slots : PublishPointer(s) \/ PublishPointerFails(s)
        PROVE  LiveInv'
    BY <1>8, LiveStays DEF RunBuilt, PublishPointer, PublishPointerFails, drainVars
  <1> QED BY <1>1, <1>2, <1>3, <1>4, <1>5, <1>6, <1>7, <1>8 DEF Next, WorkerStep

\* With live priority and a lag threshold of at most one window, the newest
\* window that is ready when a drain begins is run before anything older, and
\* a live-priority-only worker runs nothing else.  The command line accepts a
\* larger threshold; then a lag below it is left to the sequential loop.
THEOREM NewestReadyFirst ==
    ASSUME LagThreshold <= Interval
    PROVE  Spec => []LiveFirst
  <1>1. Init => LiveInv
    BY DEF Init, LiveInv, Running
  <1>2. IInv /\ LiveInv => LiveFirst
    <2> SUFFICES ASSUME IInv, LiveInv PROVE LiveFirst
      OBVIOUS
    <2>1. pc = "run" => Running /\ job.by \in {"live", "sequential"}
      BY DEF IInv, TypeOK, JobIsClosed, Running
    <2> QED BY <2>1 DEF LiveInv, LiveFirst, Newest, NewestDone
  <1> QED BY <1>1, <1>2, LiveNext, WorkerInvariance, PTL DEF Spec
=============================================================================

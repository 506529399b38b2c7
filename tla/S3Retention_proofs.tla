------------------------- MODULE S3Retention_proofs -------------------------
(***************************************************************************)
(* What retention may delete, for any number of loops, runs, slots and     *)
(* artifacts and any times that satisfy RetentionConfigValid.  A plan goes *)
(* stale between the listing and the deletion.  The argument: the key of   *)
(* an artifact is not written again, because its run wrote it already; the *)
(* key of a pointer or a rollup is in a plan because a run of the          *)
(* retention ago wrote it, and if it is young when it is deleted then      *)
(* another run wrote it since the listing.                                 *)
(***************************************************************************)
EXTENDS S3Retention, TLAPS

RunRecord == [slot : Slots \cup {0}, began : Nat, empty : BOOLEAN,
              uploaded : SUBSET Artifacts, rolled : BOOLEAN]
PassRecord == [prefix : Nat, now : Nat, plan : SUBSET Key]

TypeOK ==
    /\ clock \in Nat
    /\ modified \in [Key -> Nat]
    /\ names \in [Slots -> Run \cup {NoRun}]
    /\ run \in [Run -> RunRecord]
    /\ pass \in [Retainers -> PassRecord]
    /\ faults \in Nat

Shared == {Pointer(s) : s \in Slots} \cup {Rollup(d) : d \in Days}

\* A run that has not begun has written nothing.
RunsBegin ==
    \A r \in Run :
        /\ run[r].began <= clock
        /\ run[r].began = 0 => run[r].uploaded = {} /\ ~run[r].rolled
        /\ run[r].began # 0 => run[r].slot \in Slots

\* An artifact is not older than its run, and one that is gone was expired.
ArtifactsAge ==
    \A r \in Run : \A f \in Artifacts :
        /\ modified[Artifact(r, f)] # 0 =>
              f \in run[r].uploaded /\ run[r].began <= modified[Artifact(r, f)]
        /\ f \in run[r].uploaded /\ modified[Artifact(r, f)] = 0 =>
              run[r].began + Retention <= clock

\* A pointer names a run that has written everything, put within its time.
PointersAge ==
    \A s \in Slots : modified[Pointer(s)] # 0 =>
        /\ names[s] \in Run /\ run[names[s]].began # 0 /\ run[names[s]].slot = s
        /\ run[names[s]].uploaded = Outputs(names[s])
        /\ run[names[s]].empty \/ run[names[s]].rolled
        /\ modified[Pointer(s)] <= run[names[s]].began + RunTime

\* A pointer or a rollup was written by a run in its time.
SharedAge ==
    \A k \in Shared : modified[k] # 0 =>
        \E r \in Run : /\ run[r].began # 0 /\ k \in SharedKeys(r)
                       /\ run[r].began <= modified[k] /\ modified[k] <= run[r].began + RunTime

\* A rollup is not older than a run that put it, or gone with an old day.
RollupsAge ==
    \A r \in Run : run[r].rolled =>
        LET d == Day(run[r].slot)
        IN  IF modified[Rollup(d)] = 0 THEN DayIsOld(d) ELSE run[r].began <= modified[Rollup(d)]

\* A planned artifact is expired and its key is not written again.
PlannedArtifacts ==
    \A o \in Retainers : \A r \in Run : \A f \in Artifacts :
        Artifact(r, f) \in pass[o].plan =>
            /\ f \in run[r].uploaded
            /\ modified[Artifact(r, f)] # 0 => modified[Artifact(r, f)] + Retention <= clock

\* A run wrote the key the retention before the given time.
OldWriter(k, now) ==
    \E q \in Run : run[q].began # 0 /\ k \in SharedKeys(q) /\ run[q].began + Retention <= now

\* A planned pointer or rollup was expired when the pass began, and has not
\* been written since then unless after that.
PlannedShared ==
    \A o \in Retainers :
        /\ pass[o].now <= clock
        /\ \A k \in Shared : k \in pass[o].plan =>
              /\ OldWriter(k, pass[o].now)
              /\ \/ modified[k] = 0
                 \/ modified[k] + Retention <= pass[o].now
                 \/ pass[o].now <= modified[k]

IInv ==
    /\ TypeOK /\ RunsBegin /\ ArtifactsAge /\ PointersAge /\ SharedAge /\ RollupsAge
    /\ PlannedArtifacts /\ PlannedShared

\* Keys of artifacts, pointers and rollups are keys, and are told apart.
LEMMA KeysApart ==
    /\ \A r \in Run : \A f \in Artifacts : Artifact(r, f) \in Key
    /\ Shared \subseteq Key
    /\ \A s \in Slots : Pointer(s) \in Shared /\ Rollup(Day(s)) \in Shared
    /\ \A r \in Run : \A f \in Artifacts : Artifact(r, f) \notin Shared
    /\ \A k \in Key : k \in Shared \/ \E r \in Run : \E f \in Artifacts : k = Artifact(r, f)
  <1>1. \A r \in Run : \A f \in Artifacts : Artifact(r, f) \in Key
    BY DEF Key, Artifact
  <1>2. Shared \subseteq Key
    BY DEF Key, Shared
  <1>3. \A s \in Slots : Pointer(s) \in Shared /\ Rollup(Day(s)) \in Shared
    BY DEF Shared, Days
  <1>4. ASSUME NEW r \in Run, NEW f \in Artifacts, Artifact(r, f) \in Shared PROVE FALSE
    <2>1. ASSUME NEW s \in Slots, Artifact(r, f) = Pointer(s) PROVE FALSE
      BY <2>1, RetentionConfigValid DEF Artifact, Pointer
    <2>2. ASSUME NEW d \in Days, Artifact(r, f) = Rollup(d) PROVE FALSE
      BY <2>2 DEF Artifact, Rollup
    <2> QED BY <1>4, <2>1, <2>2 DEF Shared
  <1>5. \A k \in Key : k \in Shared \/ \E r \in Run : \E f \in Artifacts : k = Artifact(r, f)
    BY DEF Key, Shared, Artifact
  <1> QED BY <1>1, <1>2, <1>3, <1>4, <1>5

\* A key says what it is of.
LEMMA KeysNamed ==
    /\ \A s, t \in Slots : Pointer(s) = Pointer(t) => s = t
    /\ \A d, e : Rollup(d) = Rollup(e) => d = e
    /\ \A s, d : Pointer(s) # Rollup(d)
    /\ \A r, q \in Run : \A f, g \in Artifacts : Artifact(r, f) = Artifact(q, g) => f = g /\ r = q
  BY DEF Artifact, Pointer, Rollup, POINTERS, SNAPSHOTS

\* The empty bucket satisfies the invariant.
LEMMA InitInv == Init => IInv
  <1> SUFFICES ASSUME Init PROVE IInv
    OBVIOUS
  <1> USE RetentionConfigValid, KeysApart DEF Init, Idle, NotYet
  <1>1. TypeOK
    BY DEF TypeOK, RunRecord, PassRecord
  <1>2. RunsBegin /\ ArtifactsAge /\ RollupsAge
    BY DEF RunsBegin, ArtifactsAge, RollupsAge
  <1>3. PointersAge /\ SharedAge
    BY DEF PointersAge, SharedAge
  <1>4. PlannedArtifacts /\ PlannedShared
    BY DEF PlannedArtifacts, PlannedShared
  <1> QED BY <1>1, <1>2, <1>3, <1>4 DEF IInv

\* A run that has begun keeps its time and its slot.
RunsKept ==
    \A q \in Run : run[q].began # 0 => run'[q].began = run[q].began /\ run'[q].slot = run[q].slot

\* The runs that wrote a key long ago stay its writers.
LEMMA WritersStay ==
    ASSUME RunsKept
    PROVE  /\ \A k, now : OldWriter(k, now) => OldWriter(k, now)'
           /\ \A q \in Run : run[q].began # 0 => SharedKeys(q)' = SharedKeys(q)
  BY DEF RunsKept, OldWriter, SharedKeys

\* The day of a run that began long ago stays old.
LEMMA OldDaysStay ==
    ASSUME RunsKept, TypeOK, TypeOK', clock <= clock', NEW d, DayIsOld(d)
    PROVE  DayIsOld(d)'
  <1>1. PICK q \in Run : /\ run[q].began # 0 /\ Day(run[q].slot) = d
                         /\ run[q].began + Retention <= clock
    BY DEF DayIsOld
  <1>2. run'[q].began = run[q].began /\ run'[q].slot = run[q].slot
    BY <1>1 DEF RunsKept
  <1>3. run[q].began \in Nat /\ clock \in Nat /\ clock' \in Nat
    BY DEF TypeOK, RunRecord
  <1>4. run[q].began + Retention <= clock'
    BY <1>1, <1>3, RetentionConfigValid
  <1> QED BY <1>1, <1>2, <1>4 DEF DayIsOld

\* A step that writes no pointer and no rollup leaves their writers known.
LEMMA SharedStays ==
    ASSUME SharedAge, RunsKept, \A k \in Shared : modified'[k] # 0 => modified'[k] = modified[k]
    PROVE  SharedAge'
  <1> SUFFICES ASSUME NEW k \in Shared, modified'[k] # 0
               PROVE  \E r \in Run : /\ run'[r].began # 0 /\ k \in SharedKeys(r)'
                                     /\ run'[r].began <= modified'[k]
                                     /\ modified'[k] <= run'[r].began + RunTime
    BY DEF SharedAge, Shared, Pointer, Rollup
  <1>1. PICK r \in Run : /\ run[r].began # 0 /\ k \in SharedKeys(r)
                         /\ run[r].began <= modified[k] /\ modified[k] <= run[r].began + RunTime
    BY DEF SharedAge
  <1>2. run'[r].began = run[r].began /\ SharedKeys(r)' = SharedKeys(r) /\ modified'[k] = modified[k]
    BY <1>1, WritersStay DEF RunsKept
  <1> QED BY <1>1, <1>2

\* A plan that only shrinks stays a plan for pointers and rollups that are
\* deleted or put now.
LEMMA PlansStay ==
    ASSUME TypeOK, TypeOK', PlannedShared, RunsKept, clock <= clock',
           \A k \in Shared : modified'[k] \in {0, modified[k], clock},
           \A o \in Retainers : /\ pass'[o].plan \subseteq pass[o].plan
                                /\ pass'[o].now = pass[o].now \/ (pass'[o].plan = {} /\ pass'[o].now <= clock)
    PROVE  PlannedShared'
  <1> SUFFICES ASSUME NEW o \in Retainers
               PROVE  /\ pass'[o].now <= clock'
                      /\ \A k \in Shared : k \in pass'[o].plan =>
                            /\ OldWriter(k, pass[o].now)'
                            /\ \/ modified'[k] = 0
                               \/ modified'[k] + Retention <= pass'[o].now
                               \/ pass'[o].now <= modified'[k]
    BY DEF PlannedShared, Shared, Pointer, Rollup
  <1>1. /\ pass[o].now \in Nat /\ pass'[o].now \in Nat /\ clock \in Nat /\ clock' \in Nat
        /\ pass[o].now <= clock
    BY DEF TypeOK, PassRecord, PlannedShared
  <1>2. pass'[o].now <= clock'
    BY <1>1
  <1>3. ASSUME NEW k \in Shared, k \in pass'[o].plan
        PROVE  /\ OldWriter(k, pass[o].now)'
               /\ \/ modified'[k] = 0
                  \/ modified'[k] + Retention <= pass'[o].now
                  \/ pass'[o].now <= modified'[k]
    <2>1. /\ k \in pass[o].plan /\ pass'[o].now = pass[o].now
          /\ OldWriter(k, pass[o].now)
          /\ \/ modified[k] = 0
             \/ modified[k] + Retention <= pass[o].now
             \/ pass[o].now <= modified[k]
      BY <1>3 DEF PlannedShared
    <2>2. OldWriter(k, pass[o].now)'
      BY <2>1 DEF OldWriter, RunsKept, SharedKeys
    <2>3. modified'[k] \in {0, modified[k], clock}
      BY <1>3
    <2> QED BY <1>1, <2>1, <2>2, <2>3
  <1> QED BY <1>2, <1>3

\* A step of no loop that writes no pointer and no rollup.
LEMMA SharedUntouched ==
    ASSUME IInv, TypeOK', RunsKept, clock <= clock', pass' = pass,
           \A k \in Shared : modified'[k] = modified[k]
    PROVE  SharedAge' /\ PlannedShared'
  <1>1. SharedAge'
    BY SharedStays DEF IInv
  <1>2. \A o \in Retainers : pass[o].now \in Nat /\ pass[o].now <= clock
    BY DEF IInv, TypeOK, PassRecord, PlannedShared
  <1>3. PlannedShared'
    BY <1>2, PlansStay DEF IInv
  <1> QED BY <1>1, <1>3

\* Time passes: what was expired stays expired.
LEMMA TickInv ==
    ASSUME IInv, Tick PROVE IInv'
  <1> USE RetentionConfigValid, KeysApart DEF IInv, Tick
  <1>1. clock \in Nat /\ clock' \in Nat /\ clock <= clock' /\ TypeOK' /\ RunsKept
    BY DEF TypeOK, RunsKept
  <1>a. RunsBegin'
    <2>1. \A r \in Run : run[r].began \in Nat
      BY DEF TypeOK, RunRecord
    <2> QED BY <1>1, <2>1 DEF RunsBegin
  <1>2. ArtifactsAge'
    BY DEF TypeOK, RunRecord, ArtifactsAge
  <1>3. PointersAge'
    BY DEF PointersAge, Outputs
  <1>4. SharedAge' /\ PlannedShared'
    BY <1>1, SharedUntouched
  <1>5. RollupsAge'
    BY <1>1, OldDaysStay DEF RollupsAge
  <1>6. PlannedArtifacts'
    BY <1>1 DEF TypeOK, PlannedArtifacts
  <1> QED BY <1>1, <1>a, <1>2, <1>3, <1>4, <1>5, <1>6

\* A run that begins has written nothing yet.
LEMMA BeginRunInv ==
    ASSUME IInv, NEW r \in Run, NEW s \in Slots, NEW empty \in BOOLEAN, BeginRun(r, s, empty)
    PROVE  IInv'
  <1> USE RetentionConfigValid, KeysApart DEF IInv
  <1>0. /\ run'[r] = [slot |-> s, began |-> clock, empty |-> empty, uploaded |-> {}, rolled |-> FALSE]
        /\ \A q \in Run : q # r => run'[q] = run[q]
        /\ run[r].began = 0 /\ run[r].uploaded = {} /\ ~run[r].rolled /\ s \in Nat /\ clock \in Nat
        /\ UNCHANGED <<clock, modified, names, pass, faults>>
    BY DEF TypeOK, RunsBegin, BeginRun
  <1>1. TypeOK'
    <2>1. run' \in [Run -> RunRecord]
      BY DEF BeginRun, TypeOK, RunRecord
    <2> QED BY <1>0, <2>1 DEF TypeOK
  <1>2. RunsBegin' /\ RunsKept
    BY <1>0 DEF RunsBegin, RunsKept
  <1>3. ArtifactsAge'
    <2> SUFFICES ASSUME NEW q \in Run, NEW f \in Artifacts PROVE ArtifactsAge!(q)!(f)'
      BY DEF ArtifactsAge
    <2>1. ArtifactsAge!(q)!(f)
      BY DEF ArtifactsAge
    <2> HIDE DEF IInv
    <2> QED BY <1>0, <2>1 DEF Artifact
  <1>4. PointersAge'
    <2> SUFFICES ASSUME NEW t \in Slots, modified'[Pointer(t)] # 0 PROVE PointersAge!(t)!2'
      BY DEF PointersAge
    <2>1. PointersAge!(t)!2 /\ names' = names /\ modified' = modified
      BY <1>0 DEF PointersAge
    <2>2. names[t] # r /\ names[t] \in Run
      BY <1>0, <2>1
    <2>3. run'[names[t]] = run[names[t]]
      BY <1>0, <2>2
    <2> HIDE DEF IInv
    <2> QED BY <2>1, <2>3 DEF Pointer, Outputs
  <1>5. SharedAge' /\ PlannedShared'
    BY <1>0, <1>1, <1>2, SharedUntouched
  <1>6. RollupsAge'
    BY <1>0, <1>1, <1>2, OldDaysStay DEF RollupsAge
  <1>7. PlannedArtifacts'
    BY <1>0 DEF PlannedArtifacts
  <1> QED BY <1>1, <1>2, <1>3, <1>4, <1>5, <1>6, <1>7

\* An artifact is written once, so its key is in no plan yet.
LEMMA UploadArtifactInv ==
    ASSUME IInv, NEW r \in Run, NEW f \in Artifacts, UploadArtifact(r, f)
    PROVE  IInv'
  <1> USE RetentionConfigValid, KeysApart DEF IInv
  <1>0. /\ f \notin run[r].uploaded /\ f \in Outputs(r)
        /\ run[r].began # 0 /\ clock \in Nat
        /\ modified' = [modified EXCEPT ![Artifact(r, f)] = clock]
        /\ run' = [run EXCEPT ![r] = [run[r] EXCEPT !.uploaded = run[r].uploaded \cup {f}]]
        /\ UNCHANGED <<clock, names, pass, faults>>
    BY DEF UploadArtifact, InTime, TypeOK
  <1>a. /\ modified'[Artifact(r, f)] = clock
        /\ \A k \in Key : k # Artifact(r, f) => modified'[k] = modified[k]
    BY <1>0 DEF TypeOK
  <1>b. /\ run'[r].uploaded = run[r].uploaded \cup {f}
        /\ \A q \in Run : /\ run'[q].slot = run[q].slot /\ run'[q].began = run[q].began
                          /\ run'[q].empty = run[q].empty /\ run'[q].rolled = run[q].rolled
                          /\ q # r => run'[q].uploaded = run[q].uploaded
    BY <1>0 DEF TypeOK, RunRecord
  <1>1. TypeOK'
    <2>1. modified' \in [Key -> Nat]
      BY <1>0 DEF TypeOK
    <2>2. [run[r] EXCEPT !.uploaded = run[r].uploaded \cup {f}] \in RunRecord
      BY DEF TypeOK, RunRecord
    <2>3. run' \in [Run -> RunRecord]
      BY <1>0, <2>2 DEF TypeOK
    <2> QED BY <1>0, <2>1, <2>3 DEF TypeOK
  <1>2. RunsBegin' /\ RunsKept
    <2> HIDE KeysApart
    <2>1. RunsKept
      BY <1>b DEF RunsKept
    <2>2. RunsBegin'
      BY <1>0, <1>b DEF RunsBegin
    <2> QED BY <2>1, <2>2
  <1>3. ArtifactsAge'
    <2> SUFFICES ASSUME NEW q \in Run, NEW g \in Artifacts PROVE ArtifactsAge!(q)!(g)'
      BY DEF ArtifactsAge
    <2>1. /\ ArtifactsAge!(q)!(g) /\ run[r].began <= clock /\ run[r].began \in Nat
          /\ Artifact(q, g)' = Artifact(q, g)
      BY DEF ArtifactsAge, RunsBegin, TypeOK, RunRecord, Artifact
    <2>2. CASE q = r /\ g = f
      <3>1. modified'[Artifact(q, g)] = clock /\ clock # 0
        BY <1>0, <1>a, <2>1, <2>2
      <3> HIDE DEF IInv
      <3> QED BY <1>0, <1>b, <2>1, <2>2, <3>1 DEF Artifact
    <2>3. CASE ~(q = r /\ g = f)
      <3>1. modified'[Artifact(q, g)] = modified[Artifact(q, g)]
        BY <1>a, <2>3, KeysNamed
      <3>2. g \in run'[q].uploaded <=> g \in run[q].uploaded
        BY <1>b, <2>3
      <3> HIDE DEF IInv
      <3> QED BY <1>0, <1>b, <2>1, <3>1, <3>2 DEF Artifact
    <2> QED BY <2>2, <2>3
  <1>c. \A k \in Shared : modified'[k] = modified[k]
    BY <1>a
  <1>4. PointersAge'
    <2> SUFFICES ASSUME NEW s \in Slots, modified'[Pointer(s)] # 0 PROVE PointersAge!(s)!2'
      BY DEF PointersAge
    <2>1. modified'[Pointer(s)] = modified[Pointer(s)] /\ names' = names
      BY <1>0, <1>c
    <2>2. /\ PointersAge!(s)!2 /\ names[s] \in Run
      BY <2>1 DEF PointersAge
    <2>3. names[s] # r
      BY <1>0, <2>2
    <2>4. run'[names[s]].uploaded = run[names[s]].uploaded /\ Outputs(names[s])' = Outputs(names[s])
      BY <1>0, <1>b, <2>2, <2>3 DEF Outputs
    <2> HIDE DEF IInv
    <2> QED BY <1>b, <2>1, <2>2, <2>4 DEF Pointer, Outputs
  <1>5. SharedAge' /\ PlannedShared'
    BY <1>0, <1>1, <1>2, <1>c, SharedUntouched
  <1>6. RollupsAge'
    <2> SUFFICES ASSUME NEW q \in Run, run'[q].rolled PROVE RollupsAge!(q)!2'
      BY DEF RollupsAge
    <2>1. run[q].rolled /\ run[q].slot \in Slots /\ run'[q].slot = run[q].slot /\ run'[q].began = run[q].began
      BY <1>b DEF RunsBegin
    <2>2. modified'[Rollup(Day(run[q].slot))] = modified[Rollup(Day(run[q].slot))]
      BY <1>c, <2>1
    <2> QED BY <1>0, <1>1, <1>2, <2>1, <2>2, OldDaysStay DEF RollupsAge
  <1>7. PlannedArtifacts'
    <2> SUFFICES ASSUME NEW o \in Retainers, NEW q \in Run, NEW g \in Artifacts,
                        Artifact(q, g) \in pass'[o].plan
                 PROVE  /\ g \in run'[q].uploaded
                        /\ modified'[Artifact(q, g)] # 0 => modified'[Artifact(q, g)] + Retention <= clock'
      BY DEF PlannedArtifacts, Artifact
    <2>1. /\ g \in run[q].uploaded
          /\ modified[Artifact(q, g)] # 0 => modified[Artifact(q, g)] + Retention <= clock
      BY <1>0 DEF PlannedArtifacts
    <2>2. Artifact(q, g) # Artifact(r, f)
      BY <1>0, <2>1, KeysNamed
    <2> QED BY <1>0, <1>a, <1>b, <2>1, <2>2
  <1> QED BY <1>1, <1>2, <1>3, <1>4, <1>5, <1>6, <1>7

\* A pointer or a rollup that is put now has its run as a writer in time.
LEMMA SharedPut ==
    ASSUME IInv, TypeOK', RunsKept, UNCHANGED <<clock, pass>>, NEW r \in Run, NEW k \in Shared,
           InTime(r), k \in SharedKeys(r),
           modified'[k] = clock, \A l \in Key : l # k => modified'[l] = modified[l]
    PROVE  SharedAge' /\ PlannedShared'
  <1> USE KeysApart
  <1>1. /\ run[r].began \in Nat /\ clock \in Nat /\ run[r].began # 0
        /\ run[r].began <= clock /\ clock <= run[r].began + RunTime
    BY DEF IInv, TypeOK, RunRecord, RunsBegin, InTime
  <1>2. SharedAge'
    <2> SUFFICES ASSUME NEW l \in Shared, modified'[l] # 0
                 PROVE  \E q \in Run : /\ run'[q].began # 0 /\ l \in SharedKeys(q)'
                                       /\ run'[q].began <= modified'[l]
                                       /\ modified'[l] <= run'[q].began + RunTime
      BY DEF SharedAge, Shared, Pointer, Rollup
    <2>1. CASE l = k
      <3>1. run'[r].began = run[r].began /\ SharedKeys(r)' = SharedKeys(r)
        BY <1>1, WritersStay DEF RunsKept
      <3> QED BY <1>1, <2>1, <3>1
    <2>2. CASE l # k
      <3>1. modified'[l] = modified[l]
        BY <2>2
      <3>2. PICK q \in Run : /\ run[q].began # 0 /\ l \in SharedKeys(q)
                             /\ run[q].began <= modified[l] /\ modified[l] <= run[q].began + RunTime
        BY <3>1 DEF IInv, SharedAge
      <3>3. run'[q].began = run[q].began /\ SharedKeys(q)' = SharedKeys(q)
        BY <3>2, WritersStay DEF RunsKept
      <3> QED BY <3>1, <3>2, <3>3
    <2> QED BY <2>1, <2>2
  <1>3. PlannedShared'
    <2>1. \A l \in Shared : modified'[l] \in {0, modified[l], clock}
      OBVIOUS
    <2>2. \A o \in Retainers :
             /\ pass'[o].plan \subseteq pass[o].plan
             /\ pass'[o].now = pass[o].now \/ (pass'[o].plan = {} /\ pass'[o].now <= clock)
      OBVIOUS
    <2>3. TypeOK /\ PlannedShared /\ clock <= clock'
      BY <1>1 DEF IInv
    <2> QED BY <2>1, <2>2, <2>3, PlansStay, Zenon
  <1> QED BY <1>2, <1>3

\* A rollup that is put is not older than any run of its day.
LEMMA PutRollupInv ==
    ASSUME IInv, NEW r \in Run, PutRollup(r)
    PROVE  IInv'
  <1> USE RetentionConfigValid, KeysApart DEF IInv
  <1> DEFINE k == Rollup(Day(run[r].slot))
  <1>0. /\ run[r].began # 0 /\ ~run[r].empty /\ ~run[r].rolled /\ clock \in Nat
        /\ run[r].slot \in Slots /\ InTime(r)
        /\ modified' = [modified EXCEPT ![k] = clock]
        /\ run' = [run EXCEPT ![r] = [run[r] EXCEPT !.rolled = TRUE]]
        /\ UNCHANGED <<clock, names, pass, faults>>
    BY DEF PutRollup, InTime, TypeOK, RunsBegin
  <1>a. k \in Shared /\ k \in Key /\ k \in SharedKeys(r)
    BY <1>0 DEF SharedKeys
  <1>b. modified'[k] = clock /\ \A l \in Key : l # k => modified'[l] = modified[l]
    BY <1>0, <1>a DEF TypeOK
  <1>c. /\ run'[r].rolled
        /\ \A q \in Run : /\ run'[q].slot = run[q].slot /\ run'[q].began = run[q].began
                          /\ run'[q].empty = run[q].empty /\ run'[q].uploaded = run[q].uploaded
                          /\ q # r => run'[q] = run[q]
    BY <1>0 DEF TypeOK, RunRecord
  <1>1. TypeOK'
    <2>1. modified' \in [Key -> Nat]
      BY <1>0 DEF TypeOK
    <2>2. [run[r] EXCEPT !.rolled = TRUE] \in RunRecord
      BY DEF TypeOK, RunRecord
    <2>3. run' \in [Run -> RunRecord]
      BY <1>0, <2>2 DEF TypeOK
    <2> QED BY <1>0, <2>1, <2>3 DEF TypeOK
  <1>2. RunsBegin' /\ RunsKept
    BY <1>0, <1>c DEF RunsBegin, RunsKept
  <1>d. \A q \in Run : \A f \in Artifacts : modified'[Artifact(q, f)] = modified[Artifact(q, f)]
    BY <1>a, <1>b
  <1>3. ArtifactsAge'
    <2> SUFFICES ASSUME NEW q \in Run, NEW g \in Artifacts PROVE ArtifactsAge!(q)!(g)'
      BY DEF ArtifactsAge
    <2>1. ArtifactsAge!(q)!(g) /\ Artifact(q, g)' = Artifact(q, g)
      BY DEF ArtifactsAge, Artifact
    <2> HIDE DEF IInv
    <2> QED BY <1>0, <1>c, <1>d, <2>1 DEF Artifact
  <1>4. PointersAge'
    <2> SUFFICES ASSUME NEW s \in Slots, modified'[Pointer(s)] # 0 PROVE PointersAge!(s)!2'
      BY DEF PointersAge
    <2>1. modified'[Pointer(s)] = modified[Pointer(s)] /\ names' = names
      BY <1>0, <1>b, KeysNamed
    <2>2. PointersAge!(s)!2 /\ names[s] \in Run
      BY <2>1 DEF PointersAge
    <2>3. names[s] # r
      BY <1>0, <2>2
    <2>4. run'[names[s]] = run[names[s]]
      BY <1>c, <2>2, <2>3
    <2> HIDE DEF IInv
    <2> QED BY <2>1, <2>2, <2>4 DEF Pointer, Outputs
  <1>5. SharedAge' /\ PlannedShared'
    <2> HIDE DEF k
    <2> QED BY <1>0, <1>1, <1>2, <1>a, <1>b, SharedPut
  <1>6. RollupsAge'
    <2> SUFFICES ASSUME NEW q \in Run, run'[q].rolled PROVE RollupsAge!(q)!2'
      BY DEF RollupsAge
    <2>1. /\ run'[q].slot = run[q].slot /\ run'[q].began = run[q].began
          /\ run[q].began <= clock /\ run[q].began \in Nat
          /\ run[r].began <= clock /\ run[r].began \in Nat /\ clock # 0
      BY <1>0, <1>c DEF RunsBegin, TypeOK, RunRecord
    <2>2. CASE Day(run[q].slot) = Day(run[r].slot)
      BY <1>b, <2>1, <2>2 DEF Rollup
    <2>3. CASE Day(run[q].slot) # Day(run[r].slot)
      <3>1. q # r /\ run[q].rolled /\ run[q].slot \in Slots
        BY <1>c, <2>3 DEF RunsBegin
      <3>2. modified'[Rollup(Day(run[q].slot))] = modified[Rollup(Day(run[q].slot))]
        BY <1>b, <2>3, <3>1, KeysNamed
      <3> QED BY <1>0, <1>1, <1>2, <2>1, <3>1, <3>2, OldDaysStay DEF RollupsAge
    <2> QED BY <2>2, <2>3
  <1>7. PlannedArtifacts'
    <2> HIDE DEF k
    <2> QED BY <1>0, <1>c, <1>d DEF PlannedArtifacts, Artifact
  <1> QED BY <1>1, <1>2, <1>3, <1>4, <1>5, <1>6, <1>7

\* A pointer is put by a run that has written everything, in its time.
LEMMA PutPointerInv ==
    ASSUME IInv, NEW r \in Run, PutPointer(r)
    PROVE  IInv'
  <1> USE RetentionConfigValid, KeysApart DEF IInv
  <1> DEFINE s == run[r].slot
             k == Pointer(s)
  <1>0. /\ run[r].began # 0 /\ clock \in Nat /\ s \in Slots /\ InTime(r)
        /\ run[r].uploaded = Outputs(r) /\ (run[r].empty \/ run[r].rolled)
        /\ clock <= run[r].began + RunTime
        /\ modified' = [modified EXCEPT ![k] = clock]
        /\ names' = [names EXCEPT ![s] = r]
        /\ UNCHANGED <<clock, run, pass, faults>>
    BY DEF PutPointer, InTime, TypeOK, RunsBegin
  <1>a. k \in Shared /\ k \in Key /\ k \in SharedKeys(r)
    BY <1>0 DEF SharedKeys
  <1>b. modified'[k] = clock /\ \A l \in Key : l # k => modified'[l] = modified[l]
    BY <1>0, <1>a DEF TypeOK
  <1>c. names'[s] = r /\ \A t \in Slots : t # s => names'[t] = names[t]
    BY <1>0 DEF TypeOK
  <1>1. TypeOK'
    <2>1. modified' \in [Key -> Nat]
      BY <1>0 DEF TypeOK
    <2>2. names' \in [Slots -> Run \cup {NoRun}]
      BY <1>0 DEF TypeOK
    <2> QED BY <1>0, <2>1, <2>2 DEF TypeOK
  <1>2. RunsBegin' /\ RunsKept
    BY <1>0 DEF RunsBegin, RunsKept
  <1>d. \A q \in Run : \A f \in Artifacts : modified'[Artifact(q, f)] = modified[Artifact(q, f)]
    BY <1>a, <1>b
  <1>3. ArtifactsAge'
    <2> HIDE DEF s, k
    <2> QED BY <1>0, <1>d DEF ArtifactsAge, Artifact
  <1>4. PointersAge'
    <2> SUFFICES ASSUME NEW t \in Slots, modified'[Pointer(t)] # 0 PROVE PointersAge!(t)!2'
      BY DEF PointersAge
    <2>1. CASE t = s
      <3> HIDE KeysApart DEF IInv
      <3> QED BY <1>0, <1>b, <1>c, <2>1 DEF Outputs, Pointer
    <2>2. CASE t # s
      <3>1. modified'[Pointer(t)] = modified[Pointer(t)] /\ names'[t] = names[t]
        BY <1>0, <1>b, <1>c, <2>2, KeysNamed
      <3>2. PointersAge!(t)!2
        BY <3>1 DEF PointersAge
      <3> HIDE DEF IInv
      <3> QED BY <1>0, <3>1, <3>2 DEF Outputs, Pointer
    <2> QED BY <2>1, <2>2
  <1>5. SharedAge' /\ PlannedShared'
    <2> HIDE DEF k
    <2> QED BY <1>0, <1>1, <1>2, <1>a, <1>b, SharedPut
  <1>6. RollupsAge'
    <2> SUFFICES ASSUME NEW q \in Run, run'[q].rolled PROVE RollupsAge!(q)!2'
      BY DEF RollupsAge
    <2>1. run' = run /\ run[q].rolled /\ run[q].slot \in Slots
      BY <1>0 DEF RunsBegin
    <2>2. modified'[Rollup(Day(run[q].slot))] = modified[Rollup(Day(run[q].slot))]
      BY <1>b, <2>1, KeysNamed
    <2>3. RollupsAge!(q)!2
      BY <2>1 DEF RollupsAge
    <2>4. DayIsOld(Day(run[q].slot)) => DayIsOld(Day(run[q].slot))'
      BY <1>0, <2>1 DEF DayIsOld
    <2> HIDE KeysApart DEF IInv
    <2> QED BY <2>1, <2>2, <2>3, <2>4 DEF Rollup
  <1>7. PlannedArtifacts'
    <2> HIDE DEF s, k
    <2> QED BY <1>0, <1>d DEF PlannedArtifacts, Artifact
  <1> QED BY <1>1, <1>2, <1>3, <1>4, <1>5, <1>6, <1>7

\* What a listing adds to the plan is expired at the time of the pass.
LEMMA ListPrefixInv ==
    ASSUME IInv, NEW o \in Retainers, ListPrefix(o)
    PROVE  IInv'
  <1> USE RetentionConfigValid, KeysApart DEF IInv
  <1>0. PICK more \in SUBSET Expired(o) :
           pass' = [pass EXCEPT ![o] =
                       IF pass[o].prefix = Len(Prefixes) /\ pass[o].plan \cup more = {} THEN Idle
                       ELSE [prefix |-> pass[o].prefix + 1, now |-> pass[o].now,
                             plan |-> pass[o].plan \cup more]]
    BY DEF ListPrefix, PlanMore
  <1>1. \A k \in more : k \in Key /\ modified[k] \in Nat /\ modified[k] # 0
                        /\ modified[k] + Retention <= pass[o].now
    <2> HIDE KeysApart
    <2>1. modified \in [Key -> Nat] /\ pass[o].now \in Nat
      BY DEF TypeOK, PassRecord
    <2> HIDE DEF IInv
    <2> QED BY <2>1 DEF Expired, ListedKeys, retention_decision
  <1>2. UNCHANGED <<clock, modified, names, run, faults>> /\ RunsKept
    BY DEF ListPrefix, RunsKept
  <1>3. /\ pass[o].now \in Nat /\ pass[o].now <= clock /\ clock \in Nat
        /\ \/ pass'[o].plan = {} /\ pass'[o].now = 0
           \/ pass'[o].now = pass[o].now /\ pass'[o].plan = pass[o].plan \cup more
        /\ \A q \in Retainers : q # o => pass'[q] = pass[q]
    BY <1>0 DEF TypeOK, PassRecord, PlannedShared, Idle
  <1>4. TypeOK'
    <2>1. pass[o].prefix + 1 \in Nat /\ pass[o].now \in Nat /\ pass[o].plan \cup more \subseteq Key
      BY <1>1 DEF TypeOK, PassRecord
    <2>2. pass' \in [Retainers -> PassRecord]
      BY <1>0, <2>1 DEF TypeOK, Idle, PassRecord
    <2> QED BY <1>2, <2>2 DEF TypeOK
  <1>5. RunsBegin' /\ ArtifactsAge' /\ PointersAge'
    BY <1>2 DEF RunsBegin, ArtifactsAge, PointersAge, Outputs, Artifact, Pointer
  <1>6. SharedAge'
    BY <1>2, SharedStays
  <1>7. RollupsAge'
    BY <1>2, <1>4, OldDaysStay DEF RollupsAge, TypeOK, Rollup, DayIsOld
  <1>8. PlannedArtifacts'
    <2>1. \A q \in Run : \A f \in Artifacts : Artifact(q, f) \in more =>
             f \in run[q].uploaded /\ modified[Artifact(q, f)] + Retention <= clock
      <3> SUFFICES ASSUME NEW q \in Run, NEW f \in Artifacts, Artifact(q, f) \in more
                   PROVE  f \in run[q].uploaded /\ modified[Artifact(q, f)] + Retention <= clock
        OBVIOUS
      <3>1. modified[Artifact(q, f)] \in Nat /\ modified[Artifact(q, f)] # 0
            /\ modified[Artifact(q, f)] + Retention <= pass[o].now
        BY <1>1
      <3>2. f \in run[q].uploaded
        BY <3>1 DEF ArtifactsAge
      <3> HIDE KeysApart DEF IInv
      <3> QED BY <1>3, <3>1, <3>2
    <2>2. \A p \in Retainers : pass'[p].plan \subseteq pass[p].plan \cup more
      BY <1>3
    <2>3. PlannedArtifacts
      OBVIOUS
    <2> HIDE DEF IInv
    <2> QED BY <1>2, <2>1, <2>2, <2>3 DEF PlannedArtifacts, Artifact
  <1>9. PlannedShared'
    <2> SUFFICES ASSUME NEW p \in Retainers
                 PROVE  /\ pass'[p].now <= clock'
                        /\ \A k \in Shared : k \in pass'[p].plan =>
                              /\ OldWriter(k, pass'[p].now)
                              /\ \/ modified[k] = 0
                                 \/ modified[k] + Retention <= pass'[p].now
                                 \/ pass'[p].now <= modified[k]
      BY <1>2 DEF PlannedShared, Shared, Pointer, Rollup, OldWriter, SharedKeys
    <2>1. CASE p # o
      BY <1>2, <1>3, <2>1 DEF PlannedShared
    <2>2. CASE p = o /\ pass'[o].plan = {} /\ pass'[o].now = 0
      <3>1. 0 <= clock /\ clock' = clock
        BY <1>2, <1>3
      <3> HIDE KeysApart DEF IInv
      <3> QED BY <2>2, <3>1
    <2>3. CASE p = o /\ pass'[o].now = pass[o].now /\ pass'[o].plan = pass[o].plan \cup more
      <3>1. ASSUME NEW k \in Shared, k \in more
            PROVE  OldWriter(k, pass[o].now) /\ modified[k] + Retention <= pass[o].now
        <4>1. modified[k] \in Nat /\ modified[k] # 0 /\ modified[k] + Retention <= pass[o].now
          BY <1>1, <3>1
        <4>2. PICK r \in Run : /\ run[r].began # 0 /\ k \in SharedKeys(r)
                               /\ run[r].began <= modified[k] /\ modified[k] <= run[r].began + RunTime
          BY <4>1 DEF SharedAge
        <4>3. run[r].began \in Nat
          BY DEF TypeOK, RunRecord
        <4>4. run[r].began + Retention <= pass[o].now
          BY <1>3, <4>1, <4>2, <4>3
        <4> QED BY <4>1, <4>2, <4>4 DEF OldWriter
      <3>2. ASSUME NEW k \in Shared, k \in pass[o].plan
            PROVE  /\ OldWriter(k, pass[o].now)
                   /\ \/ modified[k] = 0
                      \/ modified[k] + Retention <= pass[o].now
                      \/ pass[o].now <= modified[k]
        BY <3>2 DEF PlannedShared
      <3> QED BY <1>2, <1>3, <2>3, <3>1, <3>2
    <2> QED BY <1>3, <2>1, <2>2, <2>3
  <1> QED BY <1>4, <1>5, <1>6, <1>7, <1>8, <1>9

\* A step of a loop that only drops plans and, at most, deletes what a plan
\* names leaves the bucket as it should be.
LEMMA ShrinkingInv ==
    ASSUME IInv, TypeOK', UNCHANGED <<clock, names, run>>,
           NEW deleted \in SUBSET Key,
           \A k \in Key : modified'[k] = modified[k] \/ (modified'[k] = 0 /\ k \in deleted),
           \A k \in deleted : \E o \in Retainers : k \in pass[o].plan,
           \A o \in Retainers : /\ pass'[o].plan \subseteq pass[o].plan
                                /\ pass'[o].now = pass[o].now \/ (pass'[o].plan = {} /\ pass'[o].now <= clock)
    PROVE  IInv'
  <1> USE RetentionConfigValid, KeysApart DEF IInv
  <1>0. RunsKept /\ clock \in Nat /\ clock <= clock' /\ modified \in [Key -> Nat]
    <2> HIDE KeysApart
    <2>1. clock \in Nat /\ modified \in [Key -> Nat]
      BY DEF TypeOK
    <2> HIDE DEF IInv
    <2> QED BY <2>1 DEF RunsKept
  <1>1. RunsBegin'
    BY DEF RunsBegin
  <1>2. ArtifactsAge'
    <2> SUFFICES ASSUME NEW q \in Run, NEW f \in Artifacts PROVE ArtifactsAge!(q)!(f)'
      BY DEF ArtifactsAge
    <2>1. /\ ArtifactsAge!(q)!(f) /\ modified[Artifact(q, f)] \in Nat /\ run[q].began \in Nat
          /\ Artifact(q, f)' = Artifact(q, f)
      BY <1>0 DEF ArtifactsAge, TypeOK, RunRecord, Artifact
    <2>2. \/ modified'[Artifact(q, f)] = modified[Artifact(q, f)]
          \/ /\ modified'[Artifact(q, f)] = 0
             /\ modified[Artifact(q, f)] # 0 => modified[Artifact(q, f)] + Retention <= clock
      BY DEF PlannedArtifacts
    <2> HIDE KeysApart DEF IInv
    <2> QED BY <1>0, <2>1, <2>2 DEF Artifact
  <1>3. PointersAge'
    <2>1. \A s \in Slots : modified'[Pointer(s)] # 0 => modified'[Pointer(s)] = modified[Pointer(s)]
      OBVIOUS
    <2>2. PointersAge
      OBVIOUS
    <2> HIDE KeysApart DEF IInv
    <2> QED BY <2>1, <2>2 DEF PointersAge, Outputs, Pointer
  <1>4. SharedAge'
    <2>1. \A k \in Shared : modified'[k] # 0 => modified'[k] = modified[k]
      OBVIOUS
    <2> QED BY <1>0, <2>1, SharedStays
  <1>5. RollupsAge'
    <2> SUFFICES ASSUME NEW q \in Run, run'[q].rolled PROVE RollupsAge!(q)!2'
      BY DEF RollupsAge
    <2> DEFINE d == Day(run[q].slot)
    <2>1. run[q].slot \in Slots /\ Rollup(d) \in Shared
      BY DEF RunsBegin
    <2>2. CASE modified'[Rollup(d)] = modified[Rollup(d)]
      BY <2>2 DEF RollupsAge, DayIsOld, Rollup
    <2>3. CASE modified'[Rollup(d)] = 0 /\ Rollup(d) \in deleted
      <3>1. PICK o \in Retainers : Rollup(d) \in pass[o].plan
        BY <2>3
      <3>2. OldWriter(Rollup(d), pass[o].now) /\ pass[o].now <= clock /\ pass[o].now \in Nat
        BY <2>1, <3>1 DEF PlannedShared, TypeOK, PassRecord
      <3>3. PICK p \in Run : /\ run[p].began # 0 /\ Rollup(d) \in SharedKeys(p)
                             /\ run[p].began + Retention <= pass[o].now
        BY <3>2 DEF OldWriter
      <3>4. Day(run[p].slot) = d
        BY <3>3, KeysNamed DEF SharedKeys
      <3>5. run[p].began \in Nat
        BY DEF TypeOK, RunRecord
      <3>6. run[p].began + Retention <= clock
        <4>1. clock \in Nat /\ pass[o].now \in Nat /\ pass[o].now <= clock
          BY <1>0, <3>2
        <4> HIDE KeysApart DEF IInv, d
        <4> QED BY <3>3, <3>5, <4>1
      <3>7. DayIsOld(d)'
        BY <3>3, <3>4, <3>6 DEF DayIsOld
      <3> QED BY <2>3, <3>7 DEF Rollup
    <2> QED BY <2>1, <2>2, <2>3
  <1>6. PlannedArtifacts'
    <2>1. \A q \in Run : \A f \in Artifacts :
             modified'[Artifact(q, f)] # 0 => modified'[Artifact(q, f)] = modified[Artifact(q, f)]
      OBVIOUS
    <2> QED BY <2>1 DEF PlannedArtifacts, Artifact
  <1>7. PlannedShared'
    <2>1. \A k \in Shared : modified'[k] \in {0, modified[k], clock}
      OBVIOUS
    <2> QED BY <1>0, <2>1, PlansStay
  <1> QED BY <1>1, <1>2, <1>3, <1>4, <1>5, <1>6, <1>7

\* A pass that begins or is given up has no plan.
LEMMA NoPlanInv ==
    ASSUME IInv, NEW o \in Retainers, StartPass(o) \/ ListFails(o) \/ Abort(o)
    PROVE  IInv'
  <1>1. PICK new \in PassRecord :
           /\ pass' = [pass EXCEPT ![o] = new] /\ new.plan = {} /\ new.now <= clock
    BY RetentionConfigValid DEF StartPass, ListFails, Abort, Idle, IInv, TypeOK, PassRecord
  <1>2. UNCHANGED <<clock, modified, names, run>> /\ faults' \in Nat
    BY DEF StartPass, ListFails, Abort, Fault, IInv, TypeOK
  <1>3. /\ pass' \in [Retainers -> PassRecord] /\ pass'[o] = new
        /\ \A q \in Retainers : q # o => pass'[q] = pass[q]
    BY <1>1 DEF IInv, TypeOK
  <1>4. TypeOK'
    BY <1>2, <1>3 DEF IInv, TypeOK
  <1>5. \A q \in Retainers :
           /\ pass'[q].plan \subseteq pass[q].plan
           /\ pass'[q].now = pass[q].now \/ (pass'[q].plan = {} /\ pass'[q].now <= clock)
    BY <1>1, <1>3
  <1>6. /\ {} \in SUBSET Key /\ UNCHANGED <<clock, names, run>>
        /\ \A k \in Key : modified'[k] = modified[k] \/ (modified'[k] = 0 /\ k \in {})
        /\ \A k \in {} : \E p \in Retainers : k \in pass[p].plan
    BY <1>2
  <1> QED BY <1>4, <1>5, <1>6, ShrinkingInv

\* A deletion takes the object behind a planned key, if it is still there.
LEMMA DeleteInv ==
    ASSUME IInv, NEW o \in Retainers, NEW k \in pass[o].plan, Delete(o, k) \/ DeleteFails(o, k)
    PROVE  IInv'
  <1>0. k \in Key
    BY DEF IInv, TypeOK, PassRecord
  <1>1. /\ UNCHANGED <<clock, names, run>> /\ faults' \in Nat
        /\ modified' \in [Key -> Nat]
        /\ \A l \in Key : modified'[l] = modified[l] \/ (modified'[l] = 0 /\ l \in {k})
    <2>1. modified \in [Key -> Nat] /\ faults \in Nat
      BY DEF IInv, TypeOK
    <2>2. modified' \in {modified, [modified EXCEPT ![k] = 0]}
      BY DEF Delete, DeleteFails
    <2>3. UNCHANGED <<clock, names, run>> /\ faults' \in Nat
      BY <2>1 DEF Delete, DeleteFails, Fault
    <2> QED BY <1>0, <2>1, <2>2, <2>3
  <1>2. DeleteDone(o, k)
    BY DEF Delete, DeleteFails
  <1>3. PICK new \in {Idle, [pass[o] EXCEPT !.plan = pass[o].plan \ {k}]} :
           pass' = [pass EXCEPT ![o] = new]
    BY <1>2 DEF DeleteDone
  <1>4. new \in PassRecord
    BY <1>3 DEF Idle, IInv, TypeOK, PassRecord
  <1>5. /\ new.plan \subseteq pass[o].plan
        /\ new.now = pass[o].now \/ (new.plan = {} /\ new.now <= clock)
    BY <1>3 DEF Idle, IInv, TypeOK, PassRecord
  <1>6. /\ pass' \in [Retainers -> PassRecord] /\ pass'[o] = new
        /\ \A q \in Retainers : q # o => pass'[q] = pass[q]
    BY <1>3, <1>4 DEF IInv, TypeOK
  <1>7. TypeOK'
    BY <1>1, <1>6 DEF IInv, TypeOK
  <1>8. \A q \in Retainers :
           /\ pass'[q].plan \subseteq pass[q].plan
           /\ pass'[q].now = pass[q].now \/ (pass'[q].plan = {} /\ pass'[q].now <= clock)
    BY <1>5, <1>6
  <1>9. {k} \in SUBSET Key /\ \A l \in {k} : \E p \in Retainers : l \in pass[p].plan
    BY <1>0
  <1> QED BY <1>1, <1>7, <1>8, <1>9, ShrinkingInv

\* Every step of the runs and of the loops preserves the invariant.
LEMMA NextInv == IInv /\ [Next]_vars => IInv'
  <1> SUFFICES ASSUME IInv, [Next]_vars PROVE IInv'
    OBVIOUS
  <1>1. CASE UNCHANGED vars
    <2> USE <1>1 DEF vars, IInv
    <2>1. TypeOK' /\ RunsBegin'
      BY DEF TypeOK, RunsBegin
    <2>2. ArtifactsAge' /\ PointersAge'
      BY DEF ArtifactsAge, PointersAge, Outputs, Artifact, Pointer
    <2>3. SharedAge' /\ RollupsAge'
      BY DEF SharedAge, SharedKeys, RollupsAge, DayIsOld, Shared, Pointer, Rollup
    <2>4. PlannedArtifacts' /\ PlannedShared'
      BY DEF PlannedArtifacts, PlannedShared, OldWriter, SharedKeys, Artifact, Shared, Pointer, Rollup
    <2> QED BY <2>1, <2>2, <2>3, <2>4
  <1>2. ASSUME NEW r \in Run, RunStep(r) PROVE IInv'
    BY <1>2, BeginRunInv, UploadArtifactInv, PutRollupInv, PutPointerInv DEF RunStep
  <1>3. ASSUME NEW o \in Retainers, PassStep(o) \/ Abort(o) PROVE IInv'
    BY <1>3, NoPlanInv, ListPrefixInv, DeleteInv DEF PassStep
  <1> QED BY <1>1, <1>2, <1>3, TickInv DEF Next

\* Runs, pointers, rollups, artifacts and plans keep their ages in order for
\* ever, whatever slots the runs are for and whenever the passes happen.
THEOREM RetentionInvariance == Spec => []IInv
  BY InitInv, NextInv, PTL DEF Spec

\* A pointer whose age leaves room for the time of a run leads to objects that
\* retention has not touched.
THEOREM YoungPointersAreReadable == Spec => []YoungIsReadable
  <1>1. IInv => YoungIsReadable
    <2> SUFFICES ASSUME IInv, NEW s \in Slots, modified[Pointer(s)] # 0,
                        clock - modified[Pointer(s)] < Retention - RunTime
                 PROVE  /\ \A f \in Outputs(names[s]) : modified[Artifact(names[s], f)] # 0
                        /\ \/ run[names[s]].empty \/ modified[Rollup(Day(s))] # 0
                           \/ DayIsOld(Day(s))
      BY DEF YoungIsReadable
    <2> USE RetentionConfigValid
    <2>1. /\ names[s] \in Run /\ run[names[s]].uploaded = Outputs(names[s]) /\ run[names[s]].slot = s
          /\ run[names[s]].empty \/ run[names[s]].rolled
          /\ modified[Pointer(s)] <= run[names[s]].began + RunTime
      BY DEF IInv, PointersAge
    <2>2. modified[Pointer(s)] \in Nat /\ clock \in Nat /\ run[names[s]].began \in Nat
      BY <2>1, KeysApart DEF IInv, TypeOK, RunRecord
    <2>3. ASSUME NEW f \in Outputs(names[s]), modified[Artifact(names[s], f)] = 0 PROVE FALSE
      <3>1. f \in Artifacts
        BY DEF Outputs
      <3>2. run[names[s]].began + Retention <= clock
        BY <2>1, <2>3, <3>1 DEF IInv, ArtifactsAge
      <3> QED BY <2>1, <2>2, <3>2
    <2>4. run[names[s]].empty \/ modified[Rollup(Day(s))] # 0 \/ DayIsOld(Day(s))
      BY <2>1 DEF IInv, RollupsAge
    <2> QED BY <2>3, <2>4
  <1> QED BY <1>1, RetentionInvariance, PTL

\* A planned key is deleted when its object is expired, or when it is a pointer
\* or a rollup that a second run has put since the pass began.
LEMMA PlannedIsDue ==
    ASSUME IInv, NEW o \in Retainers, NEW k \in pass[o].plan, modified[k] # 0
    PROVE  clock - modified[k] >= Retention \/ WrittenAgain(k)
  <1> USE RetentionConfigValid
  <1>0. /\ k \in Key /\ modified[k] \in Nat /\ clock \in Nat
        /\ pass[o].now \in Nat /\ pass[o].now <= clock
    BY DEF IInv, TypeOK, PassRecord, PlannedShared
  <1>1. ASSUME NEW r \in Run, NEW f \in Artifacts, k = Artifact(r, f)
        PROVE  clock - modified[k] >= Retention
    <2>1. modified[k] + Retention <= clock
      BY <1>1 DEF IInv, PlannedArtifacts
    <2> QED BY <1>0, <2>1
  <1>2. ASSUME k \in Shared, clock - modified[k] < Retention PROVE WrittenAgain(k)
    <2>1. /\ OldWriter(k, pass[o].now)
          /\ modified[k] + Retention <= pass[o].now \/ pass[o].now <= modified[k]
      BY <1>2 DEF IInv, PlannedShared
    <2>2. pass[o].now <= modified[k]
      BY <1>0, <1>2, <2>1
    <2>3. PICK q \in Run : run[q].began # 0 /\ k \in SharedKeys(q) /\ run[q].began + Retention <= pass[o].now
      BY <2>1 DEF OldWriter
    <2>4. PICK r \in Run : /\ run[r].began # 0 /\ k \in SharedKeys(r)
                           /\ run[r].began <= modified[k] /\ modified[k] <= run[r].began + RunTime
      BY <1>2 DEF IInv, SharedAge
    <2>5. run[q].began \in Nat /\ run[r].began \in Nat
      BY DEF IInv, TypeOK, RunRecord
    <2>6. run[q].began # run[r].began
      BY <1>0, <2>2, <2>3, <2>4, <2>5
    <2>7. run[q].began + Retention <= clock /\ clock < run[r].began + RunTime + Retention
      BY <1>0, <1>2, <2>3, <2>4, <2>5
    <2> QED BY <2>3, <2>4, <2>6, <2>7 DEF WrittenAgain
  <1>3. k \in Shared \/ \E r \in Run : \E f \in Artifacts : k = Artifact(r, f)
    BY <1>0, KeysApart
  <1>4. k \in Shared => clock - modified[k] >= Retention \/ WrittenAgain(k)
    BY <1>0, <1>2
  <1> QED BY <1>1, <1>3, <1>4

\* The step that removes an object is the deletion of a planned key.
LEMMA StepDeletesExpired ==
    ASSUME IInv, [Next]_vars, NEW k \in Key, modified[k] # 0, modified'[k] = 0
    PROVE  clock - modified[k] >= Retention \/ WrittenAgain(k)
  <1> USE RetentionConfigValid
  <1>0. clock \in Nat /\ modified \in [Key -> Nat]
    BY DEF IInv, TypeOK
  <1>1. ASSUME NEW o \in Retainers, NEW l \in pass[o].plan, Delete(o, l) \/ DeleteFails(o, l)
        PROVE  clock - modified[k] >= Retention \/ WrittenAgain(k)
    <2>1. k = l
      BY <1>0, <1>1 DEF Delete, DeleteFails
    <2> QED BY <2>1, PlannedIsDue
  <1>2. ASSUME NEW r \in Run, RunStep(r) PROVE FALSE
    <2>1. CASE \E s \in Slots, empty \in BOOLEAN : BeginRun(r, s, empty)
      BY <2>1 DEF BeginRun
    <2>2. ASSUME NEW l, modified' = [modified EXCEPT ![l] = clock], InTime(r) PROVE FALSE
      <3>1. clock # 0
        BY <1>0, <2>2 DEF InTime, IInv, RunsBegin, TypeOK, RunRecord
      <3> QED BY <1>0, <2>2, <3>1
    <2>3. CASE \E f \in Artifacts : UploadArtifact(r, f)
      BY <2>2, <2>3 DEF UploadArtifact
    <2>4. CASE PutRollup(r) \/ PutPointer(r)
      BY <2>2, <2>4 DEF PutRollup, PutPointer
    <2> QED BY <1>2, <2>1, <2>3, <2>4 DEF RunStep
  <1>3. ASSUME NEW o \in Retainers, StartPass(o) \/ ListPrefix(o) \/ ListFails(o) \/ Abort(o)
        PROVE  FALSE
    BY <1>3 DEF StartPass, ListPrefix, ListFails, Abort
  <1>4. ~Tick /\ ~UNCHANGED vars
    BY DEF Tick, vars
  <1> QED BY <1>1, <1>2, <1>3, <1>4 DEF Next, PassStep

\* run_s3_retention_once deletes by key what it listed earlier: the object is
\* expired at the moment of its deletion, or it is a pointer or a rollup that
\* two runs, the retention apart, have written.
THEOREM DeletionsAreDue == Spec => DeletedIsExpired
  <1>1. IInv /\ [Next]_vars =>
          [\A k \in Key : modified[k] # 0 /\ modified'[k] = 0 =>
              clock - modified[k] >= Retention \/ WrittenAgain(k)]_vars
    BY StepDeletesExpired
  <1> QED BY <1>1, RetentionInvariance, PTL DEF Spec, DeletedIsExpired
=============================================================================

---------------------------- MODULE S3Retention ----------------------------
(***************************************************************************)
(* The retention loops that delete old objects from a bucket while         *)
(* normalization runs write to it (storage/retention, retention_loop.rs).  *)
(* A pass takes the time once, lists the prefixes in a fixed order, plans  *)
(* to delete what is expired by then, up to a cap, and only then deletes   *)
(* the planned keys one by one, by name: what it saw may be gone by then,  *)
(* or written again.  The supervisor has a loop for each bucket, and so    *)
(* have a normalize worker run by hand, a supervisor that is being         *)
(* replaced and a backfill at its end: several loops work on one bucket.   *)
(*                                                                         *)
(* This is the L1 bucket.  The keys of most objects name their run and are *)
(* written once.  The pointer of a slot and the universe rollup of a day   *)
(* are written again by every run of that slot or day, and a run may be    *)
(* for a slot of any age (--input-start-ms).  The L0 bucket is the case of *)
(* runs that write neither.                                                *)
(***************************************************************************)
EXTENDS Naturals, Integers, Sequences, FiniteSets

CONSTANTS
    Retainers,      \* the loops
    Run,            \* normalization runs
    Slots,          \* index slots, each the time it stands for
    DaySlots,       \* length of a day
    Artifacts,      \* the prefixes below which a run writes objects of its own
    Retention,      \* retention_secs
    MaxDeletes,     \* max_deletes_per_run
    RunTime,        \* how long a run takes from its first upload to its last put
    MaxClock,       \* bound on the time
    MaxFaults       \* bound on failed requests and aborted loops

POINTERS == "l1_index/"
SNAPSHOTS == "symbol_universe_snapshot/"

default_l1_retention_prefixes ==
    <<"normalized_market_slice/", "normalization_report/", "market_data_quality_summary/",
      "market_feature_delta/", "market_feature_delta_summary/", "market_regime_context/",
      SNAPSHOTS, "runs/", POINTERS>>

\* The prefixes below which there is anything; listing another is no step.
Prefixes ==
    SelectSeq(default_l1_retention_prefixes, LAMBDA f : f \in Artifacts \cup {SNAPSHOTS, POINTERS})

\* validate_config, and that a run does not take as long as the retention.
ASSUME RetentionConfigValid ==
    /\ Retention \in Nat \ {0} /\ MaxDeletes \in Nat \ {0}
    /\ Slots \subseteq Nat \ {0} /\ DaySlots \in Nat \ {0}
    /\ RunTime \in Nat /\ RunTime < Retention
    /\ MaxClock \in Nat /\ MaxFaults \in Nat
    /\ POINTERS \notin Artifacts

Day(s) == s \div DaySlots
Days == {Day(s) : s \in Slots}

Artifact(r, f) == <<f, r>>
Pointer(s) == <<POINTERS, s>>
Rollup(d) == <<SNAPSHOTS, "bootstrap_rollup", d>>

Key == (Artifacts \X Run) \cup {Pointer(s) : s \in Slots} \cup {Rollup(d) : d \in Days}
NoRun == "none"

VARIABLES
    clock,      \* the time
    modified,   \* key -> its last_modified, 0 when there is no such object
    names,      \* slot -> the run in the pointer's bytes
    run,        \* run -> its slot, when it began (0: not yet), whether it is empty, what it wrote
    pass,       \* loop -> its prefix (0: between passes), its now, its plan
    faults

vars == <<clock, modified, names, run, pass, faults>>

NotYet == [slot |-> 0, began |-> 0, empty |-> FALSE, uploaded |-> {}, rolled |-> FALSE]
Idle == [prefix |-> 0, now |-> 0, plan |-> {}]

Init ==
    /\ clock = 1
    /\ modified = [k \in Key |-> 0]
    /\ names = [s \in Slots |-> NoRun]
    /\ run = [r \in Run |-> NotYet]
    /\ pass = [o \in Retainers |-> Idle]
    /\ faults = 0

Fault == faults < MaxFaults /\ faults' = faults + 1

Tick ==
    /\ clock < MaxClock /\ clock' = clock + 1
    /\ UNCHANGED <<modified, names, run, pass, faults>>

(***************************************************************************)
(* Runs: publish_outputs, as far as the bucket sees it.  A run that stops  *)
(* half-way simply takes no further step.                                  *)
(***************************************************************************)

\* A run found input for its slot or is empty.
BeginRun(r, s, empty) ==
    /\ run[r].began = 0
    /\ run' = [run EXCEPT ![r] = [slot |-> s, began |-> clock, empty |-> empty,
                                  uploaded |-> {}, rolled |-> FALSE]]
    /\ UNCHANGED <<clock, modified, names, pass, faults>>

InTime(r) == run[r].began # 0 /\ clock <= run[r].began + RunTime

\* An empty run writes its report and its manifest only.
Outputs(r) ==
    IF run[r].empty THEN Artifacts \cap {"normalization_report/", "runs/"} ELSE Artifacts

\* What publish_outputs writes after the rollup.
AfterRollup == {SNAPSHOTS, "normalization_report/", "runs/"}

UploadArtifact(r, f) ==
    /\ InTime(r) /\ f \in Outputs(r) \ run[r].uploaded
    /\ f \in AfterRollup => run[r].empty \/ run[r].rolled
    /\ modified' = [modified EXCEPT ![Artifact(r, f)] = clock]
    /\ run' = [run EXCEPT ![r].uploaded = @ \cup {f}]
    /\ UNCHANGED <<clock, names, pass, faults>>

\* publish_current_rollups: the rollup of the day, put without condition.
PutRollup(r) ==
    /\ InTime(r) /\ ~run[r].empty /\ ~run[r].rolled
    /\ Artifacts \ AfterRollup \subseteq run[r].uploaded
    /\ modified' = [modified EXCEPT ![Rollup(Day(run[r].slot))] = clock]
    /\ run' = [run EXCEPT ![r].rolled = TRUE]
    /\ UNCHANGED <<clock, names, pass, faults>>

\* mutant: the index is published first
PutPointerFirst(r) ==
    /\ InTime(r)
    /\ modified' = [modified EXCEPT ![Pointer(run[r].slot)] = clock]
    /\ names' = [names EXCEPT ![run[r].slot] = r]
    /\ UNCHANGED <<clock, run, pass, faults>>

PutPointer(r) ==
    /\ InTime(r) /\ run[r].uploaded = Outputs(r) /\ (run[r].empty \/ run[r].rolled)
    /\ modified' = [modified EXCEPT ![Pointer(run[r].slot)] = clock]
    /\ names' = [names EXCEPT ![run[r].slot] = r]
    /\ UNCHANGED <<clock, run, pass, faults>>

(***************************************************************************)
(* A pass of a loop: run_s3_retention_once                                  *)
(***************************************************************************)

\* mutant: an object goes one unit of time early
RetentionDecisionEarly(k, now) ==
    IF modified[k] = 0 THEN "keep"
    ELSE IF now - modified[k] < Retention - 1 THEN "keep" ELSE "delete"

retention_decision(k, now) ==
    IF modified[k] = 0 THEN "keep"
    ELSE IF now - modified[k] < Retention THEN "keep" ELSE "delete"

StartPass(o) ==
    /\ pass[o].prefix = 0
    /\ pass' = [pass EXCEPT ![o] = [prefix |-> 1, now |-> clock, plan |-> {}]]
    /\ UNCHANGED <<clock, modified, names, run, faults>>

ListedKeys(o) == {k \in Key : k[1] = Prefixes[pass[o].prefix]}

Expired(o) == {k \in ListedKeys(o) : retention_decision(k, pass[o].now) = "delete"}

\* mutant: a prefix with more expired objects than fit is left for later
PlanMoreLater(o, expired) ==
    IF Cardinality(expired) <= MaxDeletes - Cardinality(pass[o].plan) THEN {expired} ELSE {{}}

\* The objects of a prefix come in the order of their keys, which says nothing
\* of their age: any of the expired ones may be within the cap.
PlanMore(o, expired) ==
    LET room == MaxDeletes - Cardinality(pass[o].plan)
    IN  {more \in SUBSET expired :
            Cardinality(more) = IF Cardinality(expired) < room THEN Cardinality(expired) ELSE room}

\* After the last prefix the plan is carried out, if there is anything in it.
ListPrefix(o) ==
    /\ pass[o].prefix \in DOMAIN Prefixes
    /\ \E more \in PlanMore(o, Expired(o)) :
          LET plan == pass[o].plan \cup more
          IN  pass' = [pass EXCEPT ![o] =
                          IF pass[o].prefix = Len(Prefixes) /\ plan = {} THEN Idle
                          ELSE [prefix |-> pass[o].prefix + 1, now |-> pass[o].now, plan |-> plan]]
    /\ UNCHANGED <<clock, modified, names, run, faults>>

\* A failed list request ends the pass before anything is deleted; the loop
\* logs it and waits for its next tick.
ListFails(o) ==
    /\ pass[o].prefix \in DOMAIN Prefixes
    /\ Fault
    /\ pass' = [pass EXCEPT ![o] = Idle]
    /\ UNCHANGED <<clock, modified, names, run>>

\* The planned keys in the order in which they were listed.
NextKeys(o) ==
    {k \in pass[o].plan : \A l \in pass[o].plan :
        LET place(q) == CHOOSE i \in DOMAIN Prefixes : Prefixes[i] = q[1]
        IN  place(k) <= place(l)}

DeleteDone(o, k) ==
    LET rest == pass[o].plan \ {k}
    IN  pass' = [pass EXCEPT ![o] = IF rest = {} THEN Idle ELSE [pass[o] EXCEPT !.plan = rest]]

\* Deleting a key that is gone is no error for S3.
Delete(o, k) ==
    /\ pass[o].prefix > Len(Prefixes) /\ k \in NextKeys(o)
    /\ modified' = [modified EXCEPT ![k] = 0]
    /\ DeleteDone(o, k)
    /\ UNCHANGED <<clock, names, run, faults>>

\* A failed delete is counted and the pass goes on; it may have been applied.
DeleteFails(o, k) ==
    /\ pass[o].prefix > Len(Prefixes) /\ k \in NextKeys(o)
    /\ Fault
    /\ modified' \in {modified, [modified EXCEPT ![k] = 0]}
    /\ DeleteDone(o, k)
    /\ UNCHANGED <<clock, names, run>>

\* abort_s3_retention_handles, or the end of the process.
Abort(o) ==
    /\ pass[o].prefix # 0
    /\ Fault
    /\ pass' = [pass EXCEPT ![o] = Idle]
    /\ UNCHANGED <<clock, modified, names, run>>

RunStep(r) ==
    \/ \E s \in Slots, empty \in BOOLEAN : BeginRun(r, s, empty)
    \/ \E f \in Artifacts : UploadArtifact(r, f)
    \/ PutRollup(r) \/ PutPointer(r)

PassStep(o) ==
    \/ StartPass(o) \/ ListPrefix(o) \/ ListFails(o)
    \/ \E k \in pass[o].plan : Delete(o, k) \/ DeleteFails(o, k)

Next == Tick \/ (\E r \in Run : RunStep(r)) \/ (\E o \in Retainers : PassStep(o) \/ Abort(o))

Spec == Init /\ [][Next]_vars

\* The interval of a loop ticks for ever, and its requests return.
FairSpec == Spec /\ \A o \in Retainers : WF_vars(PassStep(o))

(***************************************************************************)
(* Properties                                                               *)
(***************************************************************************)

\* The keys that other runs of its slot or day write as well.
SharedKeys(r) == {Pointer(run[r].slot), Rollup(Day(run[r].slot))}

\* Two runs wrote the key, the first at least the retention ago, the second
\* less than that and the time it takes.
WrittenAgain(k) ==
    \E q, r \in Run :
        /\ q # r /\ run[q].began # 0 /\ k \in SharedKeys(q) \cap SharedKeys(r)
        /\ run[q].began + Retention <= clock /\ clock < run[r].began + RunTime + Retention

\* A deletion takes an object that is as old as the retention at that very
\* moment, although its key was listed earlier and other loops are at work; the
\* one exception is a pointer or a rollup that a run of long ago wrote and
\* another run has written again (run_s3_retention_once deletes by name).
DeletedIsExpired ==
    [][\A k \in Key :
         modified[k] # 0 /\ modified'[k] = 0 => clock - modified[k] >= Retention \/ WrittenAgain(k)]_vars

\* Some run of the day began as long ago as the retention.
DayIsOld(d) ==
    \E q \in Run : run[q].began # 0 /\ Day(run[q].slot) = d /\ run[q].began + Retention <= clock

\* A pointer that is younger than the retention less the time a run takes
\* leads to objects that are all there, although artifacts are deleted before
\* the pointers that name them and the cap may end a plan between the two
\* (run_s3_retention_once); the rollup its manifest names may be missing when
\* a run of that day is as old as the retention.
YoungIsReadable ==
    \A s \in Slots :
        LET written == modified[Pointer(s)]
            r == names[s]
        IN  written # 0 /\ clock - written < Retention - RunTime =>
                /\ \A f \in Outputs(r) : modified[Artifact(r, f)] # 0
                /\ run[r].empty \/ modified[Rollup(Day(s))] # 0 \/ DayIsOld(Day(s))

\* No run is writing.
Quiet == \A r \in Run : ~InTime(r)

\* Once no run writes to the bucket any more, everything in it that is expired
\* is deleted: the cap and the fixed order of the prefixes delay a deletion,
\* failures and aborts repeat a pass, but no object is left behind
\* (run_s3_retention_loop).  Nothing is claimed while runs go on writing.
ExpiredGoes ==
    <>[]Quiet => \A k \in Key : []<>(modified[k] = 0 \/ clock - modified[k] < Retention)
============================================================================

----------------------------- MODULE L1Publish -----------------------------
(***************************************************************************)
(* Publication of normalization runs to the L1 bucket, and the reader that *)
(* follows a pointer.  A run uploads its artifacts, its report and its     *)
(* manifest, reads the manifest back, and then puts one index pointer per  *)
(* slot of its input range with a conditional put (HEAD for the ETag, PUT  *)
(* with If-Match or If-None-Match).  Several processes publish at the same *)
(* time: the long-lived worker and the normalize child of the bootstrap    *)
(* scheduler.                                                              *)
(*                                                                         *)
(* Objects other than pointers have the run id in their key and never      *)
(* change, so an object is its kind and its run (the daily rollups, which  *)
(* do change, are in module UniverseRollup).  A pointer's bytes name its   *)
(* run, and its ETag is the digest of its bytes: here it is the run.       *)
(***************************************************************************)
EXTENDS Integers, Sequences, FiniteSets

CONSTANTS
    Publisher,      \* the processes that publish
    Slots,          \* index slots (window_start_ms)
    Ranges,         \* the input ranges a run may have: sets of slots
    MaxAttempts,    \* MAX_PUT_OBJECT_ATTEMPTS
    Concurrency,    \* l1_index_upload_concurrency
    MaxRuns         \* bound on the runs started

ASSUME PublishConfigValid ==
    /\ Slots # {} /\ Ranges \subseteq SUBSET Slots
    /\ MaxAttempts \in Nat \ {0} /\ Concurrency \in Nat \ {0} /\ MaxRuns \in Nat

NoRun == 0
Run == 1..MaxRuns

VARIABLES
    runs,       \* run -> its input range and the status of its build
    objects,    \* immutable objects of the bucket: <<kind, run>>
    index,      \* the pointers of the bucket: slot -> run, or NoRun
    pc,         \* publisher -> "idle", "upload", "verify" or "pointers"
    cur,        \* publisher -> its run
    done,       \* publisher -> how many objects of the run are uploaded
    put,        \* publisher -> slot -> state of the conditional put
    result,     \* run -> "none", "ok" or "err", once publish_outputs returns
    wrote,      \* history: run -> slots its pointer ever reached
    reader      \* a downstream read: the slot, what it holds, what came of it

vars == <<runs, objects, index, pc, cur, done, put, result, wrote, reader>>

\* The objects of a run in upload order, by the status of its build.
UploadOrder(status) ==
    IF status = "success"
    THEN <<"slices", "quality", "delta_summary", "delta", "regime", "rollup", "universe",
           "report", "manifest">>
    ELSE <<"report", "manifest">>

Indexable(status) == status \in {"success", "empty"}

\* A put: waiting, its ETag looked up, answered, or given up on.
Todo == [at |-> "todo", etag |-> NoRun, tries |-> 0]
Looked(etag, tries) == [at |-> "put", etag |-> etag, tries |-> tries]
Finished(how) == [at |-> how, etag |-> NoRun, tries |-> 0]

NoReader == [at |-> "none", slot |-> CHOOSE s \in Slots : TRUE, run |-> NoRun]

Init ==
    /\ runs = [r \in Run |-> [range |-> {}, status |-> "none"]]
    /\ objects = {}
    /\ index = [s \in Slots |-> NoRun]
    /\ pc = [p \in Publisher |-> "idle"]
    /\ cur = [p \in Publisher |-> NoRun]
    /\ done = [p \in Publisher |-> 0]
    /\ put = [p \in Publisher |-> [s \in Slots |-> Todo]]
    /\ result = [r \in Run |-> "none"]
    /\ wrote = [r \in Run |-> {}]
    /\ reader = NoReader

Info(p) == runs[cur[p]]

(***************************************************************************)
(* publish_outputs                                                          *)
(***************************************************************************)

BeginRun(p, r, range, status) ==
    /\ pc[p] = "idle"
    /\ runs[r].status = "none" /\ \A q \in Run : q < r => runs[q].status # "none"
    /\ runs' = [runs EXCEPT ![r] = [range |-> range, status |-> status]]
    /\ pc' = [pc EXCEPT ![p] = "upload"]
    /\ cur' = [cur EXCEPT ![p] = r]
    /\ done' = [done EXCEPT ![p] = 0]
    /\ put' = [put EXCEPT ![p] = [s \in Slots |-> Todo]]
    /\ UNCHANGED <<objects, index, result, wrote, reader>>

\* mutant: the pointers are started before the manifest is up
UploadNextEarly(p) ==
    /\ pc[p] = "upload"
    /\ LET order == UploadOrder(Info(p).status)
       IN  /\ objects' = objects \cup {<<order[done[p] + 1], cur[p]>>}
           /\ done' = [done EXCEPT ![p] = @ + 1]
           /\ pc' = [pc EXCEPT ![p] = IF done[p] + 2 = Len(order) THEN "pointers" ELSE "upload"]
    /\ UNCHANGED <<runs, index, cur, put, result, wrote, reader>>

UploadNext(p) ==
    /\ pc[p] = "upload"
    /\ LET order == UploadOrder(Info(p).status)
       IN  /\ objects' = objects \cup {<<order[done[p] + 1], cur[p]>>}
           /\ done' = [done EXCEPT ![p] = @ + 1]
           /\ pc' = [pc EXCEPT ![p] = IF done[p] + 1 = Len(order) THEN "verify" ELSE "upload"]
    /\ UNCHANGED <<runs, index, cur, put, result, wrote, reader>>

Return(p, how) ==
    /\ result' = [result EXCEPT ![cur[p]] = how]
    /\ pc' = [pc EXCEPT ![p] = "idle"]
    /\ cur' = [cur EXCEPT ![p] = NoRun]

\* verify_manifest downloads the manifest; a blocked run stops there.
VerifyManifest(p) ==
    /\ pc[p] = "verify"
    /\ IF <<"manifest", cur[p]>> \notin objects THEN Return(p, "err")
       ELSE IF Indexable(Info(p).status)
            THEN pc' = [pc EXCEPT ![p] = "pointers"] /\ UNCHANGED <<cur, result>>
            ELSE Return(p, "ok")
    /\ UNCHANGED <<runs, objects, index, done, put, wrote, reader>>

\* An upload or the read-back fails for good: "?" ends the run.
UploadFails(p) ==
    /\ pc[p] \in {"upload", "verify"}
    /\ Return(p, "err")
    /\ UNCHANGED <<runs, objects, index, done, put, wrote, reader>>

(***************************************************************************)
(* upload_json_if_pointer_current, for one slot                             *)
(***************************************************************************)

SetPut(p, s, state) == put' = [put EXCEPT ![p][s] = state]

InFlight(p) == {s \in Slots : put[p][s].at = "put"}

HeadEtag(p, s) ==
    /\ pc[p] = "pointers" /\ s \in Info(p).range /\ put[p][s].at = "todo"
    /\ Cardinality(InFlight(p)) < Concurrency
    /\ SetPut(p, s, Looked(index[s], 0))
    /\ UNCHANGED <<runs, objects, index, pc, cur, done, result, wrote, reader>>

HeadFails(p, s) ==
    /\ pc[p] = "pointers" /\ s \in Info(p).range /\ put[p][s].at = "todo"
    /\ Cardinality(InFlight(p)) < Concurrency
    /\ SetPut(p, s, Finished("failed"))
    /\ UNCHANGED <<runs, objects, index, pc, cur, done, result, wrote, reader>>

\* If-Match with the ETag of the HEAD, If-None-Match when there was no object.
Accepts(p, s) == put[p][s].at = "put" /\ put[p][s].etag = index[s]

Apply(p, s) ==
    /\ index' = [index EXCEPT ![s] = cur[p]]
    /\ wrote' = [wrote EXCEPT ![cur[p]] = @ \cup {s}]

PutPointer(p, s) ==
    /\ pc[p] = "pointers" /\ Accepts(p, s)
    /\ Apply(p, s)
    /\ SetPut(p, s, Finished("ok"))
    /\ UNCHANGED <<runs, objects, pc, cur, done, result, reader>>

\* 412 or 409: not a retryable code.
PutRefused(p, s) ==
    /\ pc[p] = "pointers" /\ put[p][s].at = "put" /\ ~Accepts(p, s)
    /\ SetPut(p, s, Finished("failed"))
    /\ UNCHANGED <<runs, objects, index, pc, cur, done, result, wrote, reader>>

\* After a retryable error the same bytes are put under the same condition.
RetryOrGiveUp(p, s) ==
    SetPut(p, s, IF put[p][s].tries + 1 >= MaxAttempts THEN Finished("failed")
                 ELSE Looked(put[p][s].etag, put[p][s].tries + 1))

\* A throttled or timed-out put that the bucket did not apply ...
PutLost(p, s) ==
    /\ pc[p] = "pointers" /\ put[p][s].at = "put"
    /\ RetryOrGiveUp(p, s)
    /\ UNCHANGED <<runs, objects, index, pc, cur, done, result, wrote, reader>>

\* ... or did apply before the answer got lost.
PutAnswerLost(p, s) ==
    /\ pc[p] = "pointers" /\ Accepts(p, s)
    /\ Apply(p, s)
    /\ RetryOrGiveUp(p, s)
    /\ UNCHANGED <<runs, objects, pc, cur, done, result, reader>>

Answered(p) == \A s \in Info(p).range : put[p][s].at \in {"ok", "failed"}

\* mutant: the results of the puts are not looked at
PublishedIgnoringErrors(p) ==
    /\ pc[p] = "pointers" /\ Answered(p)
    /\ Return(p, "ok")
    /\ UNCHANGED <<runs, objects, index, done, put, wrote, reader>>

Published(p) ==
    /\ pc[p] = "pointers" /\ Answered(p)
    /\ Return(p, IF \E s \in Info(p).range : put[p][s].at = "failed" THEN "err" ELSE "ok")
    /\ UNCHANGED <<runs, objects, index, done, put, wrote, reader>>

\* The process is killed: no result, and whatever is in the bucket stays.
Crash(p) ==
    /\ pc[p] # "idle"
    /\ pc' = [pc EXCEPT ![p] = "idle"]
    /\ cur' = [cur EXCEPT ![p] = NoRun]
    /\ UNCHANGED <<runs, objects, index, done, put, result, wrote, reader>>

(***************************************************************************)
(* L1Reader::read_plan for one slot: pointer, then manifest, then report,  *)
(* then the admissibility checks on the three.                             *)
(***************************************************************************)

ReadPointer(s) ==
    /\ reader.at = "none" /\ index[s] # NoRun
    /\ reader' = [at |-> "pointer", slot |-> s, run |-> index[s]]
    /\ UNCHANGED <<runs, objects, index, pc, cur, done, put, result, wrote>>

\* mutant: the pointer is looked up again for every object
DownloadAgain(kind, from, to) ==
    /\ reader.at = from
    /\ LET r == index[reader.slot]
       IN  reader' = [reader EXCEPT !.run = r, !.at = IF <<kind, r>> \in objects THEN to ELSE "missing"]
    /\ UNCHANGED <<runs, objects, index, pc, cur, done, put, result, wrote>>

Download(kind, from, to) ==
    /\ reader.at = from
    /\ reader' = [reader EXCEPT !.at = IF <<kind, reader.run>> \in objects THEN to ELSE "missing"]
    /\ UNCHANGED <<runs, objects, index, pc, cur, done, put, result, wrote>>

ReadManifest == Download("manifest", "pointer", "manifest")

ReadReport == Download("report", "manifest", "report")

\* mutant: the run must have exactly the range asked for
AdmissibleExact(s, r) == runs[r].status = "success" /\ runs[r].range = {s}

\* Of the checks, the ones that one version's own output can fail: the status
\* is success and the run covers the slot asked for.
Admissible(s, r) == runs[r].status = "success" /\ s \in runs[r].range

BuildReadPlan ==
    /\ reader.at = "report"
    /\ reader' = [reader EXCEPT !.at = IF Admissible(reader.slot, reader.run) THEN "plan"
                                       ELSE "refused"]
    /\ UNCHANGED <<runs, objects, index, pc, cur, done, put, result, wrote>>

ReadAgain ==
    /\ reader.at \in {"plan", "refused", "missing"}
    /\ reader' = NoReader
    /\ UNCHANGED <<runs, objects, index, pc, cur, done, put, result, wrote>>

PutStep(p) ==
    \E s \in Slots : \/ HeadEtag(p, s) \/ HeadFails(p, s) \/ PutPointer(p, s) \/ PutRefused(p, s)
                     \/ PutLost(p, s) \/ PutAnswerLost(p, s)

PublishStep(p) ==
    UploadNext(p) \/ VerifyManifest(p) \/ UploadFails(p) \/ PutStep(p) \/ Published(p)

Next ==
    \/ \E p \in Publisher, r \in Run, range \in Ranges, status \in {"success", "empty", "blocked"} :
          BeginRun(p, r, range, status)
    \/ \E p \in Publisher : PublishStep(p) \/ Crash(p)
    \/ \E s \in Slots : ReadPointer(s)
    \/ ReadManifest \/ ReadReport \/ BuildReadPlan \/ ReadAgain

Spec == Init /\ [][Next]_vars

(***************************************************************************)
(* Properties.                                                              *)
(***************************************************************************)

\* The bucket, the publishers and the reader hold values of their types.
TypeOK ==
    /\ runs \in [Run -> [range : Ranges \cup {{}}, status : {"none", "success", "empty", "blocked"}]]
    /\ objects \subseteq {"slices", "quality", "delta_summary", "delta", "regime", "rollup",
                          "universe", "report", "manifest"} \X Run
    /\ index \in [Slots -> Run \cup {NoRun}]
    /\ pc \in [Publisher -> {"idle", "upload", "verify", "pointers"}]
    /\ cur \in [Publisher -> Run \cup {NoRun}]
    /\ done \in [Publisher -> 0..9]
    /\ put \in [Publisher -> [Slots -> [at : {"todo", "put", "ok", "failed"},
                                        etag : Run \cup {NoRun}, tries : 0..(MaxAttempts - 1)]]]
    /\ result \in [Run -> {"none", "ok", "err"}]
    /\ wrote \in [Run -> SUBSET Slots]
    /\ reader \in [at : {"none", "pointer", "manifest", "report", "plan", "refused", "missing"},
                   slot : Slots, run : Run \cup {NoRun}]

Kinds == {"slices", "quality", "delta_summary", "delta", "regime", "rollup", "universe",
          "report", "manifest"}

\* All the objects that a run of its status uploads are in the bucket.
Complete(r) ==
    /\ runs[r].status \in {"success", "empty"}
    /\ {<<"report", r>>, <<"manifest", r>>} \subseteq objects
    /\ runs[r].status = "success" => {<<k, r>> : k \in Kinds} \subseteq objects

\* Whatever a pointer names is complete: report and manifest are there, and so
\* is every artifact of a successful run, and the slot lies in the run's range.
\* No pointer names a blocked run.
PointedIsComplete ==
    \A s \in Slots : index[s] # NoRun => Complete(index[s]) /\ s \in runs[index[s]].range

\* A pointer is only replaced by a run that has seen the pointer it replaces,
\* whatever other publishers, retries and lost answers do in between.
NoBlindOverwrite ==
    [][\A s \in Slots : index'[s] # index[s] =>
          \E p \in Publisher : cur[p] = index'[s] /\ put[p][s].etag = index[s]]_vars

\* A run that returned Ok has reached every slot of its range, if its status
\* is one that is indexed at all.
OkMeansPublished ==
    \A r \in Run : result[r] = "ok" /\ runs[r].status # "blocked" => wrote[r] = runs[r].range

\* A reader that starts from a pointer never meets a missing object, and is
\* refused only because the run was empty, also when the pointer is replaced
\* while it reads.
ReaderNeverStranded ==
    /\ reader.at # "missing"
    /\ reader.at = "refused" => runs[reader.run].status = "empty"
    /\ reader.at = "plan" => <<"slices", reader.run>> \in objects

\* The atomic index that publishers and readers implement: a run is released
\* by the upload of its last object, and a reader holds the run of the pointer
\* it looked up until it is done; Stranded is no run of the index.
Stranded == MaxRuns + 1
Catalog == [r \in Run |-> IF Complete(r) THEN runs[r].range ELSE {}]
Held == IF reader.at = "missing" THEN Stranded ELSE reader.run
Index == INSTANCE L1Index WITH catalog <- Catalog, held <- Held

\* publish_outputs and L1Reader::read_plan implement the index of L1Index:
\* whatever is retried, lost, interrupted or done by another publisher between
\* two requests, the bucket behaves as if runs were released, pointers moved
\* and reads taken in single steps.
ImplementsIndex == Index!Spec
============================================================================

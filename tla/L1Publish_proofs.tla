--------------------------- MODULE L1Publish_proofs ---------------------------
(***************************************************************************)
(* What a pointer promises, for any number of publishers, slots, ranges    *)
(* and runs.  A run reaches its pointer puts only with all of its objects  *)
(* in the bucket, objects never go away and a begun run never changes, so  *)
(* whatever a pointer named once stays complete.                           *)
(***************************************************************************)
EXTENDS L1Publish, TLAPS

\* A publisher at work has a run that was begun; a run that was not begun has
\* left no trace.
WorkHasRun ==
    /\ \A p \in Publisher : pc[p] # "idle" => cur[p] \in Run /\ runs[cur[p]].status # "none"
    /\ \A r \in Run : runs[r].status = "none" => result[r] = "none" /\ wrote[r] = {}
    /\ \A r \in Run, k \in Kinds : <<k, r>> \in objects => runs[r].status # "none"

\* The first done[p] objects of the upload order are in the bucket, all of
\* them once the upload is over; only indexable runs get to their pointers.
UploadedSoFar ==
    \A p \in Publisher :
        /\ pc[p] = "upload" =>
              /\ done[p] < Len(UploadOrder(Info(p).status))
              /\ \A i \in 1..done[p] : <<UploadOrder(Info(p).status)[i], cur[p]>> \in objects
        /\ pc[p] \in {"verify", "pointers"} =>
              \A i \in 1..Len(UploadOrder(Info(p).status)) :
                  <<UploadOrder(Info(p).status)[i], cur[p]>> \in objects
        /\ pc[p] = "pointers" => Indexable(Info(p).status)

\* Puts are for the slots of the run, and a put answered ok has reached its
\* slot.
PutsInRange ==
    /\ \A p \in Publisher, s \in Slots :
          /\ pc[p] \in {"upload", "verify"} => put[p][s].at = "todo"
          /\ pc[p] = "pointers" /\ put[p][s].at # "todo" => s \in Info(p).range
          /\ pc[p] = "pointers" /\ put[p][s].at = "ok" => s \in wrote[cur[p]]
    /\ \A r \in Run : wrote[r] \subseteq runs[r].range

\* The reader holds a complete run, and stands where that leads.
ReaderHoldsRun ==
    /\ reader.at # "missing"
    /\ reader.at = "none" => reader.run = NoRun
    /\ reader.at # "none" =>
          reader.run \in Run /\ Complete(reader.run) /\ reader.slot \in runs[reader.run].range
    /\ reader.at = "refused" => runs[reader.run].status = "empty"
    /\ reader.at = "plan" => runs[reader.run].status = "success"

IInv ==
    /\ TypeOK /\ WorkHasRun /\ UploadedSoFar /\ PutsInRange /\ PointedIsComplete
    /\ OkMeansPublished /\ ReaderHoldsRun

\* What pointers name is complete as long as neither pointers nor runs change.
LEMMA PointedStays ==
    ASSUME PointedIsComplete, UNCHANGED <<runs, objects, index>>
    PROVE  PointedIsComplete'
  BY DEF PointedIsComplete, Complete

\* The same for the run that the reader holds.
LEMMA ReaderStays ==
    ASSUME ReaderHoldsRun, UNCHANGED <<runs, objects, reader>>
    PROVE  ReaderHoldsRun'
  BY DEF ReaderHoldsRun, Complete

\* What the upload order holds, by status.
LEMMA OrderHolds ==
    ASSUME NEW status
    PROVE  /\ Len(UploadOrder(status)) \in 2..9
           /\ \A i \in 1..Len(UploadOrder(status)) : UploadOrder(status)[i] \in Kinds
           /\ \E i \in 1..Len(UploadOrder(status)) : UploadOrder(status)[i] = "report"
           /\ \E i \in 1..Len(UploadOrder(status)) : UploadOrder(status)[i] = "manifest"
           /\ status = "success" => \A k \in Kinds :
                 \E i \in 1..Len(UploadOrder(status)) : UploadOrder(status)[i] = k
  <1>1. CASE status = "success"
    <2> DEFINE o == UploadOrder(status)
    <2>1. /\ Len(o) = 9 /\ o[1] = "slices" /\ o[2] = "quality" /\ o[3] = "delta_summary"
          /\ o[4] = "delta" /\ o[5] = "regime" /\ o[6] = "rollup" /\ o[7] = "universe"
          /\ o[8] = "report" /\ o[9] = "manifest"
      BY <1>1 DEF UploadOrder
    <2> HIDE DEF o
    <2>2. \A i \in 1..9 : o[i] \in Kinds
      BY <2>1 DEF Kinds
    <2>3. \A k \in Kinds : \E i \in 1..9 : o[i] = k
      BY <2>1 DEF Kinds
    <2>4. "report" \in Kinds /\ "manifest" \in Kinds
      BY DEF Kinds
    <2> QED BY <2>1, <2>2, <2>3, <2>4 DEF o
  <1>2. CASE status # "success"
    <2>1. /\ Len(UploadOrder(status)) = 2
          /\ UploadOrder(status)[1] = "report" /\ UploadOrder(status)[2] = "manifest"
      BY <1>2 DEF UploadOrder
    <2> QED BY <1>2, <2>1 DEF Kinds
  <1> QED BY <1>1, <1>2

PutState == [at : {"todo", "put", "ok", "failed"}, etag : Run \cup {NoRun},
             tries : 0..(MaxAttempts - 1)]

\* SetPut changes one slot of one publisher.
LEMMA SetPutChangesOne ==
    ASSUME TypeOK, NEW p \in Publisher, NEW s \in Slots, NEW q \in PutState, SetPut(p, s, q)
    PROVE  /\ put' \in [Publisher -> [Slots -> PutState]]
           /\ put'[p][s] = q
           /\ \A o \in Publisher, t \in Slots : o # p \/ t # s => put'[o][t] = put[o][t]
  <1>1. put \in [Publisher -> [Slots -> PutState]]
    BY DEF TypeOK, PutState
  <1>2. put' = [put EXCEPT ![p] = [put[p] EXCEPT ![s] = q]]
    BY DEF SetPut
  <1> QED BY <1>1, <1>2

\* The states that a put step leaves behind.
LEMMA LookedIsPut ==
    ASSUME NEW e \in Run \cup {NoRun}, NEW n \in 0..(MaxAttempts - 1)
    PROVE  Looked(e, n) \in PutState /\ Looked(e, n).at = "put"
  BY PublishConfigValid DEF Looked, PutState

\* A put that was answered has a well-formed state.
LEMMA FinishedIsPut ==
    ASSUME NEW how \in {"ok", "failed"}
    PROVE  Finished(how) \in PutState /\ Finished(how).at = how
  BY PublishConfigValid DEF Finished, PutState, NoRun

\* A retry counts one attempt up or gives up, within the attempts allowed.
LEMMA RetrySets ==
    ASSUME TypeOK, NEW p \in Publisher, NEW s \in Slots, RetryOrGiveUp(p, s)
    PROVE  \E q \in PutState : SetPut(p, s, q) /\ q.at \in {"put", "failed"}
  <1>1. put[p][s] \in PutState
    BY DEF TypeOK, PutState
  <1>2. put[p][s].etag \in Run \cup {NoRun} /\ put[p][s].tries \in 0..(MaxAttempts - 1)
    BY <1>1 DEF PutState
  <1>3. CASE put[p][s].tries + 1 >= MaxAttempts
    BY <1>3, FinishedIsPut DEF RetryOrGiveUp
  <1>4. CASE ~(put[p][s].tries + 1 >= MaxAttempts)
    <2>1. put[p][s].tries + 1 \in 0..(MaxAttempts - 1)
      BY <1>2, <1>4, PublishConfigValid
    <2> QED BY <1>2, <1>4, <2>1, LookedIsPut DEF RetryOrGiveUp
  <1> QED BY <1>3, <1>4

\* The empty index satisfies the invariant.
LEMMA InitInv == Init => IInv
  <1> SUFFICES ASSUME Init PROVE IInv
    OBVIOUS
  <1> USE PublishConfigValid DEF Init, NoRun, Todo, NoReader
  <1>1. TypeOK
    BY DEF TypeOK, Run
  <1>2. WorkHasRun /\ UploadedSoFar
    BY DEF WorkHasRun, UploadedSoFar
  <1>3. PutsInRange
    BY DEF PutsInRange
  <1>4. PointedIsComplete /\ OkMeansPublished /\ ReaderHoldsRun
    BY DEF PointedIsComplete, OkMeansPublished, ReaderHoldsRun
  <1> QED BY <1>1, <1>2, <1>3, <1>4 DEF IInv

\* A run begins with nothing uploaded and no put on its way.
LEMMA BeginRunInv ==
    ASSUME IInv, NEW p \in Publisher, NEW r \in Run, NEW range \in Ranges,
               NEW status \in {"success", "empty", "blocked"}, BeginRun(p, r, range, status)
    PROVE  IInv'
  <1> USE PublishConfigValid DEF IInv, BeginRun
  <1>1. TypeOK'
    <2>1. runs' \in [Run -> [range : Ranges \cup {{}}, status : {"none", "success", "empty", "blocked"}]]
      BY DEF TypeOK
    <2>2. put' \in [Publisher -> [Slots -> [at : {"todo", "put", "ok", "failed"},
                        etag : Run \cup {NoRun}, tries : 0..(MaxAttempts - 1)]]]
      <3>1. Todo \in [at : {"todo", "put", "ok", "failed"}, etag : Run \cup {NoRun},
                      tries : 0..(MaxAttempts - 1)]
        BY DEF Todo, NoRun
      <3> QED BY <3>1 DEF TypeOK
    <2> QED BY <2>1, <2>2 DEF TypeOK, NoRun, Run
  <1>2. WorkHasRun'
    BY DEF TypeOK, WorkHasRun, NoRun, Run
  <1>3. UploadedSoFar'
    <2>1. \A o \in Publisher : o # p /\ pc[o] # "idle" =>
             pc'[o] = pc[o] /\ Info(o)' = Info(o) /\ cur'[o] = cur[o] /\ done'[o] = done[o]
      BY DEF TypeOK, WorkHasRun, Info
    <2>2. pc'[p] = "upload" /\ done'[p] = 0
      BY DEF TypeOK
    <2>3. \A o \in Publisher : o # p => pc'[o] = pc[o]
      BY DEF TypeOK
    <2>4. 0 < Len(UploadOrder(Info(p)'.status))
      BY OrderHolds
    <2>5. objects' = objects
      OBVIOUS
    <2>6. UploadedSoFar
      OBVIOUS
    <2> HIDE DEF BeginRun, IInv
    <2> QED BY <2>1, <2>2, <2>3, <2>4, <2>5, <2>6 DEF UploadedSoFar
  <1>4. PutsInRange'
    <2>1. \A o \in Publisher : o # p /\ pc[o] # "idle" =>
             pc'[o] = pc[o] /\ Info(o)' = Info(o) /\ cur'[o] = cur[o] /\ put'[o] = put[o]
      BY DEF TypeOK, WorkHasRun, Info
    <2>2. pc'[p] = "upload" /\ \A t \in Slots : put'[p][t].at = "todo"
      BY DEF TypeOK, Todo
    <2>3. \A o \in Publisher : o # p => pc'[o] = pc[o]
      BY DEF TypeOK
    <2>4. \A q \in Run : wrote'[q] \subseteq runs'[q].range
      BY DEF TypeOK, PutsInRange, WorkHasRun
    <2>5. PutsInRange /\ wrote' = wrote
      OBVIOUS
    <2> HIDE DEF BeginRun, IInv
    <2> QED BY <2>1, <2>2, <2>3, <2>4, <2>5 DEF PutsInRange
  <1>5. PointedIsComplete'
    BY DEF TypeOK, WorkHasRun, PointedIsComplete, Complete
  <1>6. OkMeansPublished'
    BY DEF TypeOK, WorkHasRun, OkMeansPublished, PutsInRange, Info
  <1>7. ReaderHoldsRun'
    BY DEF TypeOK, WorkHasRun, ReaderHoldsRun, Complete
  <1> QED BY <1>1, <1>2, <1>3, <1>4, <1>5, <1>6, <1>7 DEF IInv

\* The next object of the upload order is put.
LEMMA UploadNextInv ==
    ASSUME IInv, NEW p \in Publisher, UploadNext(p)
    PROVE  IInv'
  <1> USE PublishConfigValid DEF IInv, UploadNext
  <1> DEFINE order == UploadOrder(Info(p).status)
             n == done[p] + 1
  <1>0. /\ n \in 1..Len(order) /\ Len(order) \in 2..9 /\ order[n] \in Kinds
        /\ objects' = objects \cup {<<order[n], cur[p]>>} /\ done' = [done EXCEPT ![p] = n]
        /\ pc' = [pc EXCEPT ![p] = IF n = Len(order) THEN "verify" ELSE "upload"]
    <2>1. done[p] \in 0..9 /\ done[p] < Len(order)
      BY DEF TypeOK, UploadedSoFar
    <2>2. Len(order) \in 2..9 /\ \A i \in 1..Len(order) : order[i] \in Kinds
      BY OrderHolds
    <2>3. n \in 1..Len(order)
      BY <2>1, <2>2
    <2> QED BY <2>2, <2>3
  <1> HIDE DEF order, n
  <1>1. TypeOK'
    <2>1. objects' \subseteq Kinds \X Run
      <3>1. objects \subseteq Kinds \X Run
        BY DEF TypeOK, Kinds
      <3>2. cur[p] \in Run
        BY DEF WorkHasRun
      <3> QED BY <1>0, <3>1, <3>2
    <2>2. done \in [Publisher -> 0..9] /\ n \in 0..9
      <3>1. done \in [Publisher -> 0..9]
        BY DEF TypeOK
      <3> HIDE PublishConfigValid DEF IInv, UploadNext
      <3>2. n \in 0..9
        BY <1>0
      <3> QED BY <3>1, <3>2
    <2>3. pc \in [Publisher -> {"idle", "upload", "verify", "pointers"}]
      BY DEF TypeOK
    <2>4. /\ done' \in [Publisher -> 0..9]
          /\ pc' \in [Publisher -> {"idle", "upload", "verify", "pointers"}]
      <3> HIDE PublishConfigValid DEF IInv, UploadNext
      <3> QED BY <1>0, <2>2, <2>3
    <2> QED BY <2>1, <2>4 DEF TypeOK, Kinds
  <1>2. WorkHasRun'
    BY DEF TypeOK, WorkHasRun, NoRun, Run
  <1>3. UploadedSoFar'
    <2>1. \A o \in Publisher : o # p => pc'[o] = pc[o] /\ done'[o] = done[o]
      BY <1>0 DEF TypeOK
    <2>2. \A o \in Publisher : Info(o)' = Info(o) /\ cur'[o] = cur[o]
      BY DEF Info
    <2>3. /\ done'[p] = n
          /\ pc'[p] = IF n = Len(order) THEN "verify" ELSE "upload"
      BY <1>0 DEF TypeOK
    <2>4. \A i \in 1..n : <<order[i], cur[p]>> \in objects'
      <3>1. done[p] \in 0..9 /\ \A i \in 1..done[p] : <<order[i], cur[p]>> \in objects
        BY DEF TypeOK, UploadedSoFar, order
      <3>2. \A i \in 1..n : i \in 1..done[p] \/ i = n
        BY <3>1 DEF n
      <3> QED BY <1>0, <3>1, <3>2
    <2>5. UploadedSoFar /\ objects \subseteq objects'
      BY <1>0
    <2>6. n # Len(order) => n < Len(order)
      BY <1>0
    <2> HIDE DEF UploadNext, IInv
    <2>7. \A o \in Publisher : o # p => UploadedSoFar!(o)'
      BY <2>1, <2>2, <2>5 DEF UploadedSoFar
    <2>8. UploadedSoFar!(p)'
      BY <2>2, <2>3, <2>4, <2>6 DEF order
    <2> QED BY <2>7, <2>8 DEF UploadedSoFar
  <1>4. PutsInRange'
    BY DEF TypeOK, WorkHasRun, PutsInRange, Info
  <1>5. PointedIsComplete'
    BY DEF TypeOK, WorkHasRun, PointedIsComplete, Complete
  <1>6. OkMeansPublished'
    BY DEF TypeOK, WorkHasRun, OkMeansPublished, PutsInRange, Info
  <1>7. ReaderHoldsRun'
    BY DEF TypeOK, WorkHasRun, ReaderHoldsRun, Complete
  <1> QED BY <1>1, <1>2, <1>3, <1>4, <1>5, <1>6, <1>7 DEF IInv

\* Only an indexable run whose manifest was read back goes on to its pointers.
LEMMA VerifyManifestInv ==
    ASSUME IInv, NEW p \in Publisher, VerifyManifest(p)
    PROVE  IInv'
  <1> USE PublishConfigValid DEF IInv, VerifyManifest, Return
  <1>1. TypeOK'
    BY DEF TypeOK, NoRun, Run
  <1>2. WorkHasRun'
    <2>1. cur[p] \in Run /\ runs[cur[p]].status # "none"
      BY DEF WorkHasRun
    <2>2. \A o \in Publisher : pc'[o] # "idle" => pc[o] # "idle" /\ cur'[o] = cur[o]
      BY DEF TypeOK
    <2>3. \A r \in Run : r # cur[p] => result'[r] = result[r]
      BY DEF TypeOK
    <2>4. WorkHasRun /\ UNCHANGED <<runs, objects, wrote>>
      OBVIOUS
    <2> HIDE DEF IInv, VerifyManifest, Return
    <2> QED BY <2>1, <2>2, <2>3, <2>4 DEF WorkHasRun
  <1>3. UploadedSoFar'
    <2>1. \A o \in Publisher : pc'[o] # "idle" => Info(o)' = Info(o) /\ cur'[o] = cur[o]
      BY DEF TypeOK, Info
    <2>2. \A o \in Publisher :
             /\ pc'[o] \in {"upload", "verify"} => pc'[o] = pc[o]
             /\ pc'[o] = "pointers" =>
                   \/ pc[o] = "pointers"
                   \/ pc[o] = "verify" /\ Indexable(Info(o).status)
      BY DEF TypeOK
    <2>3. UploadedSoFar /\ UNCHANGED <<objects, done>>
      OBVIOUS
    <2> HIDE DEF IInv, VerifyManifest, Return
    <2> QED BY <2>1, <2>2, <2>3 DEF UploadedSoFar
  <1>4. PutsInRange'
    BY DEF TypeOK, WorkHasRun, PutsInRange, Info
  <1>5. PointedIsComplete'
    BY PointedStays
  <1>6. OkMeansPublished'
    <2>1. cur[p] \in Run
      BY DEF WorkHasRun
    <2>2. \A r \in Run : r # cur[p] => result'[r] = result[r]
      BY DEF TypeOK
    <2>3. result'[cur[p]] = "ok" => result[cur[p]] = "ok" \/ runs[cur[p]].status = "blocked"
      BY <2>1 DEF TypeOK, WorkHasRun, Indexable, Info
    <2> QED BY <2>1, <2>2, <2>3 DEF OkMeansPublished
  <1>7. ReaderHoldsRun'
    BY ReaderStays
  <1> QED BY <1>1, <1>2, <1>3, <1>4, <1>5, <1>6, <1>7 DEF IInv

\* A failed upload ends the run before any pointer.
LEMMA UploadFailsInv ==
    ASSUME IInv, NEW p \in Publisher, UploadFails(p)
    PROVE  IInv'
  <1> USE PublishConfigValid DEF IInv, UploadFails, Return
  <1>1. TypeOK'
    BY DEF TypeOK, NoRun, Run
  <1>2. WorkHasRun'
    BY DEF TypeOK, WorkHasRun, NoRun, Run
  <1>3. UploadedSoFar'
    BY DEF TypeOK, WorkHasRun, UploadedSoFar, Info
  <1>4. PutsInRange'
    BY DEF TypeOK, WorkHasRun, PutsInRange, Info
  <1>5. PointedIsComplete'
    BY PointedStays
  <1>6. OkMeansPublished'
    BY DEF TypeOK, WorkHasRun, OkMeansPublished, PutsInRange, Info
  <1>7. ReaderHoldsRun'
    BY ReaderStays
  <1> QED BY <1>1, <1>2, <1>3, <1>4, <1>5, <1>6, <1>7 DEF IInv

\* Looking up the ETag touches no pointer.
LEMMA HeadInv ==
    ASSUME IInv, NEW p \in Publisher, NEW s \in Slots, HeadEtag(p, s) \/ HeadFails(p, s)
    PROVE  IInv'
  <1> USE PublishConfigValid DEF IInv, HeadEtag, HeadFails
  <1>0. PICK q \in PutState : SetPut(p, s, q) /\ q.at \in {"put", "failed"}
    <2>1. index[s] \in Run \cup {NoRun} /\ 0 \in 0..(MaxAttempts - 1)
      <3>1. TypeOK
        OBVIOUS
      <3> HIDE DEF IInv, HeadEtag, HeadFails
      <3>2. index[s] \in Run \cup {NoRun}
        BY <3>1 DEF TypeOK
      <3> QED BY <3>2
    <2>2. CASE HeadEtag(p, s)
      BY <2>1, <2>2, LookedIsPut DEF HeadEtag
    <2>3. CASE HeadFails(p, s)
      BY <2>3, FinishedIsPut DEF HeadFails
    <2> QED BY <2>2, <2>3
  <1>p. /\ put' \in [Publisher -> [Slots -> PutState]] /\ put'[p][s] = q
        /\ \A o \in Publisher, t \in Slots : o # p \/ t # s => put'[o][t] = put[o][t]
    <2>1. TypeOK
      OBVIOUS
    <2> HIDE DEF IInv, HeadEtag, HeadFails
    <2> QED BY <1>0, <2>1, SetPutChangesOne
  <1>1. TypeOK'
    BY <1>p DEF TypeOK, PutState
  <1>2. WorkHasRun'
    BY DEF TypeOK, WorkHasRun, NoRun, Run
  <1>3. UploadedSoFar'
    BY DEF TypeOK, WorkHasRun, UploadedSoFar, Info
  <1>4. PutsInRange'
    <2>1. \A o \in Publisher : pc'[o] = pc[o] /\ Info(o)' = Info(o) /\ cur'[o] = cur[o]
      BY DEF Info
    <2>2. PutsInRange /\ wrote' = wrote /\ runs' = runs
      OBVIOUS
    <2>3. pc[p] = "pointers" /\ s \in Info(p).range
      BY DEF PutsInRange
    <2> HIDE DEF IInv, HeadEtag, HeadFails
    <2> QED BY <1>0, <1>p, <2>1, <2>2, <2>3 DEF PutsInRange
  <1>5. PointedIsComplete'
    BY PointedStays
  <1>6. OkMeansPublished'
    BY DEF TypeOK, WorkHasRun, OkMeansPublished, PutsInRange, Info
  <1>7. ReaderHoldsRun'
    BY ReaderStays
  <1> QED BY <1>1, <1>2, <1>3, <1>4, <1>5, <1>6, <1>7 DEF IInv

\* A put that was refused or lost touches no pointer.
LEMMA PutUnappliedInv ==
    ASSUME IInv, NEW p \in Publisher, NEW s \in Slots, PutRefused(p, s) \/ PutLost(p, s)
    PROVE  IInv'
  <1> USE PublishConfigValid DEF IInv, PutRefused, PutLost
  <1>0. PICK q \in PutState : SetPut(p, s, q) /\ q.at \in {"put", "failed"}
    <2>1. CASE PutRefused(p, s)
      BY <2>1, FinishedIsPut DEF PutRefused
    <2>2. CASE PutLost(p, s)
      BY <2>2, RetrySets DEF PutLost
    <2> QED BY <2>1, <2>2
  <1>p. /\ put' \in [Publisher -> [Slots -> PutState]] /\ put'[p][s] = q
        /\ \A o \in Publisher, t \in Slots : o # p \/ t # s => put'[o][t] = put[o][t]
    <2>1. TypeOK
      OBVIOUS
    <2> HIDE DEF IInv, PutRefused, PutLost
    <2> QED BY <1>0, <2>1, SetPutChangesOne
  <1>1. TypeOK'
    <2>1. TypeOK /\ UNCHANGED <<runs, objects, index, pc, cur, done, result, wrote, reader>>
      OBVIOUS
    <2> HIDE DEF IInv, PutRefused, PutLost
    <2> QED BY <1>p, <2>1 DEF TypeOK, PutState
  <1>2. WorkHasRun'
    BY DEF TypeOK, WorkHasRun, NoRun, Run
  <1>3. UploadedSoFar'
    BY DEF TypeOK, WorkHasRun, UploadedSoFar, Info
  <1>4. PutsInRange'
    <2>1. \A o \in Publisher : pc'[o] = pc[o] /\ Info(o)' = Info(o) /\ cur'[o] = cur[o]
      BY DEF Info
    <2>2. PutsInRange /\ wrote' = wrote /\ runs' = runs
      OBVIOUS
    <2>3. pc[p] = "pointers" /\ s \in Info(p).range
      BY DEF PutsInRange
    <2> HIDE DEF IInv, PutRefused, PutLost
    <2> QED BY <1>0, <1>p, <2>1, <2>2, <2>3 DEF PutsInRange
  <1>5. PointedIsComplete'
    BY PointedStays
  <1>6. OkMeansPublished'
    BY DEF TypeOK, WorkHasRun, OkMeansPublished, PutsInRange, Info
  <1>7. ReaderHoldsRun'
    BY ReaderStays
  <1> QED BY <1>1, <1>2, <1>3, <1>4, <1>5, <1>6, <1>7 DEF IInv

\* A publisher that puts pointers has all of its run's objects in the bucket.
LEMMA PointersStageComplete ==
    ASSUME IInv, NEW p \in Publisher, pc[p] = "pointers"
    PROVE  cur[p] \in Run /\ Complete(cur[p])
  <1> DEFINE order == UploadOrder(Info(p).status)
  <1>0. cur[p] \in Run
    BY DEF IInv, WorkHasRun
  <1>1. \A i \in 1..Len(order) : <<order[i], cur[p]>> \in objects
    BY DEF IInv, UploadedSoFar
  <1>2. Info(p).status \in {"success", "empty"}
    BY DEF IInv, UploadedSoFar, Indexable
  <1>3. /\ \E i \in 1..Len(order) : order[i] = "report"
        /\ \E i \in 1..Len(order) : order[i] = "manifest"
        /\ Info(p).status = "success" => \A k \in Kinds : \E i \in 1..Len(order) : order[i] = k
    BY OrderHolds
  <1> HIDE DEF order
  <1>4. {<<"report", cur[p]>>, <<"manifest", cur[p]>>} \subseteq objects
    BY <1>1, <1>3
  <1>5. Info(p).status = "success" => \A k \in Kinds : <<k, cur[p]>> \in objects
    BY <1>1, <1>3
  <1> QED BY <1>0, <1>2, <1>4, <1>5 DEF Complete, Info

\* A put that is applied names a complete run and a slot of its range.
LEMMA PutAppliedInv ==
    ASSUME IInv, NEW p \in Publisher, NEW s \in Slots, PutPointer(p, s) \/ PutAnswerLost(p, s)
    PROVE  IInv'
  <1> USE PublishConfigValid DEF IInv, PutPointer, PutAnswerLost, Accepts, Apply
  <1>0. PICK q \in PutState : SetPut(p, s, q) /\ q.at \in {"put", "ok", "failed"}
    <2>1. CASE PutPointer(p, s)
      BY <2>1, FinishedIsPut DEF PutPointer
    <2>2. CASE PutAnswerLost(p, s)
      BY <2>2, RetrySets DEF PutAnswerLost
    <2> QED BY <2>1, <2>2
  <1>p. /\ put' \in [Publisher -> [Slots -> PutState]] /\ put'[p][s] = q
        /\ \A o \in Publisher, t \in Slots : o # p \/ t # s => put'[o][t] = put[o][t]
    <2>1. TypeOK
      OBVIOUS
    <2> HIDE DEF IInv, PutPointer, PutAnswerLost, Accepts, Apply
    <2> QED BY <1>0, <2>1, SetPutChangesOne
  <1>a. /\ cur[p] \in Run /\ s \in Info(p).range /\ pc[p] = "pointers"
        /\ index' = [index EXCEPT ![s] = cur[p]]
        /\ wrote' = [wrote EXCEPT ![cur[p]] = @ \cup {s}]
        /\ UNCHANGED <<runs, objects, pc, cur, done, result, reader>>
    BY DEF WorkHasRun, PutsInRange
  <1> HIDE DEF PutPointer, PutAnswerLost, Accepts, Apply
  <1>1. TypeOK'
    <2>1. TypeOK
      OBVIOUS
    <2> HIDE DEF IInv
    <2>2. index' \in [Slots -> Run \cup {NoRun}]
      BY <1>a, <2>1 DEF TypeOK
    <2>3. wrote' \in [Run -> SUBSET Slots]
      BY <1>a, <2>1 DEF TypeOK
    <2> QED BY <1>p, <1>a, <2>1, <2>2, <2>3 DEF TypeOK, PutState
  <1>2. WorkHasRun'
    BY <1>a DEF TypeOK, WorkHasRun
  <1>3. UploadedSoFar'
    BY <1>a DEF UploadedSoFar, Info
  <1>4. PutsInRange'
    <2>1. \A o \in Publisher : pc'[o] = pc[o] /\ Info(o)' = Info(o) /\ cur'[o] = cur[o]
      BY <1>a DEF Info
    <2>2. PutsInRange /\ runs' = runs
      BY <1>a
    <2>3. s \in wrote'[cur[p]] /\ \A r \in Run : wrote[r] \subseteq wrote'[r]
      BY <1>a DEF TypeOK
    <2>4. \A r \in Run : wrote'[r] \subseteq runs[r].range
      BY <1>a DEF TypeOK, PutsInRange, Info
    <2>5. \A o \in Publisher : pc[o] = "pointers" => cur[o] \in Run
      BY DEF WorkHasRun
    <2> HIDE DEF IInv
    <2>6. ASSUME NEW o \in Publisher, NEW t \in Slots
          PROVE  /\ pc[o] \in {"upload", "verify"} => put'[o][t].at = "todo"
                 /\ pc[o] = "pointers" /\ put'[o][t].at # "todo" => t \in Info(o).range
                 /\ pc[o] = "pointers" /\ put'[o][t].at = "ok" => t \in wrote'[cur[o]]
      <3>1. CASE o = p /\ t = s
        BY <1>a, <2>3, <3>1
      <3>2. CASE o # p \/ t # s
        <4>1. put'[o][t] = put[o][t]
          BY <1>p, <3>2
        <4> QED BY <2>2, <2>3, <2>5, <4>1 DEF PutsInRange
      <3> QED BY <3>1, <3>2
    <2> QED BY <2>1, <2>2, <2>4, <2>6 DEF PutsInRange
  <1>5. PointedIsComplete'
    <2>1. Complete(cur[p])
      BY <1>a, PointersStageComplete
    <2>2. \A r : Complete(r)' <=> Complete(r)
      BY <1>a DEF Complete
    <2>3. /\ index'[s] = cur[p] /\ runs' = runs /\ s \in runs[cur[p]].range
          /\ \A t \in Slots : t # s => index'[t] = index[t]
      BY <1>a DEF TypeOK, Info
    <2> HIDE DEF IInv
    <2>4. PointedIsComplete
      BY DEF IInv
    <2> QED BY <2>1, <2>2, <2>3, <2>4 DEF PointedIsComplete
  <1>6. OkMeansPublished'
    <2>1. \A r \in Run : wrote[r] \subseteq wrote'[r] /\ wrote'[r] \subseteq runs[r].range
      BY <1>a DEF TypeOK, PutsInRange, Info
    <2>2. OkMeansPublished /\ runs' = runs /\ result' = result
      BY <1>a
    <2> QED BY <2>1, <2>2 DEF OkMeansPublished
  <1>7. ReaderHoldsRun'
    <2>1. ReaderHoldsRun /\ reader' = reader /\ runs' = runs /\ objects' = objects
      BY <1>a
    <2> HIDE DEF IInv
    <2> QED BY <2>1 DEF ReaderHoldsRun, Complete
  <1> QED BY <1>1, <1>2, <1>3, <1>4, <1>5, <1>6, <1>7 DEF IInv

\* The run returns Ok only when no put has failed.
LEMMA PublishedInv ==
    ASSUME IInv, NEW p \in Publisher, Published(p)
    PROVE  IInv'
  <1> USE PublishConfigValid DEF IInv, Published, Return
  <1>1. TypeOK'
    BY DEF TypeOK, NoRun, Run
  <1>2. WorkHasRun'
    BY DEF TypeOK, WorkHasRun, NoRun, Run
  <1>3. UploadedSoFar'
    BY DEF TypeOK, WorkHasRun, UploadedSoFar, Info
  <1>4. PutsInRange'
    <2>1. \A o \in Publisher : pc'[o] # "idle" => pc'[o] = pc[o] /\ cur'[o] = cur[o]
      BY DEF TypeOK
    <2>2. PutsInRange /\ UNCHANGED <<runs, put, wrote>>
      OBVIOUS
    <2> HIDE DEF IInv, Published, Return
    <2> QED BY <2>1, <2>2 DEF PutsInRange, Info
  <1>5. PointedIsComplete'
    BY PointedStays
  <1>6. OkMeansPublished'
    <2>1. cur[p] \in Run
      BY DEF WorkHasRun
    <2>2. \A r \in Run : r # cur[p] => result'[r] = result[r]
      BY DEF TypeOK
    <2>3. ASSUME result'[cur[p]] = "ok" PROVE wrote[cur[p]] = runs[cur[p]].range
      <3>1. \A s \in Info(p).range : put[p][s].at = "ok"
        BY <2>1, <2>3 DEF TypeOK, Answered
      <3>2. Info(p).range \subseteq Slots
        <4>1. runs[cur[p]].range \in Ranges \cup {{}}
          <5>1. TypeOK
            OBVIOUS
          <5> HIDE DEF IInv, Published, Return
          <5> QED BY <2>1, <5>1 DEF TypeOK
        <4> QED BY <4>1 DEF Info
      <3>3. Info(p).range \subseteq wrote[cur[p]]
        BY <3>1, <3>2 DEF PutsInRange
      <3> QED BY <2>1, <3>3 DEF PutsInRange, Info
    <2> QED BY <2>1, <2>2, <2>3 DEF OkMeansPublished
  <1>7. ReaderHoldsRun'
    BY ReaderStays
  <1> QED BY <1>1, <1>2, <1>3, <1>4, <1>5, <1>6, <1>7 DEF IInv

\* A crash keeps what is in the bucket.
LEMMA CrashInv ==
    ASSUME IInv, NEW p \in Publisher, Crash(p)
    PROVE  IInv'
  <1> USE PublishConfigValid DEF IInv, Crash
  <1>1. TypeOK'
    BY DEF TypeOK, NoRun, Run
  <1>2. WorkHasRun'
    BY DEF TypeOK, WorkHasRun, NoRun, Run
  <1>3. UploadedSoFar'
    BY DEF TypeOK, WorkHasRun, UploadedSoFar, Info
  <1>4. PutsInRange'
    BY DEF TypeOK, WorkHasRun, PutsInRange, Info
  <1>5. PointedIsComplete'
    BY PointedStays
  <1>6. OkMeansPublished'
    BY DEF TypeOK, WorkHasRun, OkMeansPublished, PutsInRange, Info
  <1>7. ReaderHoldsRun'
    BY ReaderStays
  <1> QED BY <1>1, <1>2, <1>3, <1>4, <1>5, <1>6, <1>7 DEF IInv

\* A reader moves along what its pointer named, and changes nothing.
LEMMA ReadInv ==
    ASSUME IInv, (\E s \in Slots : ReadPointer(s)) \/ ReadManifest \/ ReadReport \/ BuildReadPlan \/ ReadAgain
    PROVE  IInv'
  <1> USE PublishConfigValid DEF IInv, ReadPointer, ReadManifest, ReadReport, Download, BuildReadPlan, Admissible, ReadAgain, NoReader
  <1>0. UNCHANGED <<runs, objects, index, pc, cur, done, put, result, wrote>>
    OBVIOUS
  <1>1. TypeOK'
    <2>1. reader' \in [at : {"none", "pointer", "manifest", "report", "plan", "refused", "missing"},
                       slot : Slots, run : Run \cup {NoRun}]
      <3>1. CASE \E s \in Slots : ReadPointer(s)
        BY <3>1 DEF TypeOK
      <3>2. CASE ReadManifest \/ ReadReport \/ BuildReadPlan
        <4>1. PICK at \in {"manifest", "report", "plan", "refused", "missing"} :
                 reader' = [reader EXCEPT !.at = at]
          BY <3>2
        <4>2. TypeOK
          OBVIOUS
        <4> HIDE DEF IInv, ReadManifest, ReadReport, BuildReadPlan, Download
        <4> QED BY <4>1, <4>2 DEF TypeOK
      <3>3. CASE ReadAgain
        BY <3>3, (CHOOSE s \in Slots : TRUE) \in Slots
      <3> QED BY <3>1, <3>2, <3>3
    <2> QED BY <1>0, <2>1 DEF TypeOK
  <1>2. WorkHasRun'
    BY DEF TypeOK, WorkHasRun, NoRun, Run
  <1>3. UploadedSoFar'
    BY DEF TypeOK, WorkHasRun, UploadedSoFar, Info
  <1>4. PutsInRange'
    BY DEF TypeOK, WorkHasRun, PutsInRange, Info
  <1>5. PointedIsComplete'
    BY PointedStays
  <1>6. OkMeansPublished'
    BY DEF TypeOK, WorkHasRun, OkMeansPublished, PutsInRange, Info
  <1>7. ReaderHoldsRun'
    <2>1. \A r : Complete(r)' <=> Complete(r)
      BY <1>0 DEF Complete
    <2>2. CASE \E s \in Slots : ReadPointer(s)
      BY <1>0, <2>1, <2>2 DEF TypeOK, ReaderHoldsRun, PointedIsComplete
    <2>3. ASSUME NEW kind \in {"manifest", "report"}, NEW from \in {"pointer", "manifest"},
                 NEW to \in {"manifest", "report"}, Download(kind, from, to)
          PROVE  ReaderHoldsRun'
      <3>1. reader.run \in Run /\ Complete(reader.run) /\ reader.slot \in runs[reader.run].range
        BY <2>3 DEF ReaderHoldsRun
      <3>2. <<kind, reader.run>> \in objects
        BY <3>1 DEF Complete
      <3>3. reader' = [reader EXCEPT !.at = to]
        BY <2>3, <3>2
      <3> QED BY <1>0, <2>1, <3>1, <3>3 DEF TypeOK, ReaderHoldsRun
    <2>4. CASE BuildReadPlan
      <3>1. reader.run \in Run /\ Complete(reader.run) /\ reader.slot \in runs[reader.run].range
        BY <2>4 DEF ReaderHoldsRun
      <3>2. runs[reader.run].status \in {"success", "empty"}
        BY <3>1 DEF Complete
      <3> QED BY <1>0, <2>1, <2>4, <3>1, <3>2 DEF TypeOK, ReaderHoldsRun
    <2>5. CASE ReadAgain
      BY <2>5 DEF ReaderHoldsRun
    <2> QED BY <2>2, <2>3, <2>4, <2>5
  <1> QED BY <1>1, <1>2, <1>3, <1>4, <1>5, <1>6, <1>7 DEF IInv

\* Every step of publishers and reader preserves the invariant.
LEMMA NextInv == IInv /\ [Next]_vars => IInv'
  <1> SUFFICES ASSUME IInv, [Next]_vars PROVE IInv'
    OBVIOUS
  <1>1. CASE UNCHANGED vars
    <2> USE <1>1 DEF vars
    <2>1. TypeOK' /\ WorkHasRun'
      BY DEF IInv, TypeOK, WorkHasRun
    <2>2. UploadedSoFar'
      BY DEF IInv, UploadedSoFar, Info
    <2>3. PutsInRange'
      BY DEF IInv, PutsInRange, Info
    <2>4. PointedIsComplete' /\ ReaderHoldsRun'
      BY DEF IInv, PointedIsComplete, ReaderHoldsRun, Complete
    <2>5. OkMeansPublished'
      BY DEF IInv, OkMeansPublished
    <2> QED BY <2>1, <2>2, <2>3, <2>4, <2>5 DEF IInv
  <1>2. ASSUME NEW p \in Publisher, NEW r \in Run, NEW range \in Ranges,
               NEW status \in {"success", "empty", "blocked"}, BeginRun(p, r, range, status)
        PROVE  IInv'
    BY <1>2, BeginRunInv
  <1>3. ASSUME NEW p \in Publisher, PublishStep(p) \/ Crash(p)
        PROVE  IInv'
    <2>1. ASSUME PutStep(p) PROVE IInv'
      BY <2>1, HeadInv, PutUnappliedInv, PutAppliedInv DEF PutStep
    <2> QED BY <1>3, <2>1, UploadNextInv, VerifyManifestInv, UploadFailsInv, PublishedInv, CrashInv
            DEF PublishStep
  <1>4. ASSUME (\E s \in Slots : ReadPointer(s)) \/ ReadManifest \/ ReadReport \/ BuildReadPlan
               \/ ReadAgain
        PROVE  IInv'
    BY <1>4, ReadInv
  <1> QED BY <1>1, <1>2, <1>3, <1>4 DEF Next

\* The conjuncts above hold together in every reachable state: no one of them
\* is inductive without the others.
THEOREM PublishInvariance == Spec => []IInv
  BY InitInv, NextInv, PTL DEF Spec

\* The values of the publication, its puts and its reader stay in their types.
THEOREM PublishTypeCorrect == Spec => []TypeOK
  <1>1. IInv => TypeOK
    BY DEF IInv
  <1> QED BY <1>1, PublishInvariance, PTL

\* publish_outputs puts a pointer only when everything it leads to is in the
\* bucket, so no crash, failed upload or concurrent run leaves one dangling.
THEOREM PointersAreComplete == Spec => []PointedIsComplete
  <1>1. IInv => PointedIsComplete
    BY DEF IInv
  <1> QED BY <1>1, PublishInvariance, PTL

\* When publish_outputs returns Ok every slot of an indexable run had its
\* pointer put, whatever retries it took.
THEOREM OkIsPublished == Spec => []OkMeansPublished
  <1>1. IInv => OkMeansPublished
    BY DEF IInv
  <1> QED BY <1>1, PublishInvariance, PTL

\* read_plan, started from a pointer, finds manifest and report, and artifacts
\* when it makes a plan, also while the pointer is being replaced.
THEOREM ReaderIsNeverStranded == Spec => []ReaderNeverStranded
  <1>1. IInv => ReaderNeverStranded
    <2> SUFFICES ASSUME IInv, reader.at = "plan" PROVE <<"slices", reader.run>> \in objects
      BY DEF IInv, ReaderHoldsRun, ReaderNeverStranded
    <2> QED BY DEF IInv, ReaderHoldsRun, Complete, Kinds
  <1> QED BY <1>1, PublishInvariance, PTL

\* The step that changes a pointer is a put whose ETag was that pointer.
LEMMA NextReplacesSeen ==
    ASSUME IInv, [Next]_vars, NEW s \in Slots, index'[s] # index[s]
    PROVE  \E p \in Publisher : cur[p] = index'[s] /\ put[p][s].etag = index[s]
  <1>1. ASSUME NEW p \in Publisher, NEW t \in Slots, PutPointer(p, t) \/ PutAnswerLost(p, t)
        PROVE  cur[p] = index'[s] /\ put[p][s].etag = index[s]
    BY <1>1 DEF IInv, TypeOK, PutPointer, PutAnswerLost, Apply, Accepts
  <1>2. ASSUME NEW p \in Publisher, PublishStep(p) PROVE \E t \in Slots : PutPointer(p, t) \/ PutAnswerLost(p, t)
    BY <1>2 DEF PublishStep, PutStep, UploadNext, VerifyManifest, UploadFails, HeadEtag,
                HeadFails, PutRefused, PutLost, Published
  <1>3. \E p \in Publisher : PublishStep(p)
    BY DEF Next, vars, BeginRun, Crash, ReadPointer, ReadManifest, ReadReport, Download,
           BuildReadPlan, ReadAgain
  <1> QED BY <1>1, <1>2, <1>3

\* upload_json_if_pointer_current: the conditional put replaces the pointer
\* that its HEAD saw and no other, however many publishers race for the slot.
THEOREM NeverBlindOverwrite == Spec => NoBlindOverwrite
  <1>1. IInv /\ [Next]_vars =>
          [\A s \in Slots : index'[s] # index[s] =>
              \E p \in Publisher : cur[p] = index'[s] /\ put[p][s].etag = index[s]]_vars
    BY NextReplacesSeen
  <1> QED BY <1>1, PublishInvariance, PTL DEF Spec, NoBlindOverwrite

(***************************************************************************)
(* The refinement: every step of publishers and reader is a step of the    *)
(* atomic index, or leaves it alone.                                       *)
(***************************************************************************)

\* Nothing released, nothing pointed to and nothing read at the start.
LEMMA InitMaps == Init => Index!Init
  <1> SUFFICES ASSUME Init PROVE Index!Init
    OBVIOUS
  <1>1. Catalog = [r \in Run |-> {}]
    BY DEF Init, Catalog, Complete
  <1>2. Held = NoRun
    BY DEF Init, Held, NoReader
  <1> QED BY <1>1, <1>2 DEF Init, Index!Init

\* A step that leaves runs and objects alone leaves the catalog alone.
LEMMA CatalogStays ==
    ASSUME UNCHANGED <<runs, objects>>
    PROVE  Catalog' = Catalog
  <1>1. \A r : Complete(r)' <=> Complete(r)
    BY DEF Complete
  <1> QED BY <1>1 DEF Catalog

\* A run that begins is not released yet.
LEMMA BeginRunMaps ==
    ASSUME IInv, NEW p \in Publisher, NEW r \in Run, NEW range \in Ranges,
           NEW status \in {"success", "empty", "blocked"}, BeginRun(p, r, range, status)
    PROVE  UNCHANGED <<Catalog, index, Held>>
  <1>1. <<"report", r>> \notin objects
    BY DEF IInv, WorkHasRun, BeginRun, Kinds
  <1>2. ~Complete(r) /\ ~Complete(r)'
    BY <1>1 DEF Complete, BeginRun
  <1>3. \A q \in Run : q # r => (Complete(q)' <=> Complete(q)) /\ runs'[q] = runs[q]
    BY DEF IInv, TypeOK, Complete, BeginRun
  <1>4. Catalog' = Catalog
    BY <1>2, <1>3 DEF Catalog
  <1> QED BY <1>4 DEF BeginRun, Held

\* The upload of the last object releases the run, no other upload does.
LEMMA UploadNextMaps ==
    ASSUME IInv, NEW p \in Publisher, UploadNext(p)
    PROVE  \/ UNCHANGED <<Catalog, index, Held>>
           \/ Index!Release(cur[p], runs[cur[p]].range)
  <1>1. PICK c \in Run : c = cur[p]
    BY DEF IInv, WorkHasRun, UploadNext
  <1>2. runs' = runs /\ index' = index /\ Held' = Held
    BY DEF UploadNext, Held
  <1>3. PICK k : objects' = objects \cup {<<k, c>>}
    BY <1>1 DEF UploadNext
  <1>4. \A q \in Run : q # c => (Complete(q)' <=> Complete(q))
    BY <1>2, <1>3 DEF Complete
  <1>5. Complete(c) => Complete(c)'
    BY <1>2, <1>3 DEF Complete
  <1>6. CASE Complete(c) <=> Complete(c)'
    <2>1. Catalog' = Catalog
      BY <1>2, <1>4, <1>6 DEF Catalog
    <2> QED BY <1>2, <2>1
  <1>7. CASE ~Complete(c) /\ Complete(c)'
    <2>1. Catalog[c] = {}
      BY <1>1, <1>7 DEF Catalog
    <2>2. Catalog' = [Catalog EXCEPT ![c] = runs[c].range]
      BY <1>1, <1>2, <1>4, <1>7 DEF Catalog
    <2> QED BY <1>1, <1>2, <2>1, <2>2 DEF Index!Release
  <1> QED BY <1>5, <1>6, <1>7

\* A pointer that is put, whether the answer arrives or not, is a Point step.
LEMMA PutAppliedMaps ==
    ASSUME IInv, NEW p \in Publisher, NEW s \in Slots, PutPointer(p, s) \/ PutAnswerLost(p, s)
    PROVE  cur[p] \in Run /\ Index!Point(s, cur[p])
  <1>1. pc[p] = "pointers" /\ put[p][s].at = "put"
    BY DEF PutPointer, PutAnswerLost, Accepts
  <1>2. cur[p] \in Run /\ Complete(cur[p])
    BY <1>1, PointersStageComplete
  <1>3. s \in Catalog[cur[p]]
    BY <1>1, <1>2 DEF IInv, PutsInRange, Catalog, Info
  <1>4. Catalog' = Catalog /\ Held' = Held
    BY CatalogStays DEF PutPointer, PutAnswerLost, Held
  <1>5. index' = [index EXCEPT ![s] = cur[p]]
    BY DEF PutPointer, PutAnswerLost, Apply
  <1> QED BY <1>2, <1>3, <1>4, <1>5 DEF Index!Point

\* The other steps of a publisher are not seen in the index.
LEMMA QuietMaps ==
    ASSUME NEW p \in Publisher, NEW s \in Slots,
           \/ VerifyManifest(p) \/ UploadFails(p) \/ Published(p) \/ Crash(p)
           \/ HeadEtag(p, s) \/ HeadFails(p, s) \/ PutRefused(p, s) \/ PutLost(p, s)
    PROVE  UNCHANGED <<Catalog, index, Held>>
  <1>1. UNCHANGED <<runs, objects, index, reader>>
    BY DEF VerifyManifest, UploadFails, Published, Crash, HeadEtag, HeadFails, PutRefused, PutLost
  <1> QED BY <1>1, CatalogStays DEF Held

\* The reader takes its run from the pointer and keeps it until it is done.
LEMMA ReadMaps ==
    ASSUME IInv
    PROVE  /\ \A s \in Slots : ReadPointer(s) => Index!LookUp(s)
           /\ ReadManifest \/ ReadReport \/ BuildReadPlan => UNCHANGED <<Catalog, index, Held>>
           /\ ReadAgain => Index!ReadDone
  <1>1. ASSUME NEW s \in Slots, ReadPointer(s) PROVE Index!LookUp(s)
    <2>1. Catalog' = Catalog
      BY <1>1, CatalogStays DEF ReadPointer
    <2>2. Held = NoRun /\ Held' = index[s]
      BY <1>1 DEF ReadPointer, Held, IInv, ReaderHoldsRun
    <2> QED BY <1>1, <2>1, <2>2 DEF ReadPointer, Index!LookUp
  <1>2. ASSUME NEW kind \in {"manifest", "report"}, NEW from \in {"pointer", "manifest"},
               NEW to \in {"manifest", "report"}, Download(kind, from, to)
        PROVE  UNCHANGED <<Catalog, index, Held>>
    <2>1. Catalog' = Catalog
      BY <1>2, CatalogStays DEF Download
    <2>2. <<kind, reader.run>> \in objects
      BY <1>2 DEF Download, IInv, ReaderHoldsRun, Complete
    <2>3. reader' = [reader EXCEPT !.at = to]
      BY <1>2, <2>2 DEF Download
    <2>4. Held' = Held
      BY <1>2, <2>3 DEF Download, Held, IInv, TypeOK, ReaderHoldsRun
    <2> QED BY <1>2, <2>1, <2>4 DEF Download
  <1>3. ASSUME BuildReadPlan PROVE UNCHANGED <<Catalog, index, Held>>
    <2>1. Catalog' = Catalog
      BY <1>3, CatalogStays DEF BuildReadPlan
    <2>2. Held' = Held
      BY <1>3 DEF BuildReadPlan, Held, IInv, TypeOK
    <2> QED BY <1>3, <2>1, <2>2 DEF BuildReadPlan
  <1>4. ASSUME ReadAgain PROVE Index!ReadDone
    <2>1. Catalog' = Catalog
      BY <1>4, CatalogStays DEF ReadAgain
    <2>2. Held # NoRun
      BY <1>4, PublishConfigValid DEF ReadAgain, Held, IInv, ReaderHoldsRun, Run, NoRun
    <2>3. Held' = NoRun
      BY <1>4 DEF ReadAgain, Held, NoReader
    <2> QED BY <1>4, <2>1, <2>2, <2>3 DEF ReadAgain, Index!ReadDone
  <1> QED BY <1>1, <1>2, <1>3, <1>4 DEF ReadManifest, ReadReport

\* Every step maps to a step of the index or to a stutter.
LEMMA StepMaps == IInv /\ [Next]_vars => [Index!Next]_(Index!indexVars)
  <1> SUFFICES ASSUME IInv, [Next]_vars
               PROVE  Index!Next \/ UNCHANGED <<Catalog, index, Held>>
    BY DEF Index!indexVars
  <1>1. CASE UNCHANGED vars
    BY <1>1, CatalogStays DEF vars, Held
  <1>2. CASE \E p \in Publisher, r \in Run, range \in Ranges,
                status \in {"success", "empty", "blocked"} : BeginRun(p, r, range, status)
    BY <1>2, BeginRunMaps
  <1>3. ASSUME NEW p \in Publisher, PublishStep(p) \/ Crash(p)
        PROVE  Index!Next \/ UNCHANGED <<Catalog, index, Held>>
    <2>1. CASE UploadNext(p)
      <3>1. cur[p] \in Run /\ runs[cur[p]].range \in SUBSET Slots
        <4>1. TypeOK /\ WorkHasRun /\ pc[p] # "idle"
          BY <2>1 DEF IInv, UploadNext
        <4>2. cur[p] \in Run
          BY <4>1 DEF WorkHasRun
        <4>3. runs[cur[p]].range \in Ranges \cup {{}}
          BY <4>1, <4>2 DEF TypeOK
        <4> QED BY <4>2, <4>3, PublishConfigValid
      <3> QED BY <2>1, <3>1, UploadNextMaps DEF Index!Next
    <2>2. CASE \E s \in Slots : PutPointer(p, s) \/ PutAnswerLost(p, s)
      BY <2>2, PutAppliedMaps DEF Index!Next
    <2>3. PICK s \in Slots : TRUE
      BY PublishConfigValid
    <2>4. CASE VerifyManifest(p) \/ UploadFails(p) \/ Published(p) \/ Crash(p)
      BY <2>3, <2>4, QuietMaps
    <2>5. CASE \E t \in Slots : HeadEtag(p, t) \/ HeadFails(p, t) \/ PutRefused(p, t) \/ PutLost(p, t)
      BY <2>5, QuietMaps
    <2> QED BY <1>3, <2>1, <2>2, <2>4, <2>5 DEF PublishStep, PutStep
  <1>4. CASE (\E s \in Slots : ReadPointer(s)) \/ ReadManifest \/ ReadReport \/ BuildReadPlan
             \/ ReadAgain
    BY <1>4, ReadMaps DEF Index!Next
  <1> QED BY <1>1, <1>2, <1>3, <1>4 DEF Next

\* publish_outputs and read_plan implement the atomic index, for any number of
\* publishers, slots, ranges, attempts and runs.
THEOREM PublishImplementsIndex == Spec => ImplementsIndex
  BY InitMaps, StepMaps, PublishInvariance, PTL DEF Spec, ImplementsIndex, Index!Spec
===============================================================================

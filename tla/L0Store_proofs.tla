---------------------------- MODULE L0Store_proofs ----------------------------
(***************************************************************************)
(* What the L0 sink stores, reports and evicts, for every flush size, cap, *)
(* number of runs and number of loops on the spool.  The sink itself and its*)
(* inductive invariant are in L0Sink_proofs.                               *)
(***************************************************************************)
EXTENDS L0Spool, L0Sink_proofs

(***************************************************************************)
(* No record is stored twice: buffers, batch and stored objects hold       *)
(* different records at every moment.                                      *)
(***************************************************************************)

\* Buffers hold different records, all of them handed out ...
BufferedOnce ==
    /\ \A p \in Partition : \A i \in DOMAIN buffers[p] : buffers[p][i] < next_ordinal
    /\ \A p, q \in Partition : \A i \in DOMAIN buffers[p] : \A j \in DOMAIN buffers[q] :
          buffers[p][i] = buffers[q][j] => p = q /\ i = j

\* ... the batch holds others ...
BatchApart ==
    stage # "none" =>
        /\ \A i, j \in DOMAIN batch : batch[i] = batch[j] => i = j
        /\ \A i \in DOMAIN batch :
              /\ batch[i] < next_ordinal
              /\ \A p \in Partition : \A j \in DOMAIN buffers[p] : buffers[p][j] # batch[i]

\* ... and the objects of this run others again.
StoredApart ==
    up => \A k \in DOMAIN s3 : k[1] = run =>
        \A i \in DOMAIN s3[k] :
            /\ s3[k][i] < next_ordinal
            /\ \A p \in Partition : \A j \in DOMAIN buffers[p] : buffers[p][j] # s3[k][i]
            /\ stage \in {"create", "write", "upload"} =>
                  \A j \in DOMAIN batch : batch[j] # s3[k][i]

OnceInv == BufferedOnce /\ BatchApart /\ StoredApart /\ NoRecordStoredTwice

\* The new object holds the records of the batch, which no object has yet.
LEMMA LandsOnce ==
    ASSUME IInv, OnceInv, stage = "upload",
           s3' = s3 \/ s3' = Put(s3, CurKey, spool[CurKey].recs)
    PROVE  NoRecordStoredTwice'
<1>1. /\ CurKey[1] = run /\ up /\ CurKey \notin DOMAIN s3 /\ spool[CurKey].recs = batch
  BY CurKeyType DEF IInv, BatchPlace, FlushHasOwner
<1>2. CASE s3' = s3
  BY <1>2 DEF OnceInv, NoRecordStoredTwice
<1>3. CASE s3' = Put(s3, CurKey, batch)
  <2>1. /\ DOMAIN s3' = DOMAIN s3 \cup {CurKey} /\ s3'[CurKey] = batch
        /\ \A k \in DOMAIN s3 : s3'[k] = s3[k]
    BY <1>1, <1>3 DEF Put
  <2> SUFFICES ASSUME NEW k \in DOMAIN s3', NEW l \in DOMAIN s3',
                      NEW i \in DOMAIN s3'[k], NEW j \in DOMAIN s3'[l],
                      k[1] = l[1], s3'[k][i] = s3'[l][j]
               PROVE  k = l /\ i = j
    BY DEF NoRecordStoredTwice
  <2>2. ASSUME NEW m \in DOMAIN s3, m[1] = run, NEW a \in DOMAIN s3[m], NEW b \in DOMAIN batch
        PROVE  batch[b] # s3[m][a]
    BY <1>1, <2>2 DEF OnceInv, StoredApart
  <2>3. CASE k = CurKey /\ l = CurKey
    BY <2>1, <2>3 DEF OnceInv, BatchApart
  <2>4. CASE k = CurKey /\ l # CurKey
    BY <1>1, <2>1, <2>2, <2>4
  <2>5. CASE k # CurKey /\ l = CurKey
    BY <1>1, <2>1, <2>2, <2>5
  <2>6. CASE k # CurKey /\ l # CurKey
    BY <2>1, <2>6 DEF OnceInv, NoRecordStoredTwice
  <2> QED BY <2>3, <2>4, <2>5, <2>6
<1> QED BY <1>1, <1>2, <1>3

\* Taking a batch moves records and copies none.
LEMMA TakenOnce ==
    ASSUME IInv, OnceInv, up, stage = "none",
           NEW p \in Partition, NEW records \in Ordinals, TakeBatch(p, records),
           UNCHANGED <<run, up, s3>>,
           next_ordinal' \in Nat, next_ordinal <= next_ordinal',
           \A i \in DOMAIN records : records[i] < next_ordinal',
           \A i, j \in DOMAIN records : records[i] = records[j] => i = j,
           \A i \in DOMAIN records :
              /\ \A q \in Partition \ {p} : \A j \in DOMAIN buffers[q] :
                    buffers[q][j] # records[i]
              /\ \A k \in DOMAIN s3 : k[1] = run =>
                    \A j \in DOMAIN s3[k] : s3[k][j] # records[i]
    PROVE  OnceInv'
<1>1. /\ \A q \in Partition : q # p => buffers'[q] = buffers[q]
      /\ buffers'[p] = << >> /\ batch' = records /\ stage' = "create"
  BY DEF TakeBatch, IInv, TypeOK
<1>2. \A q \in Partition : \A i \in DOMAIN buffers'[q] :
        q # p /\ i \in DOMAIN buffers[q] /\ buffers'[q][i] = buffers[q][i]
  BY <1>1
<1>3. \A q \in Partition : \A i \in DOMAIN buffers[q] : buffers[q][i] \in Nat
  BY DEF IInv, TypeOK, Ordinals
<1>4. \A k \in DOMAIN s3 : \A i \in DOMAIN s3[k] : s3[k][i] \in Nat
  BY DEF IInv, TypeOK, Ordinals
<1>5. next_ordinal \in Nat
  BY DEF IInv, TypeOK
<1>6. BufferedOnce'
  <2>1. \A q \in Partition : \A i \in DOMAIN buffers'[q] : buffers'[q][i] < next_ordinal'
    BY <1>2, <1>3, <1>5 DEF OnceInv, BufferedOnce
  <2>2. \A q, r \in Partition : \A i \in DOMAIN buffers'[q] : \A j \in DOMAIN buffers'[r] :
          buffers'[q][i] = buffers'[r][j] => q = r /\ i = j
    BY <1>2 DEF OnceInv, BufferedOnce
  <2> QED BY <2>1, <2>2 DEF BufferedOnce
<1>7. BatchApart'
  BY <1>1, <1>2 DEF BatchApart
<1>8. StoredApart'
  <2> SUFFICES ASSUME NEW k \in DOMAIN s3, k[1] = run, NEW i \in DOMAIN s3[k]
               PROVE  /\ s3[k][i] < next_ordinal'
                      /\ \A q \in Partition : \A j \in DOMAIN buffers'[q] :
                            buffers'[q][j] # s3[k][i]
                      /\ \A j \in DOMAIN batch' : batch'[j] # s3[k][i]
    BY DEF StoredApart
  <2>1. s3[k][i] < next_ordinal'
    BY <1>4, <1>5 DEF OnceInv, StoredApart
  <2>2. \A q \in Partition : \A j \in DOMAIN buffers'[q] : buffers'[q][j] # s3[k][i]
    BY <1>2 DEF OnceInv, StoredApart
  <2>3. \A j \in DOMAIN batch' : batch'[j] # s3[k][i]
    BY <1>1
  <2> QED BY <2>1, <2>2, <2>3
<1>9. NoRecordStoredTwice'
  BY DEF OnceInv, NoRecordStoredTwice
<1> QED BY <1>6, <1>7, <1>8, <1>9 DEF OnceInv

\* The elements of an appended sequence, by position.
LEMMA AppendElements ==
    ASSUME NEW s \in Ordinals, NEW x \in Nat
    PROVE  \A i \in DOMAIN Append(s, x) :
              \/ i \in DOMAIN s /\ Append(s, x)[i] = s[i]
              \/ i = Len(s) + 1 /\ Append(s, x)[i] = x
BY DEF Ordinals

\* append_record gives each record an ordinal of its own, wherever it ends up.
LEMMA AppendOnce ==
    ASSUME IInv, OnceInv, NEW p \in Partition, AppendRecord(p) PROVE OnceInv'
<1> DEFINE records == Append(buffers[p], next_ordinal)
<1>1. /\ next_ordinal' = next_ordinal + 1 /\ next_ordinal \in Nat
      /\ up /\ stage = "none" /\ UNCHANGED <<run, up, s3>>
  BY DEF AppendRecord, IInv, FlushHasOwner, TypeOK, storeVars
<1>2. records \in Ordinals
  BY <1>1 DEF IInv, TypeOK, Ordinals
<1>3. \A q \in Partition : \A i \in DOMAIN buffers[q] :
        buffers[q][i] \in Nat /\ buffers[q][i] < next_ordinal
  BY DEF IInv, TypeOK, Ordinals, OnceInv, BufferedOnce
<1>4. \A k \in DOMAIN s3 : k[1] = run => \A i \in DOMAIN s3[k] :
        s3[k][i] \in Nat /\ s3[k][i] < next_ordinal
  BY <1>1 DEF IInv, TypeOK, Ordinals, OnceInv, StoredApart
<1>5. \A i \in DOMAIN records :
        \/ i \in DOMAIN buffers[p] /\ records[i] = buffers[p][i]
        \/ i = Len(buffers[p]) + 1 /\ records[i] = next_ordinal
  BY <1>1, AppendElements DEF IInv, TypeOK
<1> HIDE DEF records
<1>6. \A i \in DOMAIN records : records[i] < next_ordinal'
  BY <1>1, <1>3, <1>5
<1>7. ASSUME NEW i \in DOMAIN records, NEW j \in DOMAIN records, records[i] = records[j]
      PROVE  i = j
  BY <1>1, <1>3, <1>5, <1>7 DEF OnceInv, BufferedOnce
<1>8. ASSUME NEW i \in DOMAIN records,
             NEW q \in Partition, q # p, NEW j \in DOMAIN buffers[q]
      PROVE  buffers[q][j] # records[i]
  BY <1>1, <1>3, <1>5, <1>8 DEF OnceInv, BufferedOnce
<1>9. ASSUME NEW i \in DOMAIN records,
             NEW k \in DOMAIN s3, k[1] = run, NEW j \in DOMAIN s3[k]
      PROVE  s3[k][j] # records[i]
  BY <1>1, <1>4, <1>5, <1>9 DEF OnceInv, StoredApart
<1>10. CASE Len(records) >= FlushRecords
  <2>1. TakeBatch(p, records)
    BY <1>10 DEF AppendRecord, records
  <2>2. next_ordinal' \in Nat /\ next_ordinal <= next_ordinal'
    BY <1>1
  <2> QED BY <1>1, <1>2, <1>6, <1>7, <1>8, <1>9, <2>1, <2>2, TakenOnce
<1>11. CASE ~(Len(records) >= FlushRecords)
  <2>1. buffers' = [buffers EXCEPT ![p] = records] /\ UNCHANGED <<stage, batch>>
    BY <1>11 DEF AppendRecord, records
  <2>2. /\ buffers'[p] = records
        /\ \A q \in Partition : q # p => buffers'[q] = buffers[q]
    BY <2>1 DEF IInv, TypeOK
  <2>3. \A q \in Partition : \A i \in DOMAIN buffers'[q] : buffers'[q][i] < next_ordinal'
    BY <1>1, <1>3, <1>6, <2>2
  <2>4. ASSUME NEW q \in Partition, NEW r \in Partition,
               NEW i \in DOMAIN buffers'[q], NEW j \in DOMAIN buffers'[r],
               buffers'[q][i] = buffers'[r][j]
        PROVE  q = r /\ i = j
    <3>1. CASE q = p /\ r = p
      BY <1>7, <2>2, <2>4, <3>1
    <3>2. CASE q = p /\ r # p
      BY <1>8, <2>2, <2>4, <3>2
    <3>3. CASE q # p /\ r = p
      BY <1>8, <2>2, <2>4, <3>3
    <3>4. CASE q # p /\ r # p
      BY <2>2, <2>4, <3>4 DEF OnceInv, BufferedOnce
    <3> QED BY <3>1, <3>2, <3>3, <3>4
  <2>5. BatchApart'
    BY <1>1, <2>1 DEF BatchApart
  <2>6. ASSUME NEW k \in DOMAIN s3, k[1] = run, NEW i \in DOMAIN s3[k]
        PROVE  /\ s3[k][i] < next_ordinal'
               /\ \A q \in Partition : \A j \in DOMAIN buffers'[q] : buffers'[q][j] # s3[k][i]
    <3>1. s3[k][i] < next_ordinal'
      BY <1>1, <1>4, <2>6
    <3>2. ASSUME NEW q \in Partition, NEW j \in DOMAIN buffers'[q]
          PROVE  buffers'[q][j] # s3[k][i]
      <4>1. CASE q = p
        BY <1>9, <2>2, <2>6, <4>1
      <4>2. CASE q # p
        <5>1. j \in DOMAIN buffers[q] /\ buffers'[q][j] = buffers[q][j]
          BY <2>2, <4>2
        <5>2. up /\ StoredApart
          BY <1>1 DEF OnceInv
        <5> QED BY <2>6, <5>1, <5>2 DEF StoredApart
      <4> QED BY <4>1, <4>2
    <3> QED BY <3>1, <3>2
  <2>7. StoredApart'
    <3>1. stage' = "none" /\ s3' = s3 /\ run' = run
      BY <1>1, <2>1
    <3> QED BY <2>6, <3>1 DEF StoredApart
  <2>8. NoRecordStoredTwice'
    BY <1>1 DEF OnceInv, NoRecordStoredTwice
  <2> QED BY <2>3, <2>4, <2>5, <2>7, <2>8 DEF OnceInv, BufferedOnce
<1> QED BY <1>10, <1>11

\* What a step leaves alone stays apart.
LEMMA BufferedKept ==
    ASSUME BufferedOnce, UNCHANGED <<next_ordinal, buffers>>
    PROVE  BufferedOnce'
  BY DEF BufferedOnce

LEMMA BatchKept ==
    ASSUME BatchApart, UNCHANGED <<next_ordinal, buffers>>,
           stage' = "none" \/ (stage # "none" /\ batch' = batch)
    PROVE  BatchApart'
<1> SUFFICES ASSUME stage' # "none"
             PROVE  /\ \A i, j \in DOMAIN batch : batch[i] = batch[j] => i = j
                    /\ \A i \in DOMAIN batch :
                          /\ batch[i] < next_ordinal
                          /\ \A p \in Partition : \A j \in DOMAIN buffers[p] : buffers[p][j] # batch[i]
  BY DEF BatchApart
<1> QED BY DEF BatchApart

LEMMA StoredKept ==
    ASSUME StoredApart, UNCHANGED <<next_ordinal, buffers, s3, run>>, up' => up,
           \/ stage' \notin {"create", "write", "upload"}
           \/ stage \in {"create", "write", "upload"} /\ batch' = batch
    PROVE  StoredApart'
<1> SUFFICES ASSUME up', NEW k \in DOMAIN s3, k[1] = run, NEW i \in DOMAIN s3[k]
             PROVE  /\ s3[k][i] < next_ordinal
                    /\ \A p \in Partition : \A j \in DOMAIN buffers[p] : buffers[p][j] # s3[k][i]
                    /\ stage' \in {"create", "write", "upload"} =>
                          \A j \in DOMAIN batch' : batch'[j] # s3[k][i]
  BY DEF StoredApart
<1>1. /\ s3[k][i] < next_ordinal
      /\ \A p \in Partition : \A j \in DOMAIN buffers[p] : buffers[p][j] # s3[k][i]
      /\ stage \in {"create", "write", "upload"} => \A j \in DOMAIN batch : batch[j] # s3[k][i]
  BY DEF StoredApart
<1> QED BY <1>1

LEMMA ObjectsKept ==
    ASSUME NoRecordStoredTwice, UNCHANGED s3
    PROVE  NoRecordStoredTwice'
  BY DEF NoRecordStoredTwice

\* Every step keeps buffers, batch and stored objects apart.
LEMMA OnceStep == ASSUME IInv, OnceInv, [Next]_vars PROVE OnceInv'
<1> USE DEF OnceInv
<1>1. CASE New
  <2>1. /\ buffers' = [p \in Partition |-> << >>] /\ stage' = "none"
        /\ s3' = s3 /\ run' = run + 1
    BY <1>1 DEF New, EmptySink, storeVars
  <2>2. \A k \in DOMAIN s3' : k[1] # run'
    BY <2>1 DEF IInv, KeysHandedOut, TypeOK, Key
  <2>3. BufferedOnce' /\ BatchApart' /\ StoredApart'
    BY <2>1, <2>2 DEF BufferedOnce, BatchApart, StoredApart
  <2> QED BY <2>1, <2>3 DEF NoRecordStoredTwice
<1>2. ASSUME NEW p \in Partition, AppendRecord(p) PROVE OnceInv'
  BY <1>2, AppendOnce
<1>3. ASSUME NEW p \in Partition, AppendRejected(p) PROVE OnceInv'
  <2>1. /\ next_ordinal' = next_ordinal + 1 /\ stage = "none" /\ next_ordinal \in Nat
        /\ UNCHANGED <<buffers, batch, stage, s3, run, up>>
    BY <1>3 DEF AppendRejected, storeVars, IInv, FlushHasOwner, TypeOK
  <2>2. \A q \in Partition : \A i \in DOMAIN buffers[q] : buffers[q][i] \in Nat
    BY DEF IInv, TypeOK, Ordinals
  <2>3. \A k \in DOMAIN s3 : \A i \in DOMAIN s3[k] : s3[k][i] \in Nat
    BY DEF IInv, TypeOK, Ordinals
  <2>4. BufferedOnce'
    BY <2>1, <2>2 DEF BufferedOnce
  <2>5. BatchApart'
    BY <2>1 DEF BatchApart
  <2>6. StoredApart'
    BY <2>1, <2>3 DEF StoredApart
  <2> QED BY <2>1, <2>4, <2>5, <2>6 DEF NoRecordStoredTwice
<1>4. CASE (\E final \in BOOLEAN : FlushAll(final)) \/ FlushAllReturns \/ UNCHANGED vars
           \/ CreateParquet \/ WriteParquet
  <2>1. /\ UNCHANGED <<next_ordinal, buffers, batch, s3, run, up>>
        /\ stage' = stage \/ {stage, stage'} \subseteq {"create", "write", "upload"}
    BY <1>4 DEF FlushAll, FlushAllReturns, CreateParquet, WriteParquet, vars, sinkVars, storeVars
  <2>2. BufferedOnce' /\ NoRecordStoredTwice'
    BY <2>1, BufferedKept, ObjectsKept
  <2>3. BatchApart'
    BY <2>1, BatchKept
  <2>4. StoredApart'
    BY <2>1, StoredKept
  <2> QED BY <2>2, <2>3, <2>4
<1>5. ASSUME NEW p \in Partition, FlushNext(p) PROVE OnceInv'
  <2>1. /\ up /\ stage = "none" /\ TakeBatch(p, buffers[p])
        /\ UNCHANGED <<run, up, s3, next_ordinal>> /\ next_ordinal \in Nat
        /\ buffers[p] \in Ordinals
    BY <1>5, SinkConfigValid DEF FlushNext, storeVars, IInv, FlushHasOwner, TypeOK
  <2>2. /\ \A i \in DOMAIN buffers[p] : buffers[p][i] < next_ordinal'
        /\ \A i, j \in DOMAIN buffers[p] : buffers[p][i] = buffers[p][j] => i = j
    BY <2>1 DEF BufferedOnce
  <2>3. ASSUME NEW i \in DOMAIN buffers[p],
               NEW q \in Partition \ {p}, NEW j \in DOMAIN buffers[q]
        PROVE  buffers[q][j] # buffers[p][i]
    BY DEF BufferedOnce
  <2>4. ASSUME NEW i \in DOMAIN buffers[p],
               NEW k \in DOMAIN s3, k[1] = run, NEW j \in DOMAIN s3[k]
        PROVE  s3[k][j] # buffers[p][i]
    BY <2>1, <2>4 DEF StoredApart
  <2>5. next_ordinal' \in Nat /\ next_ordinal <= next_ordinal'
    BY <2>1
  <2> QED BY <2>1, <2>2, <2>3, <2>4, <2>5, TakenOnce
<1>6. CASE WriteParquetFails \/ FlushAllFails \/ SealAndRecord \/ UploadManifest
           \/ UploadManifestFails
  <2>1. /\ UNCHANGED <<next_ordinal, buffers, s3, run>>
        /\ stage' = "none" /\ (up' => up)
    BY <1>6, SinkConfigValid DEF WriteParquetFails, FlushAllFails, SealAndRecord, UploadManifest,
       UploadManifestFails, OperationFails, FlushReturns, storeVars, IInv, FlushHasOwner, TypeOK
  <2>2. BufferedOnce' /\ NoRecordStoredTwice'
    BY <2>1, BufferedKept, ObjectsKept
  <2>3. BatchApart'
    BY <2>1, BatchKept
  <2>4. StoredApart'
    BY <2>1, StoredKept
  <2> QED BY <2>2, <2>3, <2>4
<1>7. CASE UploadOk \/ UploadFails
  <2>1. /\ UNCHANGED <<next_ordinal, buffers, run, up>> /\ up /\ stage = "upload"
        /\ (stage' = "seal" /\ batch' = batch) \/ stage' = "none"
        /\ s3' = s3 \/ s3' = Put(s3, CurKey, spool[CurKey].recs)
    BY <1>7 DEF UploadOk, UploadFails, FlushReturns
  <2>2. NoRecordStoredTwice'
    BY <2>1, LandsOnce
  <2>3. BufferedOnce' /\ BatchApart'
    BY <2>1, BufferedKept, BatchKept
  <2>4. StoredApart'
    <3>0. stage' \notin {"create", "write", "upload"}
      BY <2>1
    <3> SUFFICES ASSUME NEW k \in DOMAIN s3', k[1] = run, NEW i \in DOMAIN s3'[k]
                 PROVE  /\ s3'[k][i] < next_ordinal
                        /\ \A p \in Partition : \A j \in DOMAIN buffers[p] :
                              buffers[p][j] # s3'[k][i]
      BY <2>1, <3>0 DEF StoredApart
    <3>1. spool[CurKey].recs = batch
      BY <2>1 DEF IInv, BatchPlace
    <3>2. \/ k \in DOMAIN s3 /\ s3'[k] = s3[k]
          \/ s3'[k] = batch
      BY <2>1, <3>1 DEF Put
    <3>3. CASE k \in DOMAIN s3 /\ s3'[k] = s3[k]
      BY <2>1, <3>3 DEF StoredApart
    <3>4. CASE s3'[k] = batch
      BY <2>1, <3>4 DEF BatchApart
    <3> QED BY <3>2, <3>3, <3>4
  <2> QED BY <2>2, <2>3, <2>4
<1>8. CASE Crash
  <2>1. /\ buffers' = [p \in Partition |-> << >>] /\ stage' = "none" /\ ~up'
        /\ \/ s3' = s3
           \/ stage = "upload" /\ s3' = Put(s3, CurKey, spool[CurKey].recs)
    BY <1>8 DEF Crash, EmptySink
  <2>2. NoRecordStoredTwice'
    <3>1. CASE s3' = s3
      BY <3>1 DEF NoRecordStoredTwice
    <3>2. CASE stage = "upload" /\ s3' = Put(s3, CurKey, spool[CurKey].recs)
      BY <3>2, LandsOnce
    <3> QED BY <2>1, <3>1, <3>2
  <2>3. BufferedOnce'
    BY <2>1 DEF BufferedOnce
  <2>4. BatchApart' /\ StoredApart'
    BY <2>1 DEF BatchApart, StoredApart
  <2> QED BY <2>2, <2>3, <2>4
<1> QED BY <1>1, <1>2, <1>3, <1>4, <1>5, <1>6, <1>7, <1>8 DEF Next, FlushStep

\* Nothing is buffered or stored at the start.
LEMMA OnceInit == Init => OnceInv
<1> SUFFICES ASSUME Init PROVE OnceInv
  OBVIOUS
<1>1. /\ ~up /\ stage = "none" /\ DOMAIN s3 = {}
      /\ \A p \in Partition : DOMAIN buffers[p] = {}
  BY DEF Init
<1>2. BufferedOnce /\ BatchApart
  BY <1>1 DEF BufferedOnce, BatchApart
<1>3. StoredApart /\ NoRecordStoredTwice
  BY <1>1 DEF StoredApart, NoRecordStoredTwice
<1> QED BY <1>2, <1>3 DEF OnceInv

\* One record is in at most one position of one object of its run, over all
\* restarts, failed uploads that landed and torn writes.
THEOREM StoredOnce == Spec => []NoRecordStoredTwice
<1>1. Init => OnceInv
  BY OnceInit
<1>2. IInv /\ OnceInv /\ [Next]_vars => OnceInv'
  BY OnceStep
<1>3. OnceInv => NoRecordStoredTwice
  BY DEF OnceInv
<1> QED BY <1>1, <1>2, <1>3, Invariance, PTL DEF Spec

-----------------------------------------------------------------------------
(***************************************************************************)
(* The report and the manifest made of it tell the truth.  An entry outlives*)
(* the step that made it by any number of flushes; what it says stays true *)
(* because objects are never replaced and because the file of a failed     *)
(* upload has a key that no later flush gets.                              *)
(***************************************************************************)

ListsTrue ==
    /\ Adds(uploaded, MaxReportedObjects) /\ Adds(failed, MaxReportedFailures)
    /\ \A i \in DOMAIN uploaded.objects : SaysStored(uploaded.objects[i], s3)
    /\ \A i \in DOMAIN failed.objects : SaysWaiting(failed.objects[i], spool)

\* The flush in progress does not touch the file a report calls failed.
Apart(list) == stage # "none" => \A i \in DOMAIN list.objects : list.objects[i].key # CurKey

ManifestsTrue ==
    \A r \in DOMAIN manifests :
        Honest(manifests[r], s3, spool) /\ Apart(manifests[r].failed)

\* A manifest is the last thing a run leaves, and what its process knew last.
ManifestIsLast ==
    /\ manifest_key => ~up
    /\ \A r \in DOMAIN manifests :
          /\ r <= run /\ (r = run => ~up)
          /\ \A k \in DOMAIN s3 : k[1] = r =>
                \A i \in DOMAIN s3[k] : s3[k][i] <= manifests[r].record_count
    /\ manifest_key /\ run \in DOMAIN manifests => manifests[run] \in {Report, ManifestReport}

ReportInv == ListsTrue /\ Apart(failed) /\ ManifestsTrue /\ ManifestIsLast

\* push_capped_deque keeps the sum, and adds nothing but the entry.
LEMMA PushedAdds ==
    ASSUME NEW list \in CappedList, NEW entry \in ReportEntry, NEW cap \in Nat \ {0},
           Adds(list, cap)
    PROVE  /\ Adds(PushCapped(list, entry, cap), cap)
           /\ \A i \in DOMAIN PushCapped(list, entry, cap).objects :
                 \/ PushCapped(list, entry, cap).objects[i] = entry
                 \/ \E j \in DOMAIN list.objects :
                       PushCapped(list, entry, cap).objects[i] = list.objects[j]
<1> DEFINE pushed == Append(list.objects, entry)
<1>0. list.objects \in Seq(ReportEntry) /\ list.count \in Nat /\ list.dropped \in Nat
  BY DEF CappedList
<1>1. /\ pushed \in Seq(ReportEntry) /\ Len(pushed) = Len(list.objects) + 1
      /\ Len(list.objects) \in Nat
  BY <1>0
<1>2. \A i \in 1 .. Len(pushed) :
        pushed[i] = entry \/ \E j \in DOMAIN list.objects : pushed[i] = list.objects[j]
  BY <1>0
<1> HIDE DEF pushed
<1>3. /\ Len(Tail(pushed)) = Len(list.objects)
      /\ \A i \in DOMAIN Tail(pushed) : i + 1 \in 1 .. Len(pushed) /\ Tail(pushed)[i] = pushed[i + 1]
  BY <1>1
<1>4. DOMAIN pushed = 1 .. Len(pushed)
  BY <1>1
<1>5. CASE Len(pushed) > cap
  <2>1. PushCapped(list, entry, cap) =
          [objects |-> Tail(pushed), count |-> list.count + 1, dropped |-> list.dropped + 1]
    BY <1>5 DEF PushCapped, pushed
  <2>2. Adds(PushCapped(list, entry, cap), cap)
    BY <1>0, <1>1, <1>3, <1>5, <2>1 DEF Adds
  <2> QED BY <1>2, <1>3, <2>1, <2>2
<1>6. CASE ~(Len(pushed) > cap)
  <2>0. list.dropped + 0 = list.dropped /\ Len(pushed) <= cap
    BY <1>0, <1>1, <1>6
  <2>1. PushCapped(list, entry, cap) =
          [objects |-> pushed, count |-> list.count + 1, dropped |-> list.dropped]
    BY <1>6, <2>0 DEF PushCapped, pushed
  <2>2. list.count + 1 = Len(pushed) + list.dropped
    BY <1>0, <1>1 DEF Adds
  <2>3. Adds(PushCapped(list, entry, cap), cap)
    BY <2>0, <2>1, <2>2 DEF Adds
  <2> QED BY <1>2, <1>4, <2>1, <2>3
<1> QED BY <1>5, <1>6

\* Files other than that of the flush in progress stay as they are.
LEMMA OtherFilesStay ==
    ASSUME IInv, [Next]_vars, NEW k \in DOMAIN spool, stage # "none" => k # CurKey
    PROVE  k \in DOMAIN spool' /\ spool'[k] = spool[k]
<1>1. CASE spool' = spool
  BY <1>1
<1>2. CASE CreateParquet \/ WriteParquet
  BY <1>2 DEF CreateParquet, WriteParquet, Put
<1>3. CASE SealAndRecord
  BY <1>3, SealKeepsRecords DEF SealAndRecord
<1>4. spool' = spool \/ CreateParquet \/ WriteParquet \/ SealAndRecord
  BY DEF Next, FlushStep, New, AppendRecord, AppendRejected, FlushAll, FlushNext, WriteParquetFails,
         UploadOk, UploadFails, FlushAllReturns, FlushAllFails, UploadManifest, UploadManifestFails,
         Crash, vars, storeVars
<1> QED BY <1>1, <1>2, <1>3, <1>4

\* Entries that are kept stay true.
LEMMA EntriesStay ==
    ASSUME IInv, [Next]_vars
    PROVE  /\ \A e : SaysStored(e, s3) => SaysStored(e, s3')
           /\ \A e : SaysWaiting(e, spool) /\ (stage # "none" => e.key # CurKey)
                     => SaysWaiting(e, spool')
<1>1. ASSUME NEW e, SaysStored(e, s3) PROVE SaysStored(e, s3')
  BY <1>1, NextKeepsObjects DEF SaysStored
<1>2. ASSUME NEW e, SaysWaiting(e, spool), stage # "none" => e.key # CurKey
      PROVE  SaysWaiting(e, spool')
  BY <1>2, OtherFilesStay DEF SaysWaiting
<1> QED BY <1>1, <1>2

\* The lists change by one true entry, or not at all, or start over.
LEMMA ListsStep ==
    ASSUME IInv, ReportInv, [Next]_vars
    PROVE  ListsTrue'
<1> USE SinkConfigValid
<1>0. /\ \A i \in DOMAIN uploaded.objects : SaysStored(uploaded.objects[i], s3')
      /\ \A i \in DOMAIN failed.objects : SaysWaiting(failed.objects[i], spool')
      /\ Adds(uploaded, MaxReportedObjects) /\ Adds(failed, MaxReportedFailures)
      /\ uploaded \in CappedList /\ failed \in CappedList
  BY EntriesStay DEF ReportInv, ListsTrue, Apart, IInv, TypeOK
<1>1. CASE UNCHANGED <<uploaded, failed>>
  BY <1>0, <1>1 DEF ListsTrue
<1>2. CASE uploaded' = EmptyList /\ failed' = EmptyList
  BY <1>2 DEF ListsTrue, EmptyList, Adds
<1>3. CASE UploadFails
  <2> DEFINE e == [key |-> CurKey, record_count |-> Len(batch)]
  <2>1. e \in ReportEntry /\ SaysWaiting(e, spool')
    BY <1>3, EntryType DEF UploadFails, IInv, BatchPlace, SaysWaiting
  <2>2. failed' = PushCapped(failed, e, MaxReportedFailures) /\ uploaded' = uploaded
    BY <1>3 DEF UploadFails
  <2> HIDE DEF e
  <2>3. /\ Adds(failed', MaxReportedFailures)
        /\ \A i \in DOMAIN failed'.objects :
              failed'.objects[i] = e \/ \E j \in DOMAIN failed.objects : failed'.objects[i] = failed.objects[j]
    BY <1>0, <2>1, <2>2, PushedAdds
  <2> QED BY <1>0, <2>1, <2>2, <2>3 DEF ListsTrue
<1>4. CASE SealAndRecord \/ UploadManifest
  <2>1. PICK e \in ReportEntry : /\ uploaded' = PushCapped(uploaded, e, MaxReportedObjects)
                                 /\ failed' = failed /\ SaysStored(e, s3')
    <3>1. CASE SealAndRecord
      <4>1. /\ stage = "seal" /\ s3' = s3 /\ failed' = failed
            /\ uploaded' = PushCapped(uploaded, [key |-> CurKey, record_count |-> Len(batch)],
                                      MaxReportedObjects)
        BY <3>1 DEF SealAndRecord
      <4>2. SaysStored([key |-> CurKey, record_count |-> Len(batch)], s3')
        BY <4>1 DEF IInv, BatchPlace, SaysStored
      <4> QED BY <4>1, <4>2, EntryType
    <3>2. CASE UploadManifest
      <4>1. ManifestEntry \in ReportEntry /\ SaysStored(ManifestEntry, s3')
        BY DEF ManifestEntry, ReportEntry, SaysStored
      <4> QED BY <3>2, <4>1 DEF UploadManifest
    <3> QED BY <1>4, <3>1, <3>2
  <2>2. /\ Adds(uploaded', MaxReportedObjects)
        /\ \A i \in DOMAIN uploaded'.objects :
              uploaded'.objects[i] = e \/ \E j \in DOMAIN uploaded.objects : uploaded'.objects[i] = uploaded.objects[j]
    BY <1>0, <2>1, PushedAdds
  <2> QED BY <1>0, <2>1, <2>2 DEF ListsTrue
<1>5. \/ UNCHANGED <<uploaded, failed>> \/ (uploaded' = EmptyList /\ failed' = EmptyList)
      \/ UploadFails \/ SealAndRecord \/ UploadManifest
  BY DEF Next, FlushStep, New, EmptySink, AppendRecord, AppendRejected, FlushAll, FlushNext,
         CreateParquet, WriteParquet, WriteParquetFails, UploadOk, FlushAllReturns, FlushAllFails,
         UploadManifestFails, Crash, vars, sinkVars
<1> QED BY <1>1, <1>2, <1>3, <1>4, <1>5

\* A new flush gets a key that no file has, the files of failed uploads included.
LEMMA KeyStaysApart ==
    ASSUME IInv, [Next]_vars, NEW k \in DOMAIN spool, stage # "none" => k # CurKey,
           stage' # "none"
    PROVE  k # CurKey'
<1>1. CASE stage # "none" /\ CurKey' = CurKey
  BY <1>1
<1>2. ASSUME up, UNCHANGED <<run, up, spool, s3>>,
             NEW p \in Partition, NEW records \in Ordinals, TakeBatch(p, records)
      PROVE  k # CurKey'
  BY <1>2, TakeBatchFresh
<1>3. ASSUME NEW p \in Partition, FlushNext(p) PROVE k # CurKey'
  <2>1. up /\ UNCHANGED <<run, up, spool, s3>> /\ TakeBatch(p, buffers[p])
    BY <1>3 DEF FlushNext, storeVars
  <2>2. buffers[p] \in Ordinals
    BY DEF IInv, TypeOK
  <2> QED BY <1>2, <2>1, <2>2
<1>4. ASSUME NEW p \in Partition, AppendRecord(p) PROVE k # CurKey'
  <2> DEFINE records == Append(buffers[p], next_ordinal)
  <2>1. up /\ UNCHANGED <<run, up, spool, s3>>
    BY <1>4 DEF AppendRecord, storeVars
  <2>2. buffers[p] \in Ordinals /\ next_ordinal \in Nat
    BY DEF IInv, TypeOK
  <2>3. records \in Ordinals
    BY <2>2 DEF Ordinals
  <2>4. TakeBatch(p, records) \/ stage' = stage
    BY <1>4 DEF AppendRecord
  <2>5. stage = "none"
    BY <1>4 DEF AppendRecord, IInv, FlushHasOwner
  <2> QED BY <1>2, <2>1, <2>3, <2>4, <2>5
<1>5. CASE CreateParquet \/ WriteParquet \/ UploadOk
  BY <1>1, <1>5 DEF CreateParquet, WriteParquet, UploadOk, CurKey
<1>6. CASE \/ \E p \in Partition : AppendRejected(p)
           \/ \E final \in BOOLEAN : FlushAll(final)
           \/ FlushAllReturns \/ UploadManifest \/ UploadManifestFails \/ UNCHANGED vars
  <2>1. UNCHANGED <<run, cur, part_numbers, stage>>
    BY <1>6 DEF AppendRejected, FlushAll, FlushAllReturns, UploadManifest, UploadManifestFails, vars, sinkVars
  <2> QED BY <2>1, <1>1 DEF CurKey
<1>7. CASE New \/ WriteParquetFails \/ UploadFails \/ SealAndRecord \/ FlushAllFails \/ Crash
  BY <1>7 DEF New, EmptySink, WriteParquetFails, OperationFails, UploadFails, FlushReturns,
     SealAndRecord, FlushAllFails, Crash
<1> QED BY <1>3, <1>4, <1>5, <1>6, <1>7 DEF Next, FlushStep

\* The failed list grows only when its flush is over.
LEMMA FailedApartStep ==
    ASSUME IInv, ReportInv, [Next]_vars
    PROVE  Apart(failed)'
<1> SUFFICES ASSUME stage' # "none", NEW i \in DOMAIN failed'.objects
             PROVE  failed'.objects[i].key # CurKey'
  BY DEF Apart
<1>1. failed' = failed \/ failed' = EmptyList
  BY DEF Next, FlushStep, New, EmptySink, AppendRecord, AppendRejected, FlushAll, FlushNext,
         CreateParquet, WriteParquet, WriteParquetFails, UploadOk, UploadFails, FlushReturns,
         SealAndRecord, FlushAllReturns, FlushAllFails, UploadManifest, UploadManifestFails,
         Crash, vars, sinkVars
<1>2. CASE failed' = EmptyList
  BY <1>2 DEF EmptyList
<1>3. CASE failed' = failed
  <2>1. /\ failed.objects[i].key \in DOMAIN spool
        /\ stage # "none" => failed.objects[i].key # CurKey
    BY <1>3 DEF ReportInv, ListsTrue, SaysWaiting, Apart
  <2> QED BY <1>3, <2>1, KeyStaysApart
<1> QED BY <1>1, <1>2, <1>3

\* A manifest put before stays true: its objects and its files are kept.
LEMMA ManifestStays ==
    ASSUME IInv, [Next]_vars, NEW m, Honest(m, s3, spool), Apart(m.failed)
    PROVE  /\ Honest(m, s3', spool')
           /\ stage' # "none" => \A i \in DOMAIN m.failed.objects : m.failed.objects[i].key # CurKey'
<1>1. \A i \in DOMAIN m.failed.objects :
        /\ m.failed.objects[i].key \in DOMAIN spool
        /\ stage # "none" => m.failed.objects[i].key # CurKey
  BY DEF Honest, SaysWaiting, Apart
<1>2. stage' # "none" => \A i \in DOMAIN m.failed.objects : m.failed.objects[i].key # CurKey'
  BY <1>1, KeyStaysApart
<1>3. Honest(m, s3', spool')
  BY <1>1, EntriesStay DEF Honest
<1> QED BY <1>2, <1>3

\* What becomes of the manifests: the last step of a run may put one.
LEMMA ManifestPut ==
    ASSUME IInv, [Next]_vars
    PROVE  \/ manifests' = manifests
           \/ /\ manifests' = Put(manifests, run, ManifestReport)
              /\ up /\ ~up' /\ UNCHANGED <<run, s3, spool>> /\ stage' = "none"
<1>1. CASE UploadManifest \/ UploadManifestFails
  BY <1>1 DEF UploadManifest, UploadManifestFails, IInv, FlushHasOwner, TypeOK
<1>2. CASE Crash
  BY <1>2 DEF Crash, EmptySink
<1>3. CASE ~(UploadManifest \/ UploadManifestFails \/ Crash)
  BY <1>3 DEF Next, FlushStep, New, AppendRecord, AppendRejected, FlushAll, FlushNext,
         CreateParquet, WriteParquet, WriteParquetFails, UploadOk, UploadFails, SealAndRecord,
         FlushAllReturns, FlushAllFails, storeVars, vars
<1> QED BY <1>1, <1>2, <1>3

\* The serialised report is as true as the report it is made of.
LEMMA ManifestReportHonest ==
    ASSUME IInv, ReportInv
    PROVE  Honest(ManifestReport, s3, spool)
<1> DEFINE pushed == PushCapped(uploaded, ManifestEntry, MaxReportedObjects)
<1>1. ManifestReport.uploaded = pushed /\ ManifestReport.failed = failed
  BY DEF ManifestReport, Report
<1>2. ManifestEntry \in ReportEntry /\ SaysStored(ManifestEntry, s3)
  BY DEF ManifestEntry, ReportEntry, SaysStored
<1>3. /\ Adds(uploaded, MaxReportedObjects) /\ Adds(failed, MaxReportedFailures)
      /\ \A i \in DOMAIN uploaded.objects : SaysStored(uploaded.objects[i], s3)
      /\ \A i \in DOMAIN failed.objects : SaysWaiting(failed.objects[i], spool)
      /\ uploaded \in CappedList
  BY DEF ReportInv, ListsTrue, IInv, TypeOK
<1>4. /\ Adds(pushed, MaxReportedObjects)
      /\ \A i \in DOMAIN pushed.objects :
            \/ pushed.objects[i] = ManifestEntry
            \/ \E j \in DOMAIN uploaded.objects : pushed.objects[i] = uploaded.objects[j]
  BY <1>2, <1>3, PushedAdds, SinkConfigValid
<1> HIDE DEF pushed
<1>5. \A i \in DOMAIN pushed.objects : SaysStored(pushed.objects[i], s3)
  BY <1>2, <1>3, <1>4
<1> QED BY <1>1, <1>3, <1>4, <1>5 DEF Honest

LEMMA ManifestsTrueStep ==
    ASSUME IInv, ReportInv, [Next]_vars
    PROVE  ManifestsTrue'
<1> SUFFICES ASSUME NEW r \in DOMAIN manifests'
             PROVE  /\ Honest(manifests'[r], s3', spool')
                    /\ stage' # "none" => \A i \in DOMAIN manifests'[r].failed.objects :
                                             manifests'[r].failed.objects[i].key # CurKey'
  BY DEF ManifestsTrue, Apart
<1>1. CASE r \in DOMAIN manifests /\ manifests'[r] = manifests[r]
  BY <1>1, ManifestStays DEF ReportInv, ManifestsTrue
<1>2. CASE manifests'[r] = ManifestReport /\ UNCHANGED <<s3, spool>> /\ stage' = "none"
  BY <1>2, ManifestReportHonest
<1>3. \/ r \in DOMAIN manifests /\ manifests'[r] = manifests[r]
      \/ manifests'[r] = ManifestReport /\ UNCHANGED <<s3, spool>> /\ stage' = "none"
  BY ManifestPut DEF Put
<1> QED BY <1>1, <1>2, <1>3

\* A run that is over gets no further object, so its manifest covers it.
LEMMA ManifestCovers ==
    ASSUME IInv, ReportInv, OnceInv, [Next]_vars, NEW r \in DOMAIN manifests',
           NEW k \in DOMAIN s3', k[1] = r, NEW i \in DOMAIN s3'[k]
    PROVE  s3'[k][i] <= manifests'[r].record_count
<1>1. CASE r \in DOMAIN manifests /\ manifests'[r] = manifests[r]
  <2>1. r = run => ~up
    BY <1>1 DEF ReportInv, ManifestIsLast
  <2>2. k \in DOMAIN s3 /\ s3'[k] = s3[k]
    <3>1. CASE s3' = s3
      BY <3>1
    <3>2. CASE up /\ stage = "upload" /\ s3' = Put(s3, CurKey, spool[CurKey].recs)
      <4>1. CurKey[1] = run
        BY DEF CurKey
      <4>2. k # CurKey
        BY <2>1, <3>2, <4>1
      <4> QED BY <3>2, <4>2 DEF Put
    <3>3. \/ s3' = s3
          \/ up /\ stage = "upload" /\ s3' = Put(s3, CurKey, spool[CurKey].recs)
      BY DEF Next, FlushStep, New, AppendRecord, AppendRejected, FlushAll, FlushNext,
         CreateParquet, WriteParquet, WriteParquetFails, UploadOk, UploadFails, SealAndRecord,
         FlushAllReturns, FlushAllFails, UploadManifest, UploadManifestFails, Crash, storeVars, vars
    <3> QED BY <3>1, <3>2, <3>3
  <2> QED BY <1>1, <2>2 DEF ReportInv, ManifestIsLast
<1>2. CASE r = run /\ up /\ manifests'[r] = ManifestReport /\ s3' = s3
  <2>1. s3[k][i] < next_ordinal
    BY <1>2 DEF OnceInv, StoredApart
  <2>2. s3[k][i] \in Nat /\ next_ordinal \in Nat
    BY <1>2 DEF IInv, TypeOK, Ordinals
  <2>3. ManifestReport.record_count = next_ordinal - 1
    BY DEF ManifestReport, Report
  <2>4. s3[k][i] <= next_ordinal - 1
    BY <2>1, <2>2
  <2> QED BY <1>2, <2>3, <2>4
<1>3. \/ r \in DOMAIN manifests /\ manifests'[r] = manifests[r]
      \/ r = run /\ up /\ manifests'[r] = ManifestReport /\ s3' = s3
  BY ManifestPut DEF Put
<1> QED BY <1>1, <1>2, <1>3

\* Only the end of a run puts a manifest, and only a new run follows.
LEMMA ManifestStep ==
    ASSUME IInv, ReportInv, OnceInv, [Next]_vars
    PROVE  ManifestIsLast'
<1>0. run \in Nat /\ DOMAIN manifests \subseteq Nat
  BY DEF IInv, TypeOK
<1>1. /\ manifest_key => ~up
      /\ \A r \in DOMAIN manifests : r <= run /\ (r = run => ~up)
      /\ manifest_key /\ run \in DOMAIN manifests => manifests[run] \in {Report, ManifestReport}
  BY DEF ReportInv, ManifestIsLast
<1>2. \A r \in DOMAIN manifests' : \A k \in DOMAIN s3' : k[1] = r =>
        \A i \in DOMAIN s3'[k] : s3'[k][i] <= manifests'[r].record_count
  BY ManifestCovers
<1> SUFFICES /\ manifest_key' => ~up'
             /\ \A r \in DOMAIN manifests' : r <= run' /\ (r = run' => ~up')
             /\ manifest_key' /\ run' \in DOMAIN manifests' =>
                   manifests'[run'] \in {Report', ManifestReport'}
  BY <1>2 DEF ManifestIsLast
<1>3. CASE UNCHANGED vars
  <2>1. /\ UNCHANGED <<manifest_key, up, run, manifests>> /\ Report' = Report
        /\ ManifestReport' = ManifestReport
    BY <1>3 DEF vars, sinkVars, storeVars, Report, ManifestReport
  <2> QED BY <1>1, <2>1
<1>4. CASE New
  <2>1. manifests' = manifests /\ run' = run + 1 /\ manifest_key' = FALSE
    BY <1>4 DEF New, EmptySink, storeVars
  <2>2. \A r \in DOMAIN manifests : r \in Nat /\ r <= run
    BY <1>0, <1>1
  <2> QED BY <1>0, <2>1, <2>2
<1>5. CASE up /\ run' = run /\ manifests' = manifests /\ ~manifest_key'
  BY <1>0, <1>1, <1>5
<1>6. CASE Crash
  <2>1. run' = run /\ ~up' /\ ~manifest_key' /\ up
    BY <1>6 DEF Crash, EmptySink
  <2>2. \A r \in DOMAIN manifests' : r \in DOMAIN manifests \/ r = run
    BY <1>6, ManifestPut DEF Put
  <2> QED BY <1>0, <1>1, <2>1, <2>2
<1>7. CASE UploadManifest \/ UploadManifestFails
  <2>1. run' = run /\ ~up' /\ up
    BY <1>7 DEF UploadManifest, UploadManifestFails
  <2>2. \A r \in DOMAIN manifests' : r \in DOMAIN manifests \/ r = run
    BY <1>7, ManifestPut DEF Put
  <2>3. ASSUME run \in DOMAIN manifests' PROVE manifests'[run] \in {Report', ManifestReport'}
    <3>1. manifests' = Put(manifests, run, ManifestReport)
      BY <1>1, <2>1, <2>3, ManifestPut
    <3>2. manifests'[run] = ManifestReport
      BY <3>1 DEF Put
    <3>3. CASE UploadManifest
      <4>1. /\ uploaded' = PushCapped(uploaded, ManifestEntry, MaxReportedObjects)
            /\ manifest_key' = TRUE /\ next_ordinal' = next_ordinal /\ failed' = failed
        BY <3>3 DEF UploadManifest
      <4>2. Report' = [record_count |-> next_ordinal - 1, uploaded |-> uploaded', failed |-> failed,
                       manifest_key |-> TRUE]
        BY <4>1 DEF Report
      <4>3. ManifestReport = [record_count |-> next_ordinal - 1, uploaded |-> uploaded', failed |-> failed,
                              manifest_key |-> TRUE]
        BY <4>1 DEF Report, ManifestReport
      <4> QED BY <3>2, <4>2, <4>3
    <3>4. CASE UploadManifestFails
      <4>1. UNCHANGED <<uploaded, failed, next_ordinal>>
        BY <3>4 DEF UploadManifestFails
      <4>2. ManifestReport' = ManifestReport
        BY <4>1 DEF Report, ManifestReport
      <4> QED BY <3>2, <4>2
    <3> QED BY <1>7, <3>3, <3>4
  <2> QED BY <1>0, <1>1, <2>1, <2>2, <2>3
<1>8. \/ UNCHANGED vars \/ New \/ Crash \/ UploadManifest \/ UploadManifestFails
      \/ up /\ run' = run /\ manifests' = manifests /\ manifest_key' = manifest_key
  BY DEF Next, FlushStep, AppendRecord, AppendRejected, FlushAll, FlushNext, CreateParquet,
         WriteParquet, WriteParquetFails, UploadOk, UploadFails, SealAndRecord, FlushAllReturns,
         FlushAllFails, storeVars
<1> QED BY <1>1, <1>3, <1>4, <1>5, <1>6, <1>7, <1>8

\* The report of the sink and every manifest ever put tell the truth and go on
\* telling it, also when the manifest's put landed with its answer lost, and a
\* manifest covers all the records its run has in the bucket
\* (push_capped_deque, record_uploaded_object, upload_manifest).
THEOREM ReportsAreHonest == Spec => []ReportHonest
<1>1. Init => ReportInv
  BY SinkConfigValid
     DEF Init, ReportInv, ListsTrue, Apart, ManifestsTrue, ManifestIsLast, EmptyList, Adds
<1>2. IInv /\ OnceInv /\ ReportInv /\ [Next]_vars => ReportInv'
  BY ListsStep, FailedApartStep, ManifestsTrueStep, ManifestStep DEF ReportInv
<1>3. IInv /\ ReportInv => ReportHonest
  <2> SUFFICES ASSUME IInv, ReportInv PROVE ReportHonest
    OBVIOUS
  <2>1. Report.uploaded = uploaded /\ Report.failed = failed
    BY DEF Report
  <2>2. Honest(Report, s3, spool)
    BY <2>1 DEF ReportInv, ListsTrue, Honest
  <2>3. \A r \in DOMAIN manifests :
          /\ r = run => ~up
          /\ Honest(manifests[r], s3, spool)
          /\ \A k \in DOMAIN s3 : k[1] = r =>
                \A i \in DOMAIN s3[k] : s3[k][i] <= manifests[r].record_count
    BY DEF ReportInv, ManifestsTrue, ManifestIsLast
  <2> QED BY <2>2, <2>3 DEF ReportInv, ManifestIsLast, ReportHonest
<1>4. Init => OnceInv
  BY OnceInit
<1>5. IInv /\ OnceInv /\ [Next]_vars => OnceInv'
  BY OnceStep
<1> QED BY <1>1, <1>2, <1>3, <1>4, <1>5, Invariance, PTL DEF Spec

-----------------------------------------------------------------------------
(***************************************************************************)
(* Eviction and start-up clean-up are safe.  What a loop has ranked is in  *)
(* the bucket already and is not the file a flush works on, and the bucket *)
(* never changes what it has.                                              *)
(***************************************************************************)

\* A ranked file is a durable raw file, however old the ranking is, and not
\* the file of the flush in progress.
RankedIsDurable ==
    \A e \in Evictors : \A f \in candidates[e] :
        /\ f.key \in DOMAIN s3 /\ f.key[2] \in RawPartition
        /\ f.key \in DOMAIN spool => s3[f.key] = spool[f.key].recs
        /\ stage # "none" => f.key # CurKey

\* The file being written is younger than the safety floor.
WriteIsRecent == stage = "write" => spool[CurKey].written_at > SafetyCutoff

SpoolIInv ==
    /\ IInv /\ SpoolTypeOK
    /\ RankedIsDurable /\ WriteIsRecent
    /\ EvictedIsDurable /\ OnlyRawEvicted

-----------------------------------------------------------------------------
\* Taking files other than the current one out of the spool.
LEMMA RestrictInv ==
    ASSUME IInv, NEW D \in SUBSET DOMAIN spool, spool' = [k \in D |-> spool[k]],
           stage \in {"write", "upload", "seal"} => CurKey \in D,
           UNCHANGED <<run, up, sinkVars, clock, s3, manifests, ghosts>>
    PROVE  IInv' /\ CurKey' = CurKey
<1> USE DEF IInv, sinkVars, ghosts
<1>1. /\ DOMAIN spool' = D /\ \A k \in D : spool'[k] = spool[k]
      /\ CurKey' = CurKey
  BY DEF CurKey
<1>2. spool' \in [DOMAIN spool' -> ParquetFile] /\ DOMAIN spool' \subseteq Key
  BY <1>1 DEF TypeOK
<1>3. TypeOK'
  BY <1>2 DEF TypeOK
<1>4. KeysHandedOut' /\ FlushHasOwner'
  BY <1>1 DEF KeysHandedOut, FlushHasOwner
<1>5. BatchPlace'
  BY <1>1 DEF BatchPlace
<1>6. SealedIsDurable'
  BY <1>1 DEF SealedIsDurable
<1> QED BY <1>1, <1>3, <1>4, <1>5, <1>6

\* The empty spool satisfies the invariant.
LEMMA SpoolInitInv == SpoolInit => SpoolIInv
<1> SUFFICES ASSUME SpoolInit PROVE SpoolIInv
  OBVIOUS
<1>1. IInv /\ stage = "none"
  BY InitInv DEF SpoolInit, Init
<1>2. DOMAIN evicted = {} /\ DOMAIN quarantined = {} /\ \A e \in Evictors : candidates[e] = {}
  BY DEF SpoolInit
<1>3. SpoolTypeOK
  BY <1>1, <1>2 DEF SpoolInit, SpoolTypeOK, IInv
<1> QED BY <1>1, <1>2, <1>3 DEF SpoolIInv, RankedIsDurable, WriteIsRecent, EvictedIsDurable,
        OnlyRawEvicted

\* A step of the sink leaves what the loops rely on.
LEMMA SinkStepInv ==
    ASSUME SpoolIInv, Next, UNCHANGED spoolVars PROVE SpoolIInv'
<1> USE DEF SpoolIInv
<1>1. /\ IInv' /\ \A k \in DOMAIN s3 : k \in DOMAIN s3' /\ s3'[k] = s3[k]
  BY NextInv, NextKeepsObjects
<1>2. SpoolTypeOK' /\ EvictedIsDurable' /\ OnlyRawEvicted'
  BY <1>1 DEF SpoolTypeOK, EvictedIsDurable, OnlyRawEvicted, spoolVars, IInv
<1>3. WriteIsRecent'
  <2>1. CASE CreateParquet
    <3> DEFINE new == [recs |-> << >>, whole |-> FALSE, written_at |-> clock, sealed_at |-> 0]
    <3>1. spool' = Put(spool, CurKey, new) /\ CurKey' = CurKey /\ clock' = clock /\ clock \in Nat
      BY <2>1 DEF CreateParquet, CurKey, IInv, TypeOK
    <3>2. new.written_at = clock
      OBVIOUS
    <3> HIDE DEF new, SpoolIInv
    <3>3. spool'[CurKey'] = new
      BY <3>1 DEF Put
    <3>4. clock > clock - SafetyFloor
      BY <3>1, SpoolConfigValid
    <3> QED BY <3>1, <3>2, <3>3, <3>4 DEF WriteIsRecent, SafetyCutoff
  <2>2. ~CreateParquet => stage' # "write" \/ (stage = "write" /\ UNCHANGED <<spool, clock, CurKey>>)
    BY <1>1 DEF Next, FlushStep, New, EmptySink, AppendRecord, AppendRejected, FlushAll,
       FlushNext, TakeBatch, WriteParquet, WriteParquetFails, OperationFails, UploadOk, UploadFails,
       FlushReturns, SealAndRecord, FlushAllReturns, FlushAllFails, UploadManifest,
       UploadManifestFails, Crash, storeVars, CurKey, IInv, FlushHasOwner, TypeOK
  <2> QED BY <2>1, <2>2 DEF WriteIsRecent, SafetyCutoff
<1>4. RankedIsDurable'
  <2> SUFFICES ASSUME NEW e \in Evictors, NEW f \in candidates[e]
               PROVE  /\ f.key \in DOMAIN s3' /\ f.key[2] \in RawPartition
                      /\ f.key \in DOMAIN spool' => s3'[f.key] = spool'[f.key].recs
                      /\ stage' # "none" => f.key # CurKey'
    BY DEF RankedIsDurable, spoolVars
  <2>1. /\ f.key \in DOMAIN s3 /\ f.key[2] \in RawPartition
        /\ f.key \in DOMAIN spool => s3[f.key] = spool[f.key].recs
        /\ stage # "none" => f.key # CurKey
    BY DEF RankedIsDurable
  <2>2. stage' # "none" => f.key # CurKey'
    <3>1. CASE stage' = "create"
      BY <1>1, <2>1, <3>1 DEF IInv, BatchPlace
    <3>2. stage' \notin {"none", "create"} => stage # "none" /\ CurKey' = CurKey
      BY DEF Next, FlushStep, New, EmptySink, AppendRecord, AppendRejected, FlushAll,
         FlushNext, TakeBatch, CreateParquet, WriteParquet, WriteParquetFails, OperationFails,
         UploadOk, UploadFails, FlushReturns, SealAndRecord, FlushAllReturns, FlushAllFails,
         UploadManifest, UploadManifestFails, Crash, storeVars, CurKey, IInv, FlushHasOwner, TypeOK
    <3> QED BY <2>1, <3>1, <3>2
  <2>3. f.key \in DOMAIN spool' => f.key \in DOMAIN spool /\ spool'[f.key].recs = spool[f.key].recs
    <3>1. CASE CreateParquet \/ WriteParquet
      <4>1. stage # "none" /\ f.key # CurKey
        BY <2>1, <3>1 DEF CreateParquet, WriteParquet
      <4> QED BY <3>1, <4>1 DEF CreateParquet, WriteParquet, Put
    <3>2. CASE SealAndRecord
      BY <3>2, SealKeepsRecords
    <3>3. CASE ~(CreateParquet \/ WriteParquet \/ SealAndRecord)
      <4>1. spool' = spool
        BY <3>3 DEF Next, FlushStep, New, AppendRecord, AppendRejected, FlushAll, FlushNext,
           WriteParquetFails, UploadOk, UploadFails, FlushAllReturns, FlushAllFails,
           UploadManifest, UploadManifestFails, Crash, storeVars
      <4> QED BY <4>1
    <3> QED BY <3>1, <3>2, <3>3
  <2> QED BY <1>1, <2>1, <2>2, <2>3
<1> QED BY <1>1, <1>2, <1>3, <1>4

\* An eviction pass ranks only files that were sealed and uploaded.
LEMMA StartEvictionInv ==
    ASSUME SpoolIInv, NEW e \in Evictors, StartEviction(e) PROVE SpoolIInv'
<1> USE DEF SpoolIInv, StartEviction
<1>1. /\ UNCHANGED <<run, up, sinkVars, storeVars, ghosts, stage, spool, s3, clock, CurKey>>
      /\ IInv'
  BY NextInv DEF vars, sinkVars, storeVars, CurKey
<1>2. ASSUME NEW f \in RankEvictable
      PROVE  /\ f \in EvictableFile
             /\ f.key \in DOMAIN s3 /\ f.key[2] \in RawPartition
             /\ f.key \in DOMAIN spool => s3[f.key] = spool[f.key].recs
             /\ stage # "none" => f.key # CurKey
  <2>1. PICK k \in DOMAIN spool :
          /\ f = [key |-> k, sealed_at |-> spool[k].sealed_at]
          /\ spool[k].sealed_at > 0 /\ k[2] \in RawPartition
    BY DEF RankEvictable, CollectFilesOnDisk, IsProtected
  <2>2. f \in EvictableFile
    BY <2>1 DEF IInv, TypeOK, ParquetFile, EvictableFile
  <2>3. k \in DOMAIN s3 /\ s3[k] = spool[k].recs
    BY <2>1 DEF IInv, SealedIsDurable
  <2>4. stage # "none" => k # CurKey
    <3>1. stage \in {"none", "create", "write", "upload", "seal"} /\ BatchPlace
      BY DEF IInv, TypeOK
    <3> HIDE DEF SpoolIInv
    <3>2. spool[k].sealed_at # 0
      <4>1. ~(0 > 0)
        OBVIOUS
      <4> QED BY <2>1, <4>1, Zenon
    <3> QED BY <3>1, <3>2 DEF BatchPlace
  <2> QED BY <2>1, <2>2, <2>3, <2>4
<1>3. SpoolTypeOK'
  BY <1>1, <1>2 DEF SpoolTypeOK, IInv
<1>4. RankedIsDurable'
  BY <1>1, <1>2 DEF RankedIsDurable, SpoolTypeOK
<1>5. WriteIsRecent' /\ EvictedIsDurable' /\ OnlyRawEvicted'
  BY <1>1 DEF WriteIsRecent, SafetyCutoff, EvictedIsDurable, OnlyRawEvicted
<1> QED BY <1>1, <1>3, <1>4, <1>5

\* An eviction pass that ends leaves spool and bucket alone.
LEMMA StopEvictionInv ==
    ASSUME SpoolIInv, NEW e \in Evictors, StopEviction(e) PROVE SpoolIInv'
<1> USE DEF SpoolIInv, StopEviction
<1>1. /\ UNCHANGED <<stage, spool, s3, clock, CurKey>> /\ IInv'
  BY NextInv DEF vars, sinkVars, storeVars, CurKey
<1>2. SpoolTypeOK'
  BY <1>1 DEF SpoolTypeOK, IInv
<1>3. RankedIsDurable'
  BY <1>1 DEF RankedIsDurable, SpoolTypeOK
<1>4. WriteIsRecent' /\ EvictedIsDurable' /\ OnlyRawEvicted'
  BY <1>1 DEF WriteIsRecent, SafetyCutoff, EvictedIsDurable, OnlyRawEvicted
<1> QED BY <1>1, <1>2, <1>3, <1>4

\* Removing the next ranked file removes one whose object is stored.
LEMMA EvictOneInv ==
    ASSUME SpoolIInv, NEW e \in Evictors, EvictOne(e) PROVE SpoolIInv'
<1> USE DEF SpoolIInv
<1>1. PICK f \in candidates[e] :
        /\ candidates' = [candidates EXCEPT ![e] = @ \ {f}]
        /\ IF f.key \in DOMAIN spool
           THEN /\ evicted' = Put(evicted, f.key, spool[f.key])
                /\ spool' = Remove(spool, f.key)
           ELSE UNCHANGED <<evicted, spool>>
        /\ UNCHANGED <<run, up, sinkVars, clock, s3, manifests, ghosts, quarantined>>
  BY DEF EvictOne, OldestOf
<1>2. /\ f.key \in DOMAIN s3 /\ f.key[2] \in RawPartition
      /\ f.key \in DOMAIN spool => s3[f.key] = spool[f.key].recs
      /\ stage # "none" => f.key # CurKey
  BY DEF RankedIsDurable
<1>3. spool' = [k \in DOMAIN spool \ {f.key} |-> spool[k]]
  BY <1>1 DEF Remove, IInv, TypeOK
<1>4. stage \in {"write", "upload", "seal"} => CurKey \in DOMAIN spool \ {f.key}
  BY <1>2 DEF IInv, BatchPlace
<1>5. IInv' /\ CurKey' = CurKey
  BY <1>1, <1>3, <1>4, RestrictInv
<1>6. UNCHANGED <<s3, clock, stage, quarantined>>
  BY <1>1 DEF sinkVars
<1>7. \A g \in Evictors : candidates'[g] \subseteq candidates[g]
  BY <1>1 DEF SpoolTypeOK
<1>8. /\ DOMAIN evicted' \subseteq Key /\ evicted' \in [DOMAIN evicted' -> ParquetFile]
      /\ EvictedIsDurable' /\ \A k \in DOMAIN evicted' : k[2] \in RawPartition
  <2>1. CASE f.key \in DOMAIN spool
    <3>1. /\ f.key \in Key /\ spool[f.key] \in ParquetFile
          /\ spool[f.key].recs = s3[f.key] /\ f.key \in DOMAIN s3 /\ f.key[2] \in RawPartition
      BY <1>2, <2>1 DEF IInv, TypeOK
    <3>2. /\ DOMAIN evicted' = DOMAIN evicted \cup {f.key}
          /\ evicted' = [j \in DOMAIN evicted' |->
                            IF j = f.key THEN spool[f.key] ELSE evicted[j]]
      BY <1>1, <2>1 DEF Put
    <3>3. /\ DOMAIN evicted \subseteq Key /\ evicted \in [DOMAIN evicted -> ParquetFile]
          /\ EvictedIsDurable /\ \A k \in DOMAIN evicted : k[2] \in RawPartition
      BY DEF SpoolTypeOK, OnlyRawEvicted
    <3> HIDE DEF SpoolIInv
    <3>4. DOMAIN evicted' \subseteq Key /\ evicted' \in [DOMAIN evicted' -> ParquetFile]
      BY <3>1, <3>2, <3>3
    <3>5. EvictedIsDurable'
      BY <1>6, <3>1, <3>2, <3>3 DEF EvictedIsDurable
    <3>6. \A k \in DOMAIN evicted' : k[2] \in RawPartition
      BY <3>1, <3>2, <3>3
    <3> QED BY <3>4, <3>5, <3>6
  <2>2. CASE f.key \notin DOMAIN spool
    BY <1>1, <1>6, <2>2 DEF SpoolTypeOK, EvictedIsDurable, OnlyRawEvicted
  <2> QED BY <2>1, <2>2
<1>9. SpoolTypeOK'
  BY <1>1, <1>5, <1>6, <1>8 DEF SpoolTypeOK, IInv
<1>10. RankedIsDurable'
  BY <1>3, <1>5, <1>6, <1>7 DEF RankedIsDurable
<1>11. WriteIsRecent'
  BY <1>3, <1>4, <1>5, <1>6 DEF WriteIsRecent, SafetyCutoff
<1> QED BY <1>5, <1>6, <1>8, <1>9, <1>10, <1>11 DEF OnlyRawEvicted

\* Startup cleanup removes unsealed leftovers of earlier runs only.
LEMMA CleanupOrphansInv == ASSUME SpoolIInv, CleanupOrphans PROVE SpoolIInv'
<1> USE DEF SpoolIInv
<1>1. PICK moved \in SUBSET Orphans :
        /\ quarantined' = [k \in DOMAIN quarantined \cup moved |->
                              IF k \in moved THEN spool[k] ELSE quarantined[k]]
        /\ spool' = [k \in DOMAIN spool \ moved |-> spool[k]]
        /\ UNCHANGED <<run, up, sinkVars, clock, s3, manifests, ghosts, candidates, evicted>>
  BY DEF CleanupOrphans
<1>2. \A k \in moved : /\ k \in DOMAIN spool /\ ~spool[k].whole
                       /\ spool[k].written_at <= SafetyCutoff
  BY DEF Orphans
<1>3. stage \in {"write", "upload", "seal"} => CurKey \in DOMAIN spool \ moved
  <2>1. stage \in {"write", "upload", "seal"} => CurKey \in DOMAIN spool
    BY DEF IInv, BatchPlace
  <2>2. stage \in {"upload", "seal"} => CurKey \notin moved
    BY <1>2 DEF IInv, BatchPlace
  <2>3. stage = "write" => CurKey \notin moved
    BY <1>2, <2>1, SpoolConfigValid DEF WriteIsRecent, SafetyCutoff, IInv, TypeOK, ParquetFile
  <2> QED BY <2>1, <2>2, <2>3
<1>4. IInv' /\ CurKey' = CurKey
  BY <1>1, <1>3, RestrictInv
<1>5. UNCHANGED <<s3, clock, stage, candidates, evicted>>
  BY <1>1 DEF sinkVars
<1>6. /\ DOMAIN quarantined' \subseteq Key /\ quarantined' \in [DOMAIN quarantined' -> ParquetFile]
      /\ \A k \in DOMAIN quarantined' : ~quarantined'[k].whole
  BY <1>1, <1>2 DEF SpoolTypeOK, OnlyRawEvicted, IInv, TypeOK
<1>7. SpoolTypeOK'
  BY <1>4, <1>5, <1>6 DEF SpoolTypeOK, IInv
<1>8. RankedIsDurable' /\ EvictedIsDurable' /\ OnlyRawEvicted'
  BY <1>1, <1>4, <1>5, <1>6 DEF RankedIsDurable, EvictedIsDurable, OnlyRawEvicted
<1>9. WriteIsRecent'
  BY <1>1, <1>3, <1>4, <1>5 DEF WriteIsRecent, SafetyCutoff
<1> QED BY <1>4, <1>7, <1>8, <1>9

\* Time passing makes no file younger.
LEMMA TickInv == ASSUME SpoolIInv, Tick PROVE SpoolIInv'
<1> USE DEF SpoolIInv, Tick
<1>1. UNCHANGED <<run, up, stage, batch, op, cur, spool, s3, candidates, evicted, quarantined, CurKey>>
  BY DEF sinkVars, spoolVars, CurKey
<1>2. TypeOK'
  <2>1. TypeOK /\ clock' = clock + 1
    BY DEF IInv
  <2>2. UNCHANGED <<run, up, sinkVars, spool, s3, manifests, ghosts>>
    OBVIOUS
  <2> HIDE DEF SpoolIInv, Tick
  <2>3. clock' \in Nat \ {0}
    BY <2>1 DEF TypeOK
  <2> QED BY <2>1, <2>2, <2>3, Zenon DEF TypeOK, sinkVars, ghosts
<1>3. IInv'
  <2>1. KeysHandedOut /\ FlushHasOwner /\ SealedIsDurable /\ part_numbers' = part_numbers
    BY DEF IInv, sinkVars
  <2>2. BatchPlace'
    BY <1>1 DEF IInv, BatchPlace
  <2> HIDE DEF SpoolIInv, Tick
  <2>3. KeysHandedOut'
    BY <1>1, <2>1 DEF KeysHandedOut
  <2>4. FlushHasOwner'
    BY <1>1, <2>1 DEF FlushHasOwner
  <2>5. SealedIsDurable'
    BY <1>1, <2>1 DEF SealedIsDurable
  <2> QED BY <1>2, <2>2, <2>3, <2>4, <2>5 DEF IInv
<1>4. SpoolTypeOK' /\ RankedIsDurable' /\ EvictedIsDurable' /\ OnlyRawEvicted'
  BY <1>1, <1>2 DEF SpoolTypeOK, RankedIsDurable, EvictedIsDurable, OnlyRawEvicted
<1>5. WriteIsRecent'
  <2> SUFFICES ASSUME stage = "write" PROVE spool[CurKey].written_at > clock' - SafetyFloor
    BY <1>1 DEF WriteIsRecent, SafetyCutoff
  <2>1. up /\ CurKey \in DOMAIN spool
    BY DEF IInv, FlushHasOwner, BatchPlace
  <2>2. spool[CurKey].written_at > clock + 1 - SafetyFloor
    BY <2>1, Zenon DEF WriteWithinFloor
  <2>3. clock + 1 - SafetyFloor = clock' - SafetyFloor
    BY SpoolConfigValid DEF IInv, TypeOK
  <2> QED BY <2>2, <2>3
<1> QED BY <1>3, <1>4, <1>5

\* Every step of sink and spool preserves the invariant.
LEMMA SpoolNextInv == SpoolIInv /\ [SpoolNext]_allVars => SpoolIInv'
<1> SUFFICES ASSUME SpoolIInv, [SpoolNext]_allVars PROVE SpoolIInv'
  OBVIOUS
<1>1. CASE Next /\ UNCHANGED spoolVars
  BY <1>1, SinkStepInv
<1>2. CASE \E e \in Evictors : StartEviction(e) \/ EvictOne(e) \/ StopEviction(e)
  BY <1>2, StartEvictionInv, EvictOneInv, StopEvictionInv
<1>3. CASE CleanupOrphans
  BY <1>3, CleanupOrphansInv
<1>4. CASE Tick
  BY <1>4, TickInv
<1>5. CASE UNCHANGED allVars
  <2>1. /\ UNCHANGED vars
        /\ UNCHANGED <<stage, spool, s3, clock, CurKey, candidates, evicted, quarantined>>
    BY <1>5 DEF allVars, vars, sinkVars, storeVars, spoolVars, CurKey
  <2>2. IInv'
    BY <2>1, NextInv DEF SpoolIInv
  <2> QED BY <2>1, <2>2 DEF SpoolIInv, SpoolTypeOK, RankedIsDurable, WriteIsRecent,
          SafetyCutoff, EvictedIsDurable, OnlyRawEvicted, IInv
<1> QED BY <1>1, <1>2, <1>3, <1>4, <1>5 DEF SpoolNext

\* In every reachable state the eviction pass holds a list of files whose
\* records the bucket has, and the flush in progress keeps its file.
THEOREM SpoolInvariance == SpoolSpec => []SpoolIInv
<1> QED BY SpoolInitInv, SpoolNextInv, PTL DEF SpoolSpec

\* Eviction never removes the last copy of a record, for any number of
\* eviction loops working from rankings of any age.
THEOREM EvictedDurable == SpoolSpec => []EvictedIsDurable
<1>1. SpoolIInv => EvictedIsDurable
  BY DEF SpoolIInv
<1> QED BY <1>1, SpoolInvariance, PTL

\* Only raw files are evicted and only unreadable ones are quarantined.
THEOREM RawEvictedOnly == SpoolSpec => []OnlyRawEvicted
<1>1. SpoolIInv => OnlyRawEvicted
  BY DEF SpoolIInv
<1> QED BY <1>1, SpoolInvariance, PTL

\* No loop and no clean-up of another worker takes the file of a running
\* flush away, as long as a write ends within the safety floor.
THEOREM InFlightSafe == SpoolSpec => []InFlightFileStays
<1>1. SpoolIInv => InFlightFileStays
  BY DEF SpoolIInv, IInv, BatchPlace, InFlightFileStays
<1> QED BY <1>1, SpoolInvariance, PTL
=============================================================================

---------------------------- MODULE L0Sink_proofs ----------------------------
(***************************************************************************)
(* What holds of the L0 sink for every set of partitions, every flush size *)
(* and every number of runs.  The inductive invariant says where the       *)
(* records of the flush in progress are, and that its key is a new one.    *)
(***************************************************************************)
EXTENDS L0Sink, TLAPS

\* Keys come from runs and part numbers already handed out: a later run or the
\* next part of a partition has a key of its own.
KeysHandedOut ==
    \A k \in DOMAIN spool \cup DOMAIN s3 :
        /\ k[1] <= run
        /\ up /\ k[1] = run => k[3] <= part_numbers[k[2]]

\* A batch exists only during the flush of a partition, which needs a process
\* and an operation.
FlushHasOwner ==
    /\ (stage # "none") <=> (cur \in Partition)
    /\ stage # "none" => up /\ op \in {"append", "flush_all", "final_flush"}

\* Where the batch is: nothing under its key before the upload, and after each
\* stage the next place has it.
BatchPlace ==
    /\ stage = "create" => CurKey \notin DOMAIN spool
    /\ stage \in {"create", "write", "upload"} => CurKey \notin DOMAIN s3
    /\ stage \in {"write", "upload", "seal"} =>
          CurKey \in DOMAIN spool /\ spool[CurKey].sealed_at = 0
    /\ stage = "write" => spool[CurKey].recs = << >>
    /\ stage \in {"upload", "seal"} =>
          spool[CurKey].recs = batch /\ spool[CurKey].whole
    /\ stage = "seal" => CurKey \in DOMAIN s3 /\ s3[CurKey] = batch

IInv == TypeOK /\ KeysHandedOut /\ FlushHasOwner /\ BatchPlace /\ SealedIsDurable

-----------------------------------------------------------------------------
\* push_capped_deque keeps a report list a report list.
LEMMA PushCappedType ==
    ASSUME NEW list \in CappedList, NEW entry \in ReportEntry, NEW cap \in Nat \ {0}
    PROVE  PushCapped(list, entry, cap) \in CappedList
<1> DEFINE pushed == Append(list.objects, entry)
<1>1. pushed \in Seq(ReportEntry) /\ Len(pushed) = Len(list.objects) + 1
  BY DEF CappedList
<1>2. pushed # << >>
  BY <1>1 DEF CappedList
<1>3. Tail(pushed) \in Seq(ReportEntry)
  BY <1>1, <1>2
<1> QED BY <1>1, <1>3 DEF PushCapped, CappedList

\* During a flush the key is a key and its partition has a part number.
LEMMA CurKeyType ==
    ASSUME TypeOK, stage # "none", FlushHasOwner
    PROVE  /\ CurKey \in Key /\ cur \in Partition /\ part_numbers[cur] \in Nat
           /\ CurKey[1] = run /\ CurKey[2] = cur /\ CurKey[3] = part_numbers[cur]
BY DEF TypeOK, CurKey, Key, FlushHasOwner

\* The sink before its first start satisfies the invariant.
LEMMA InitInv == Init => IInv
<1> SUFFICES ASSUME Init PROVE IInv
  OBVIOUS
<1>1. DOMAIN spool = {} /\ DOMAIN s3 = {} /\ DOMAIN manifests = {}
  BY DEF Init
<1>2. EmptyList \in CappedList
  BY DEF EmptyList, CappedList
<1>3. spool \in [DOMAIN spool -> ParquetFile] /\ s3 \in [DOMAIN s3 -> Ordinals]
  BY DEF Init
<1>4. buffers \in [Partition -> Ordinals] /\ batch \in Ordinals
  BY DEF Init, Ordinals
<1>5. run \in Nat /\ next_ordinal \in Nat \ {0} /\ clock \in Nat \ {0}
  BY DEF Init
<1>6. part_numbers \in [Partition -> Nat]
  BY DEF Init
<1>7. TypeOK
  BY <1>1, <1>2, <1>3, <1>4, <1>5, <1>6, Zenon DEF Init, TypeOK
<1> QED BY <1>1, <1>7, SinkConfigValid DEF Init, IInv, KeysHandedOut, FlushHasOwner, BatchPlace, SealedIsDurable

\* L0Sink::new starts a run with empty buffers and its own key prefix.
LEMMA NewInv == ASSUME IInv, New PROVE IInv'
<1> USE SinkConfigValid DEF New, EmptySink, storeVars, IInv
<1>1. TypeOK'
  <2>1. buffers' \in [Partition -> Ordinals] /\ batch' \in Ordinals
    BY DEF Ordinals
  <2>2. part_numbers' \in [Partition -> Nat]
    OBVIOUS
  <2>3. uploaded' \in CappedList /\ failed' \in CappedList
    BY DEF EmptyList, CappedList
  <2>4. publisher' \in BOOLEAN
    BY DEF Connected
  <2>5. run' \in Nat /\ next_ordinal' \in Nat \ {0}
    BY DEF TypeOK
  <2>6. /\ up' \in BOOLEAN /\ op' \in {"idle", "append", "flush_all", "final_flush", "manifest"}
        /\ todo' \in SUBSET Partition /\ cur' \in Partition \cup {NoPartition}
        /\ stage' \in {"none", "create", "write", "upload", "seal"} /\ manifest_key' \in BOOLEAN
        /\ rejected' \in SUBSET Nat /\ lost' \in SUBSET Nat
    BY DEF TypeOK
  <2>7. /\ DOMAIN spool' \subseteq Key /\ spool' \in [DOMAIN spool' -> ParquetFile]
        /\ clock' \in Nat \ {0}
        /\ DOMAIN s3' \subseteq Key /\ s3' \in [DOMAIN s3' -> Ordinals]
        /\ DOMAIN manifests' \subseteq Nat
    BY DEF TypeOK
  <2> HIDE SinkConfigValid DEF New, EmptySink, storeVars, IInv
  <2> QED BY <2>1, <2>2, <2>3, <2>4, <2>5, <2>6, <2>7, Zenon DEF TypeOK
<1>2. KeysHandedOut'
  <2> SUFFICES ASSUME NEW k \in DOMAIN spool \cup DOMAIN s3
               PROVE  k[1] <= run' /\ k[1] # run'
    BY DEF KeysHandedOut
  <2>1. run' = run + 1 /\ run \in Nat
    BY DEF TypeOK
  <2>2. k \in Key /\ k[1] <= run
    BY DEF TypeOK, KeysHandedOut
  <2>3. k[1] \in Nat
    BY <2>2 DEF Key
  <2> HIDE SinkConfigValid DEF New, EmptySink, storeVars, IInv
  <2> QED BY <2>1, <2>2, <2>3
<1>3. FlushHasOwner'
  BY DEF TypeOK, FlushHasOwner
<1>4. BatchPlace'
  BY DEF TypeOK, FlushHasOwner, BatchPlace, CurKey
<1>5. SealedIsDurable'
  BY DEF TypeOK, SealedIsDurable
<1> QED BY <1>1, <1>2, <1>3, <1>4, <1>5

\* append_record refusing a record leaves the sink as it was.
LEMMA AppendRejectedInv ==
    ASSUME NEW p \in Partition, IInv, AppendRejected(p) PROVE IInv'
<1> USE SinkConfigValid DEF AppendRejected, storeVars, IInv
<1>1. TypeOK'
  BY DEF TypeOK
<1>2. KeysHandedOut'
  BY DEF TypeOK, KeysHandedOut
<1>3. FlushHasOwner'
  BY DEF TypeOK, FlushHasOwner
<1>4. BatchPlace'
  BY DEF TypeOK, FlushHasOwner, BatchPlace, CurKey
<1>5. SealedIsDurable'
  BY DEF TypeOK, SealedIsDurable
<1> QED BY <1>1, <1>2, <1>3, <1>4, <1>5

\* flush_all and the final flush only start an operation.
LEMMA FlushAllInv ==
    ASSUME NEW final \in BOOLEAN, IInv, FlushAll(final) PROVE IInv'
<1> USE SinkConfigValid DEF FlushAll, storeVars, ghosts, IInv
<1>1. TypeOK'
  BY DEF TypeOK
<1>2. KeysHandedOut'
  BY DEF TypeOK, KeysHandedOut
<1>3. FlushHasOwner'
  BY DEF TypeOK, FlushHasOwner
<1>4. BatchPlace'
  BY DEF TypeOK, FlushHasOwner, BatchPlace, CurKey
<1>5. SealedIsDurable'
  BY DEF TypeOK, SealedIsDurable
<1> QED BY <1>1, <1>2, <1>3, <1>4, <1>5

\* The file of a new key is created empty in the spool.
LEMMA CreateParquetInv == ASSUME IInv, CreateParquet PROVE IInv'
<1> USE DEF CreateParquet, ghosts, IInv
<1> DEFINE file == [recs |-> << >>, whole |-> FALSE, written_at |-> clock, sealed_at |-> 0]
<1>1. CurKey' = CurKey /\ spool' = Put(spool, CurKey, file)
  BY DEF CurKey
<1>2. /\ CurKey \in Key /\ CurKey \notin DOMAIN s3
      /\ CurKey[1] = run /\ CurKey[2] = cur /\ CurKey[3] = part_numbers[cur]
  BY CurKeyType DEF BatchPlace
<1>3. file \in ParquetFile /\ file.sealed_at = 0 /\ file.recs = << >> /\ file.whole = FALSE
  BY DEF TypeOK, ParquetFile, Ordinals
<1> HIDE DEF file
<1>4. /\ DOMAIN spool' = DOMAIN spool \cup {CurKey} /\ spool'[CurKey] = file
      /\ \A j \in DOMAIN spool : j # CurKey => spool'[j] = spool[j]
  BY <1>1 DEF Put
<1>5. DOMAIN spool' \subseteq Key /\ spool' \in [DOMAIN spool' -> ParquetFile]
  <2>1. DOMAIN spool \subseteq Key /\ spool \in [DOMAIN spool -> ParquetFile]
    BY DEF TypeOK
  <2> HIDE DEF CreateParquet, IInv
  <2> QED BY <1>1, <1>2, <1>3, <2>1 DEF Put
<1>6. TypeOK'
  BY <1>5 DEF TypeOK
<1>7. KeysHandedOut'
  <2>1. part_numbers' = part_numbers /\ run' = run /\ up' = up /\ s3' = s3
    OBVIOUS
  <2>2. part_numbers[cur] <= part_numbers[cur] /\ run <= run
    BY CurKeyType DEF TypeOK
  <2> QED BY <1>2, <1>4, <2>1, <2>2, Zenon DEF KeysHandedOut
<1>8. FlushHasOwner'
  BY DEF FlushHasOwner
<1>9. BatchPlace'
  BY <1>1, <1>2, <1>3, <1>4 DEF BatchPlace
<1>10. SealedIsDurable'
  <2> SUFFICES ASSUME NEW k \in DOMAIN spool', spool'[k].sealed_at > 0
               PROVE  k \in DOMAIN s3' /\ s3'[k] = spool'[k].recs
    BY DEF SealedIsDurable
  <2>1. k # CurKey
    BY <1>3, <1>4
  <2> QED BY <1>4, <2>1 DEF SealedIsDurable
<1> QED BY <1>6, <1>7, <1>8, <1>9, <1>10

\* The writer closes the file with the whole batch in it.
LEMMA WriteParquetInv == ASSUME IInv, WriteParquet PROVE IInv'
<1> USE DEF WriteParquet, ghosts, IInv
<1> DEFINE file == [recs |-> batch, whole |-> TRUE, written_at |-> clock, sealed_at |-> 0]
<1>1. CurKey' = CurKey /\ spool' = Put(spool, CurKey, file)
  BY DEF CurKey
<1>2. /\ CurKey \in Key /\ CurKey \notin DOMAIN s3
      /\ CurKey[1] = run /\ CurKey[2] = cur /\ CurKey[3] = part_numbers[cur]
  BY CurKeyType DEF BatchPlace
<1>3. file \in ParquetFile /\ file.sealed_at = 0 /\ file.recs = batch /\ file.whole = TRUE
  BY DEF TypeOK, ParquetFile, Ordinals
<1> HIDE DEF file
<1>4. /\ DOMAIN spool' = DOMAIN spool \cup {CurKey} /\ spool'[CurKey] = file
      /\ \A j \in DOMAIN spool : j # CurKey => spool'[j] = spool[j]
  BY <1>1 DEF Put
<1>5. DOMAIN spool' \subseteq Key /\ spool' \in [DOMAIN spool' -> ParquetFile]
  <2>1. DOMAIN spool \subseteq Key /\ spool \in [DOMAIN spool -> ParquetFile]
    BY DEF TypeOK
  <2> HIDE DEF WriteParquet, IInv
  <2> QED BY <1>1, <1>2, <1>3, <2>1 DEF Put
<1>6. TypeOK'
  BY <1>5 DEF TypeOK
<1>7. KeysHandedOut'
  <2>1. part_numbers' = part_numbers /\ run' = run /\ up' = up /\ s3' = s3
    OBVIOUS
  <2>2. part_numbers[cur] <= part_numbers[cur] /\ run <= run
    BY CurKeyType DEF TypeOK
  <2> QED BY <1>2, <1>4, <2>1, <2>2, Zenon DEF KeysHandedOut
<1>8. FlushHasOwner'
  BY DEF FlushHasOwner
<1>9. BatchPlace'
  BY <1>1, <1>2, <1>3, <1>4 DEF BatchPlace
<1>10. SealedIsDurable'
  <2> SUFFICES ASSUME NEW k \in DOMAIN spool', spool'[k].sealed_at > 0
               PROVE  k \in DOMAIN s3' /\ s3'[k] = spool'[k].recs
    BY DEF SealedIsDurable
  <2>1. k # CurKey
    BY <1>3, <1>4
  <2> QED BY <1>4, <2>1 DEF SealedIsDurable
<1> QED BY <1>6, <1>7, <1>8, <1>9, <1>10

\* A failed write ends the flush and leaves an unsealed file behind.
LEMMA WriteParquetFailsInv == ASSUME IInv, WriteParquetFails PROVE IInv'
<1> USE SinkConfigValid DEF WriteParquetFails, OperationFails, storeVars, IInv
<1>1. TypeOK'
  <2>1. batch' \in Ordinals
    BY DEF Ordinals
  <2>2. lost' \in SUBSET Nat
    BY DEF TypeOK, Ordinals, Range
  <2> QED BY <2>1, <2>2 DEF TypeOK
<1>2. KeysHandedOut'
  BY DEF TypeOK, KeysHandedOut
<1>3. FlushHasOwner'
  BY DEF TypeOK, FlushHasOwner
<1>4. BatchPlace'
  BY DEF BatchPlace
<1>5. SealedIsDurable'
  BY DEF SealedIsDurable
<1> QED BY <1>1, <1>2, <1>3, <1>4, <1>5

\* The upload puts the bytes of the batch under its key.
LEMMA UploadOkInv == ASSUME IInv, UploadOk PROVE IInv'
<1> USE DEF UploadOk, ghosts, IInv
<1>1. CurKey' = CurKey /\ s3' = Put(s3, CurKey, batch)
  BY DEF CurKey, BatchPlace
<1>2. /\ CurKey \in Key /\ CurKey \notin DOMAIN s3
      /\ CurKey[1] = run /\ CurKey[2] = cur /\ CurKey[3] = part_numbers[cur]
  BY CurKeyType DEF BatchPlace
<1>3. /\ DOMAIN s3' = DOMAIN s3 \cup {CurKey} /\ s3'[CurKey] = batch
      /\ \A j \in DOMAIN s3 : j # CurKey => s3'[j] = s3[j]
  BY <1>1 DEF Put
<1>4. DOMAIN s3' \subseteq Key /\ s3' \in [DOMAIN s3' -> Ordinals]
  BY <1>1, <1>2 DEF TypeOK, Put
<1>5. TypeOK'
  BY <1>4 DEF TypeOK
<1>6. KeysHandedOut'
  BY <1>2, <1>3 DEF TypeOK, KeysHandedOut
<1>7. FlushHasOwner'
  BY DEF FlushHasOwner
<1>8. BatchPlace'
  BY <1>1, <1>2, <1>3 DEF BatchPlace
<1>9. SealedIsDurable'
  BY <1>2, <1>3 DEF SealedIsDurable
<1> QED BY <1>5, <1>6, <1>7, <1>8, <1>9

\* A flush over all partitions returns only between flushes.
LEMMA FlushAllReturnsInv ==
    ASSUME IInv, FlushAllReturns PROVE IInv'
<1> USE SinkConfigValid DEF FlushAllReturns, storeVars, ghosts, IInv
<1>1. TypeOK'
  BY DEF TypeOK
<1>2. KeysHandedOut'
  BY DEF TypeOK, KeysHandedOut
<1>3. FlushHasOwner'
  BY DEF TypeOK, FlushHasOwner
<1>4. BatchPlace'
  BY DEF TypeOK, FlushHasOwner, BatchPlace, CurKey
<1>5. SealedIsDurable'
  BY DEF TypeOK, SealedIsDurable
<1> QED BY <1>1, <1>2, <1>3, <1>4, <1>5

\* A flush that gives up has no batch left.
LEMMA FlushAllFailsInv ==
    ASSUME IInv, FlushAllFails PROVE IInv'
<1> USE SinkConfigValid DEF FlushAllFails, OperationFails, storeVars, ghosts, IInv
<1>1. TypeOK'
  BY DEF TypeOK, Ordinals
<1>2. KeysHandedOut'
  BY DEF TypeOK, KeysHandedOut
<1>3. FlushHasOwner'
  BY DEF TypeOK, FlushHasOwner
<1>4. BatchPlace'
  BY DEF TypeOK, FlushHasOwner, BatchPlace, CurKey
<1>5. SealedIsDurable'
  BY DEF TypeOK, SealedIsDurable
<1> QED BY <1>1, <1>2, <1>3, <1>4, <1>5

\* A failed manifest upload touches no data object.
LEMMA UploadManifestFailsInv ==
    ASSUME IInv, UploadManifestFails PROVE IInv'
<1> USE SinkConfigValid DEF UploadManifestFails, ghosts, IInv
<1>0. DOMAIN manifests' \subseteq Nat
  BY DEF TypeOK, Put
<1>1. TypeOK'
  BY <1>0 DEF TypeOK
<1>2. KeysHandedOut'
  BY DEF TypeOK, KeysHandedOut
<1>3. FlushHasOwner'
  BY DEF TypeOK, FlushHasOwner
<1>4. BatchPlace'
  BY DEF TypeOK, FlushHasOwner, BatchPlace, CurKey
<1>5. SealedIsDurable'
  BY DEF TypeOK, SealedIsDurable
<1> QED BY <1>1, <1>2, <1>3, <1>4, <1>5

\* The part number consumed by TakeBatch makes a key that nothing has yet.
LEMMA TakeBatchFresh ==
    ASSUME IInv, up, NEW p \in Partition, NEW records \in Ordinals, TakeBatch(p, records),
           run' = run, up' = up, spool' = spool, s3' = s3
    PROVE  /\ part_numbers' \in [Partition -> Nat] /\ buffers' \in [Partition -> Ordinals]
           /\ KeysHandedOut'
           /\ CurKey' \notin DOMAIN spool /\ CurKey' \notin DOMAIN s3
<1> USE DEF TakeBatch, IInv
<1>1. part_numbers' \in [Partition -> Nat] /\ buffers' \in [Partition -> Ordinals]
  BY DEF TypeOK, Ordinals
<1>2. \A q \in Partition : part_numbers[q] <= part_numbers'[q]
  BY DEF TypeOK
<1>3. ASSUME NEW k \in DOMAIN spool \cup DOMAIN s3
      PROVE  /\ k[1] <= run /\ (k[1] = run => k[3] <= part_numbers[k[2]])
             /\ k[1] \in Nat /\ k[2] \in Partition /\ k[3] \in Nat
  BY DEF KeysHandedOut, TypeOK, Key
<1>4. KeysHandedOut'
  <2> SUFFICES ASSUME NEW k \in DOMAIN spool \cup DOMAIN s3, k[1] = run
               PROVE  k[3] <= part_numbers'[k[2]]
    BY <1>3 DEF KeysHandedOut
  <2>1. k[3] <= part_numbers[k[2]] /\ k[3] \in Nat /\ k[2] \in Partition
    BY <1>3
  <2>2. part_numbers[k[2]] <= part_numbers'[k[2]]
    BY <1>2, <2>1
  <2>3. part_numbers[k[2]] \in Nat /\ part_numbers'[k[2]] \in Nat
    BY <1>1, <2>1 DEF TypeOK
  <2> QED BY <2>1, <2>2, <2>3
<1>5. CurKey' = <<run, p, part_numbers[p] + 1>> /\ part_numbers[p] \in Nat
  BY DEF CurKey, TypeOK
<1>6. ASSUME NEW k \in DOMAIN spool \cup DOMAIN s3 PROVE k # CurKey'
  BY <1>3, <1>5
<1> QED BY <1>1, <1>4, <1>6

\* append_record buffers the record, and takes the batch when the buffer is full.
LEMMA AppendRecordInv ==
    ASSUME IInv, NEW p \in Partition, AppendRecord(p) PROVE IInv'
<1> USE SinkConfigValid DEF AppendRecord, storeVars, ghosts, IInv
<1> DEFINE records == Append(buffers[p], next_ordinal)
<1>1. records \in Ordinals /\ next_ordinal' \in Nat \ {0}
  <2>1. buffers[p] \in Ordinals /\ next_ordinal \in Nat \ {0}
    BY DEF TypeOK
  <2>2. records \in Ordinals
    <3> HIDE SinkConfigValid DEF AppendRecord, IInv
    <3> QED BY <2>1 DEF Ordinals
  <2> QED BY <2>1, <2>2
<1>2. CASE Len(records) >= FlushRecords
  <2>1. TakeBatch(p, records) /\ op' = "append"
    BY <1>2
  <2> HIDE DEF records
  <2>2. /\ part_numbers' \in [Partition -> Nat] /\ buffers' \in [Partition -> Ordinals]
        /\ KeysHandedOut'
        /\ CurKey' \notin DOMAIN spool /\ CurKey' \notin DOMAIN s3
    BY <1>1, <2>1, TakeBatchFresh
  <2>3. cur' = p /\ stage' = "create" /\ batch' = records
    BY <2>1 DEF TakeBatch
  <2>4. TypeOK'
    BY <1>1, <2>1, <2>2, <2>3 DEF TypeOK
  <2>5. FlushHasOwner'
    BY <2>1, <2>3 DEF FlushHasOwner
  <2>6. BatchPlace'
    BY <2>2, <2>3 DEF BatchPlace
  <2>7. SealedIsDurable'
    BY DEF SealedIsDurable
  <2> QED BY <2>2, <2>4, <2>5, <2>6, <2>7
<1>3. CASE ~(Len(records) >= FlushRecords)
  <2>1. /\ buffers' = [buffers EXCEPT ![p] = records]
        /\ UNCHANGED <<op, part_numbers, cur, stage, batch>>
    BY <1>3
  <2> HIDE DEF records
  <2>2. TypeOK'
    BY <1>1, <2>1 DEF TypeOK
  <2>3. KeysHandedOut' /\ FlushHasOwner' /\ SealedIsDurable'
    BY <2>1 DEF KeysHandedOut, FlushHasOwner, SealedIsDurable
  <2>4. BatchPlace'
    BY <2>1 DEF BatchPlace, CurKey
  <2> QED BY <2>2, <2>3, <2>4
<1> QED BY <1>2, <1>3

\* The next partition of flush_all gives up its buffer under a new part number.
LEMMA FlushNextInv ==
    ASSUME IInv, NEW p \in Partition, FlushNext(p) PROVE IInv'
<1> USE DEF FlushNext, storeVars, ghosts, IInv
<1>1. buffers[p] \in Ordinals
  BY DEF TypeOK
<1>2. /\ part_numbers' \in [Partition -> Nat] /\ buffers' \in [Partition -> Ordinals]
      /\ KeysHandedOut'
      /\ CurKey' \notin DOMAIN spool /\ CurKey' \notin DOMAIN s3
  BY <1>1, TakeBatchFresh
<1>3. cur' = p /\ stage' = "create" /\ batch' = buffers[p]
  BY DEF TakeBatch
<1>4. TypeOK'
  BY <1>1, <1>2, <1>3 DEF TypeOK
<1>5. FlushHasOwner'
  BY <1>3 DEF FlushHasOwner
<1>6. BatchPlace'
  BY <1>2, <1>3 DEF BatchPlace
<1>7. SealedIsDurable'
  BY DEF SealedIsDurable
<1> QED BY <1>2, <1>4, <1>5, <1>6, <1>7

\* What a put of the batch does to the bucket, whoever learns of it.
LEMMA LandsInBucket ==
    ASSUME IInv, stage = "upload", s3' = s3 \/ s3' = Put(s3, CurKey, spool[CurKey].recs)
    PROVE  /\ DOMAIN s3' \subseteq Key /\ s3' \in [DOMAIN s3' -> Ordinals]
           /\ \A k \in DOMAIN s3 : k \in DOMAIN s3' /\ s3'[k] = s3[k]
           /\ \A k \in DOMAIN s3' : k \in DOMAIN s3 \/ k = CurKey
<1>1. CurKey \in Key /\ CurKey \notin DOMAIN s3 /\ spool[CurKey].recs \in Ordinals
  BY CurKeyType DEF IInv, BatchPlace, TypeOK
<1>2. CASE s3' = s3
  BY <1>2 DEF IInv, TypeOK
<1>3. CASE s3' = Put(s3, CurKey, spool[CurKey].recs)
  BY <1>1, <1>3 DEF IInv, TypeOK, Put
<1> QED BY <1>2, <1>3

\* A report entry for the flush in progress is a report entry.
LEMMA EntryType ==
    ASSUME IInv, stage # "none"
    PROVE  [key |-> CurKey, record_count |-> Len(batch)] \in ReportEntry
BY CurKeyType DEF IInv, TypeOK, ReportEntry, Ordinals

\* A failed upload is reported, and its file stays unsealed.
LEMMA UploadFailsInv == ASSUME IInv, UploadFails PROVE IInv'
<1> USE SinkConfigValid DEF UploadFails, FlushReturns, ghosts, IInv
<1>1. /\ DOMAIN s3' \subseteq Key /\ s3' \in [DOMAIN s3' -> Ordinals]
      /\ \A k \in DOMAIN s3 : k \in DOMAIN s3' /\ s3'[k] = s3[k]
      /\ \A k \in DOMAIN s3' : k \in DOMAIN s3 \/ k = CurKey
  BY LandsInBucket
<1>2. failed' \in CappedList
  BY EntryType, PushCappedType DEF TypeOK
<1>3. batch' \in Ordinals
  BY DEF Ordinals
<1>4. CurKey \in DOMAIN spool
  BY DEF BatchPlace
<1>5. TypeOK'
  BY <1>1, <1>2, <1>3 DEF TypeOK
<1>6. KeysHandedOut'
  BY <1>1, <1>4 DEF KeysHandedOut
<1>7. FlushHasOwner' /\ BatchPlace'
  BY DEF FlushHasOwner, BatchPlace
<1>8. SealedIsDurable'
  BY <1>1 DEF SealedIsDurable
<1> QED BY <1>5, <1>6, <1>7, <1>8

\* Sealing changes the marker of the current file only.
LEMMA SealKeepsRecords ==
    ASSUME IInv, SealAndRecord
    PROVE  /\ DOMAIN spool' = DOMAIN spool
           /\ \A k \in DOMAIN spool : spool'[k].recs = spool[k].recs
           /\ \A k \in DOMAIN spool : k # CurKey => spool'[k] = spool[k]
           /\ spool' \in [DOMAIN spool' -> ParquetFile] /\ clock' \in Nat \ {0}
<1> USE DEF SealAndRecord, IInv
<1>1. spool \in [DOMAIN spool -> ParquetFile] /\ clock \in Nat \ {0}
  BY DEF TypeOK
<1>2. CASE spool' = [spool EXCEPT ![CurKey].sealed_at = clock] /\ clock' = clock + 1
  <2>1. CurKey \in DOMAIN spool
    BY DEF BatchPlace
  <2> DEFINE sealed == [spool[CurKey] EXCEPT !.sealed_at = clock]
  <2>2. sealed \in ParquetFile /\ sealed.recs = spool[CurKey].recs
    BY <1>1, <2>1 DEF ParquetFile
  <2>3. spool' = [spool EXCEPT ![CurKey] = sealed]
    BY <1>2
  <2> HIDE DEF sealed
  <2> QED BY <1>1, <1>2, <2>1, <2>2, <2>3
<1>3. CASE spool' = spool /\ clock' = clock
  BY <1>1, <1>3
<1> QED BY <1>2, <1>3

\* seal marks the file only once the object is in the bucket.
LEMMA SealAndRecordInv == ASSUME IInv, SealAndRecord PROVE IInv'
<1> USE SinkConfigValid DEF SealAndRecord, FlushReturns, ghosts, IInv
<1>1. uploaded' \in CappedList
  BY EntryType, PushCappedType DEF TypeOK
<1>2. batch' \in Ordinals
  BY DEF Ordinals
<1>3. /\ DOMAIN spool' = DOMAIN spool
      /\ \A k \in DOMAIN spool : spool'[k].recs = spool[k].recs
      /\ \A k \in DOMAIN spool : k # CurKey => spool'[k] = spool[k]
      /\ spool' \in [DOMAIN spool' -> ParquetFile] /\ clock' \in Nat \ {0}
  BY SealKeepsRecords
<1>5. TypeOK'
  BY <1>1, <1>2, <1>3 DEF TypeOK
<1>6. KeysHandedOut'
  BY <1>3 DEF KeysHandedOut
<1>7. FlushHasOwner' /\ BatchPlace'
  BY DEF FlushHasOwner, BatchPlace
<1>8. SealedIsDurable'
  BY <1>3 DEF SealedIsDurable, BatchPlace
<1> QED BY <1>5, <1>6, <1>7, <1>8

\* The manifest of the run is put next to its data objects.
LEMMA UploadManifestInv == ASSUME IInv, UploadManifest PROVE IInv'
<1> USE SinkConfigValid DEF UploadManifest, ghosts, IInv
<1>1. uploaded' \in CappedList
  <2>1. ManifestEntry \in ReportEntry
    BY DEF ManifestEntry, ReportEntry
  <2> QED BY <2>1, PushCappedType DEF TypeOK
<1>2. DOMAIN manifests' \subseteq Nat
  BY DEF TypeOK, Put
<1>3. TypeOK'
  BY <1>1, <1>2 DEF TypeOK
<1>4. KeysHandedOut' /\ FlushHasOwner'
  BY DEF KeysHandedOut, FlushHasOwner
<1>5. BatchPlace' /\ SealedIsDurable'
  BY DEF FlushHasOwner, BatchPlace, SealedIsDurable
<1> QED BY <1>3, <1>4, <1>5

\* A crash loses the process and keeps spool and bucket.
LEMMA CrashInv == ASSUME IInv, Crash PROVE IInv'
<1> USE SinkConfigValid DEF Crash, EmptySink, IInv
<1>1. /\ DOMAIN s3' \subseteq Key /\ s3' \in [DOMAIN s3' -> Ordinals]
      /\ \A k \in DOMAIN s3 : k \in DOMAIN s3' /\ s3'[k] = s3[k]
      /\ \A k \in DOMAIN s3' : k \in DOMAIN s3 \/ k \in DOMAIN spool
  <2>1. CASE s3' = s3
    BY <2>1 DEF TypeOK
  <2>2. CASE stage = "upload" /\ CurKey \in DOMAIN spool /\ s3' = Put(s3, CurKey, spool[CurKey].recs)
    BY <2>2, LandsInBucket
  <2> QED BY <2>1, <2>2
<1>2. buffers' \in [Partition -> Ordinals] /\ batch' \in Ordinals
  BY DEF Ordinals
<1>3. uploaded' \in CappedList /\ failed' \in CappedList
  BY DEF EmptyList, CappedList
<1>4. TypeOK'
  <2>1. part_numbers' \in [Partition -> Nat] /\ next_ordinal' \in Nat \ {0}
    OBVIOUS
  <2>2. DOMAIN manifests' \subseteq Nat
    BY DEF TypeOK, Put
  <2> QED BY <1>1, <1>2, <1>3, <2>1, <2>2 DEF TypeOK
<1>5. KeysHandedOut'
  BY <1>1 DEF KeysHandedOut
<1>6. FlushHasOwner' /\ BatchPlace'
  BY DEF FlushHasOwner, BatchPlace
<1>7. SealedIsDurable'
  BY <1>1 DEF SealedIsDurable
<1> QED BY <1>4, <1>5, <1>6, <1>7

\* Every step of the sink preserves the invariant.
LEMMA NextInv == IInv /\ [Next]_vars => IInv'
<1> SUFFICES ASSUME IInv, [Next]_vars PROVE IInv'
  OBVIOUS
<1>1. CASE New
  BY <1>1, NewInv
<1>2. CASE \E p \in Partition : AppendRecord(p) \/ AppendRejected(p)
  BY <1>2, AppendRecordInv, AppendRejectedInv
<1>3. CASE \E final \in BOOLEAN : FlushAll(final)
  BY <1>3, FlushAllInv
<1>4. CASE FlushStep
  <2>1. CASE \E p \in Partition : FlushNext(p)
    BY <2>1, FlushNextInv
  <2>2. CASE CreateParquet \/ WriteParquet \/ WriteParquetFails
    BY <2>2, CreateParquetInv, WriteParquetInv, WriteParquetFailsInv
  <2>3. CASE UploadOk \/ UploadFails \/ SealAndRecord
    BY <2>3, UploadOkInv, UploadFailsInv, SealAndRecordInv
  <2>4. CASE FlushAllReturns \/ FlushAllFails
    BY <2>4, FlushAllReturnsInv, FlushAllFailsInv
  <2>5. CASE UploadManifest \/ UploadManifestFails
    BY <2>5, UploadManifestInv, UploadManifestFailsInv
  <2> QED BY <1>4, <2>1, <2>2, <2>3, <2>4, <2>5 DEF FlushStep
<1>5. CASE Crash
  BY <1>5, CrashInv
<1>6. CASE UNCHANGED vars
  <2> USE <1>6 DEF vars, sinkVars, storeVars, ghosts, IInv
  <2>1. TypeOK'
    BY DEF TypeOK
  <2>2. KeysHandedOut' /\ FlushHasOwner' /\ SealedIsDurable'
    BY DEF KeysHandedOut, FlushHasOwner, SealedIsDurable
  <2>3. BatchPlace'
    BY DEF BatchPlace, CurKey
  <2> QED BY <2>1, <2>2, <2>3
<1> QED BY <1>1, <1>2, <1>3, <1>4, <1>5, <1>6 DEF Next

-----------------------------------------------------------------------------
\* In every reachable state of the sink the keys of the spool and the bucket
\* were handed out before, and the flush in progress is where its stage says.
THEOREM Invariance == Spec => []IInv
<1> QED BY InitInv, NextInv, PTL DEF Spec

\* Type correctness of the sink and of the stores it writes.
THEOREM TypeCorrect == Spec => []TypeOK
<1>1. IInv => TypeOK
  BY DEF IInv
<1> QED BY <1>1, Invariance, PTL

\* A .sealed marker is never there without the object (flush.rs seals after
\* the upload): with any number of partitions, restarts and failed uploads.
THEOREM SealedDurable == Spec => []SealedIsDurable
<1>1. IInv => SealedIsDurable
  BY DEF IInv
<1> QED BY <1>1, Invariance, PTL

\* Each step leaves the objects of the bucket as they are.
LEMMA NextKeepsObjects ==
    ASSUME IInv, [Next]_vars
    PROVE  \A k \in DOMAIN s3 : k \in DOMAIN s3' /\ s3'[k] = s3[k]
<1>1. CASE UploadOk \/ UploadFails \/ Crash
  <2>1. CASE s3' = s3
    BY <2>1
  <2>2. CASE stage = "upload" /\ s3' = Put(s3, CurKey, spool[CurKey].recs)
    BY <2>2, LandsInBucket
  <2> QED BY <1>1, <2>1, <2>2 DEF UploadOk, UploadFails, Crash
<1>2. CASE ~(UploadOk \/ UploadFails \/ Crash)
  <2>1. s3' = s3
    BY <1>2 DEF Next, FlushStep, New, AppendRecord, AppendRejected, FlushAll, FlushNext,
       CreateParquet, WriteParquet, WriteParquetFails, SealAndRecord, FlushAllReturns,
       FlushAllFails, UploadManifest, UploadManifestFails, storeVars, vars
  <2> QED BY <2>1
<1> QED BY <1>1, <1>2

\* An uploaded object keeps its records for ever: no later part, retry or run
\* writes under its key.
THEOREM ObjectsNeverChange == Spec => ObjectsImmutable
<1>1. IInv /\ [Next]_vars =>
        [\A k \in DOMAIN s3 : k \in DOMAIN s3' /\ s3'[k] = s3[k]]_vars
  BY NextKeepsObjects
<1> QED BY <1>1, Invariance, PTL DEF Spec, ObjectsImmutable

-----------------------------------------------------------------------------
(* No record is forgotten. *)

Accounted(o) ==
    o \in rejected \/ o \in lost \/ InBuffer(o) \/ Unwritten(o) \/ InSpool(o)

\* What appending to a list adds to its elements.
LEMMA RangeAppend ==
    ASSUME NEW s \in Ordinals, NEW x \in Nat
    PROVE  x \in Range(Append(s, x)) /\ \A o \in Range(s) : o \in Range(Append(s, x))
<1>1. Append(s, x)[Len(s) + 1] = x /\ Len(s) + 1 \in DOMAIN Append(s, x)
  BY DEF Ordinals
<1>2. ASSUME NEW i \in DOMAIN s PROVE i \in DOMAIN Append(s, x) /\ Append(s, x)[i] = s[i]
  BY DEF Ordinals
<1> QED BY <1>1, <1>2 DEF Range

\* A taken batch holds what was in the buffer.
LEMMA AccountedTaken ==
    ASSUME NEW o, IInv, NEW p \in Partition, NEW records, TakeBatch(p, records),
           stage = "none", UNCHANGED <<rejected, lost, spool, run>>,
           o \in Range(records) \/ (Accounted(o) /\ Range(buffers[p]) \subseteq Range(records))
    PROVE  Accounted(o)'
<1>1. CASE o \in Range(records)
  BY <1>1 DEF TakeBatch, Accounted, Unwritten
<1>2. CASE InBuffer(o) /\ o \notin Range(records)
  <2>1. PICK q \in Partition : o \in Range(buffers[q])
    BY <1>2 DEF InBuffer
  <2>2. q # p
    BY <1>2, <2>1
  <2>3. buffers'[q] = buffers[q]
    BY <2>2 DEF TakeBatch, IInv, TypeOK
  <2> QED BY <2>1, <2>3 DEF Accounted, InBuffer
<1>3. CASE o \in rejected \/ o \in lost \/ InSpool(o)
  BY <1>3 DEF Accounted, InSpool
<1>4. ~Unwritten(o)
  BY DEF Unwritten
<1> QED BY <1>1, <1>2, <1>3, <1>4 DEF Accounted

\* No step loses track of a record of the current run.
LEMMA NothingForgottenStep ==
    ASSUME IInv, NothingForgotten, [Next]_vars PROVE NothingForgotten'
<1> SUFFICES ASSUME up', NEW o \in 1 .. next_ordinal' - 1 PROVE Accounted(o)'
  BY DEF NothingForgotten, Accounted
<1>0. next_ordinal \in Nat \ {0} /\ o \in Nat
  BY DEF IInv, TypeOK
<1>1. ASSUME up, o \in 1 .. next_ordinal - 1 PROVE Accounted(o)
  BY <1>1 DEF NothingForgotten, Accounted
<1>2. CASE New
  BY <1>2 DEF New, EmptySink
<1>3. ASSUME NEW p \in Partition, AppendRecord(p) PROVE Accounted(o)'
  <2> USE <1>3
  <2>1. stage = "none" /\ up /\ next_ordinal' = next_ordinal + 1
    BY DEF AppendRecord, IInv, FlushHasOwner, TypeOK
  <2>2. o = next_ordinal \/ Accounted(o)
    BY <1>0, <1>1, <2>1
  <2> DEFINE records == Append(buffers[p], next_ordinal)
  <2>3. next_ordinal \in Range(records) /\ Range(buffers[p]) \subseteq Range(records)
    BY <1>0, RangeAppend DEF IInv, TypeOK
  <2>4. CASE Len(records) >= FlushRecords
    <3>1. TakeBatch(p, records) /\ UNCHANGED <<rejected, lost, spool, run>>
      BY <2>4 DEF AppendRecord, storeVars, ghosts
    <3> HIDE DEF records
    <3> QED BY <2>1, <2>2, <2>3, <3>1, AccountedTaken
  <2>5. CASE ~(Len(records) >= FlushRecords)
    <3>1. /\ buffers' = [buffers EXCEPT ![p] = records]
          /\ UNCHANGED <<rejected, lost, spool, run, stage, batch>>
      BY <2>5 DEF AppendRecord, storeVars, ghosts
    <3> HIDE DEF records
    <3>2. ASSUME InBuffer(o) PROVE InBuffer(o)'
      <4>1. PICK q \in Partition : o \in Range(buffers[q])
        BY <3>2 DEF InBuffer
      <4>2. o \in Range(buffers'[q])
        BY <2>3, <3>1, <4>1 DEF IInv, TypeOK
      <4> QED BY <4>2 DEF InBuffer
    <3>3. o = next_ordinal => InBuffer(o)'
      <4>1. buffers'[p] = records
        BY <3>1 DEF IInv, TypeOK
      <4> QED BY <2>3, <4>1 DEF InBuffer
    <3> QED BY <2>2, <3>1, <3>2, <3>3 DEF Accounted, Unwritten, InSpool
  <2> QED BY <2>4, <2>5
<1>4. ASSUME NEW p \in Partition, AppendRejected(p) PROVE Accounted(o)'
  <2> USE <1>4 DEF AppendRejected, storeVars
  <2>1. o = next_ordinal \/ Accounted(o)
    BY <1>0, <1>1
  <2>2. CASE o = next_ordinal
    BY <2>2 DEF Accounted
  <2>3. CASE Accounted(o)
    BY <2>3 DEF Accounted, InBuffer, Unwritten, InSpool
  <2> QED BY <2>1, <2>2, <2>3
<1>5. CASE (\E final \in BOOLEAN : FlushAll(final)) \/ FlushAllReturns \/ UNCHANGED vars
  <2>1. up /\ UNCHANGED <<next_ordinal, rejected, lost, buffers, spool, run, stage, batch>>
    BY <1>5 DEF FlushAll, FlushAllReturns, vars, sinkVars, storeVars, ghosts
  <2>2. Accounted(o)
    BY <1>1, <2>1
  <2> QED BY <2>1, <2>2 DEF Accounted, InBuffer, Unwritten, InSpool
<1>6. ASSUME NEW p \in Partition, FlushNext(p) PROVE Accounted(o)'
  <2> USE <1>6 DEF FlushNext, storeVars, ghosts
  <2>1. stage = "none"
    BY SinkConfigValid DEF IInv, FlushHasOwner
  <2>2. Accounted(o)
    BY <1>1
  <2> QED BY <2>1, <2>2, AccountedTaken
<1>7. CASE CreateParquet
  <2> USE <1>7 DEF CreateParquet, ghosts
  <2>1. Accounted(o) /\ CurKey \notin DOMAIN spool
    BY <1>1 DEF IInv, BatchPlace
  <2>2. ASSUME InSpool(o) PROVE InSpool(o)'
    BY <2>1, <2>2 DEF InSpool, Put
  <2> QED BY <2>1, <2>2 DEF Accounted, InBuffer, Unwritten
<1>8. CASE WriteParquet
  <2> USE <1>8 DEF WriteParquet, ghosts
  <2>1. Accounted(o) /\ spool[CurKey].recs = << >> /\ CurKey[1] = run
    BY <1>1 DEF IInv, BatchPlace, CurKey
  <2>2. CurKey \in DOMAIN spool' /\ spool'[CurKey].recs = batch
    BY DEF Put
  <2>3. ASSUME InSpool(o) PROVE InSpool(o)'
    <3>1. PICK k \in DOMAIN spool : k[1] = run /\ o \in Range(spool[k].recs)
      BY <2>3 DEF InSpool
    <3>2. k # CurKey
      <4>1. Range(<< >>) = {}
        BY DEF Range
      <4> QED BY <2>1, <3>1, <4>1, Zenon
    <3>3. k \in DOMAIN spool' /\ spool'[k] = spool[k]
      BY <3>1, <3>2 DEF Put
    <3> QED BY <3>1, <3>3 DEF InSpool
  <2>4. ASSUME Unwritten(o) PROVE InSpool(o)'
    BY <2>1, <2>2, <2>4 DEF Unwritten, InSpool
  <2> QED BY <2>1, <2>3, <2>4 DEF Accounted, InBuffer
<1>9. CASE WriteParquetFails
  <2> USE <1>9 DEF WriteParquetFails, OperationFails, storeVars
  <2>1. Accounted(o)
    BY <1>1
  <2> QED BY <2>1 DEF Accounted, InBuffer, Unwritten, InSpool
<1>10. CASE UploadOk \/ UploadFails
  <2>1. /\ up /\ stage = "upload"
        /\ UNCHANGED <<next_ordinal, rejected, lost, buffers, spool, run>>
    BY <1>10 DEF UploadOk, UploadFails, ghosts
  <2>2. Accounted(o) /\ ~Unwritten(o)
    BY <1>1, <2>1 DEF Unwritten
  <2> QED BY <2>1, <2>2 DEF Accounted, InBuffer, InSpool
<1>11. CASE SealAndRecord
  <2>1. /\ up /\ stage = "seal"
        /\ UNCHANGED <<next_ordinal, rejected, lost, buffers, run>>
    BY <1>11 DEF SealAndRecord, ghosts
  <2>2. Accounted(o) /\ ~Unwritten(o)
    BY <1>1, <2>1 DEF Unwritten
  <2>3. InSpool(o) => InSpool(o)'
    BY <1>11, <2>1, SealKeepsRecords DEF InSpool
  <2> QED BY <2>1, <2>2, <2>3 DEF Accounted, InBuffer
<1>12. CASE FlushAllFails
  <2> USE <1>12 DEF FlushAllFails, OperationFails, storeVars, ghosts
  <2>1. stage = "none" /\ Accounted(o)
    BY <1>1, SinkConfigValid DEF IInv, FlushHasOwner
  <2> QED BY <2>1 DEF Accounted, InBuffer, Unwritten, InSpool
<1>13. CASE UploadManifest \/ UploadManifestFails \/ Crash
  BY <1>13 DEF UploadManifest, UploadManifestFails, Crash
<1> QED BY <1>2, <1>3, <1>4, <1>5, <1>6, <1>7, <1>8, <1>9, <1>10, <1>11, <1>12, <1>13
        DEF Next, FlushStep

\* Every ordinal a sink hands out is accounted for while the sink lives: only
\* a refused live publish or a failed file write drops a record.
THEOREM NothingIsForgotten == Spec => []NothingForgotten
<1>1. Init => NothingForgotten
  BY DEF Init, NothingForgotten
<1>2. IInv /\ NothingForgotten /\ [Next]_vars => NothingForgotten'
  BY NothingForgottenStep
<1> QED BY <1>1, <1>2, Invariance, PTL DEF Spec
=============================================================================

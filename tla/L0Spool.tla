------------------------------ MODULE L0Spool -------------------------------
(***************************************************************************)
(* The local spool shared by the ingest workers: the sink of one worker    *)
(* (module L0Sink) together with the eviction loops of all of them         *)
(* (storage/eviction.rs, maintenance.rs) and the clean-up of unsealed      *)
(* orphans that every worker runs when it starts (storage/orphan.rs).      *)
(* Both venue workers get the same --l0-spool-root, so several loops work  *)
(* on the same files.                                                      *)
(***************************************************************************)
EXTENDS L0Sink

CONSTANTS
    Evictors,       \* the processes that run an eviction loop on the spool
    SafetyFloor,    \* safety_floor_secs, in ticks of the clock
    MaxClock        \* bound on the clock

ASSUME SpoolConfigValid == SafetyFloor \in Nat \ {0} /\ MaxClock \in Nat

VARIABLES
    candidates,     \* per evictor: the EvictableFiles ranked and not yet visited
    evicted,        \* history: the files removed by eviction, by key
    quarantined     \* history: the files moved to orphaned-unsealed, by key

spoolVars == <<candidates, evicted, quarantined>>
allVars == <<vars, spoolVars>>

SpoolInit ==
    /\ Init
    /\ candidates = [e \in Evictors |-> {}]
    /\ evicted = << >> /\ quarantined = << >>

\* EvictableFile: a parquet file with a .sealed sibling.
EvictableFile == [key : Key, sealed_at : Nat]

\* collect_files_on_disk.
CollectFilesOnDisk ==
    {[key |-> k, sealed_at |-> spool[k].sealed_at] :
        k \in {j \in DOMAIN spool : spool[j].sealed_at > 0}}

\* is_protected_path: health and gap families are never evicted.
IsProtected(k) == k[2] \notin RawPartition

SafetyCutoff == clock - SafetyFloor

\* Mutant of rank_evictable: the .sealed marker is not asked for.
RankUnsealed ==
    {f \in {[key |-> k, sealed_at |-> spool[k].sealed_at] : k \in DOMAIN spool} :
        ~IsProtected(f.key) /\ f.sealed_at <= SafetyCutoff}

\* rank_evictable, up to the order, which EvictOne takes care of.
RankEvictable ==
    {f \in CollectFilesOnDisk : ~IsProtected(f.key) /\ f.sealed_at <= SafetyCutoff}

\* evict_once finds the disk above the high-water mark and ranks the files.
StartEviction(e) ==
    /\ candidates[e] = {}
    /\ candidates' = [candidates EXCEPT ![e] = RankEvictable]
    /\ UNCHANGED <<vars, evicted, quarantined>>

\* sort_by_key(sealed_at_ms): the next file of the loop.
OldestOf(files) == {f \in files : \A g \in files : f.sealed_at <= g.sealed_at}

Remove(f, k) == [j \in DOMAIN f \ {k} |-> f[j]]

\* One iteration of evict_once while the disk is above the target: remove the
\* parquet file, then its marker.  Another evictor may have been faster.
EvictOne(e) ==
    /\ \E f \in OldestOf(candidates[e]) :
        /\ candidates' = [candidates EXCEPT ![e] = @ \ {f}]
        /\ IF f.key \in DOMAIN spool
           THEN /\ evicted' = Put(evicted, f.key, spool[f.key])
                /\ spool' = Remove(spool, f.key)
           ELSE UNCHANGED <<evicted, spool>>
    /\ UNCHANGED <<run, up, sinkVars, clock, s3, manifests, ghosts, quarantined>>

\* evict_once leaves its loop: the disk is below the target, a probe failed,
\* or the process died.
StopEviction(e) ==
    /\ candidates[e] # {}
    /\ candidates' = [candidates EXCEPT ![e] = {}]
    /\ UNCHANGED <<vars, evicted, quarantined>>

\* Mutant: recent files are not spared.
OrphansIgnoringAge == {k \in DOMAIN spool : spool[k].sealed_at = 0 /\ ~spool[k].whole}

\* The files cleanup_invalid_unsealed_once moves away: unsealed, older than
\* the safety floor, without a valid footer.
Orphans ==
    {k \in DOMAIN spool : /\ spool[k].sealed_at = 0
                          /\ spool[k].written_at <= SafetyCutoff
                          /\ ~spool[k].whole}

\* A worker starts and cleans up before it opens its own sink; its scan may
\* stop anywhere, because one failing rename or stat ends it.
CleanupOrphans ==
    /\ Orphans # {}
    /\ \E moved \in SUBSET Orphans :
        /\ quarantined' = [k \in DOMAIN quarantined \cup moved |->
                              IF k \in moved THEN spool[k] ELSE quarantined[k]]
        /\ spool' = [k \in DOMAIN spool \ moved |-> spool[k]]
    /\ UNCHANGED <<run, up, sinkVars, clock, s3, manifests, ghosts, candidates, evicted>>

\* Time passes.  A parquet write, which is one synchronous call, is taken to
\* end before the safety floor (hours by default) has passed.
WriteWithinFloor ==
    (up /\ stage = "write" /\ CurKey \in DOMAIN spool) =>
        spool[CurKey].written_at > clock + 1 - SafetyFloor

Tick ==
    /\ clock < MaxClock /\ WriteWithinFloor
    /\ clock' = clock + 1
    /\ UNCHANGED <<run, up, sinkVars, spool, s3, manifests, ghosts, spoolVars>>

SpoolNext ==
    \/ Next /\ UNCHANGED spoolVars
    \/ \E e \in Evictors : StartEviction(e) \/ EvictOne(e) \/ StopEviction(e)
    \/ CleanupOrphans
    \/ Tick

SpoolSpec == SpoolInit /\ [][SpoolNext]_allVars

-----------------------------------------------------------------------------
(* Properties *)

SpoolTypeOK ==
    /\ TypeOK
    /\ candidates \in [Evictors -> SUBSET EvictableFile]
    /\ DOMAIN evicted \subseteq Key /\ evicted \in [DOMAIN evicted -> ParquetFile]
    /\ DOMAIN quarantined \subseteq Key
    /\ quarantined \in [DOMAIN quarantined -> ParquetFile]

\* Eviction never deletes the last copy: what it removed is in the bucket with
\* the same records, however the loops of several workers interleave with the
\* flushes of the sink and with crashes (.sealed is written after the upload).
EvictedIsDurable ==
    \A k \in DOMAIN evicted : k \in DOMAIN s3 /\ s3[k] = evicted[k].recs

\* Health and gap files stay for the normalizer (PROTECTED_MARKERS), and what
\* is quarantined never was a readable file.
OnlyRawEvicted ==
    /\ \A k \in DOMAIN evicted : k[2] \in RawPartition
    /\ \A k \in DOMAIN quarantined : ~quarantined[k].whole

\* The file a flush is working on is not taken away under it by another
\* worker's eviction loop or start-up clean-up.
InFlightFileStays ==
    up /\ stage \in {"write", "upload", "seal"} => CurKey \in DOMAIN spool

=============================================================================

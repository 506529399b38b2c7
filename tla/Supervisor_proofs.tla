-------------------------- MODULE Supervisor_proofs --------------------------
(***************************************************************************)
(* What the markers, the pointers and the phase of the normalize worker    *)
(* stand for, for any lookback, number of subchunks and slots, venues and  *)
(* faults.                                                                 *)
(***************************************************************************)
EXTENDS Supervisor, TLAPS, WellFoundedInduction

InHand == {"chunk", "backfill", "mark_l0", "subchunk", "normalize", "mark"}
L0Ready == {"mark_l0", "subchunk", "normalize", "mark"}
Statuses == {"none", "success", "empty", "blocked"}

TypeOK ==
    /\ due \in Lookback..MaxChunks
    /\ sched \in {"off", "idle", "pick", "ok", "err", "sleep"} \cup InHand
    /\ chunk \in Nat /\ sub \in Nat
    /\ child \in {"none", "running", "ok", "failed"} /\ outcome \in Statuses
    /\ l0_marker \subseteq Chunk /\ complete \subseteq Chunk
    /\ pointer \in [Chunk \X Subchunk \X Slot -> Statuses]
    /\ l0_done \in [Chunk -> {"none", "stored", "lossy"}]
    /\ l1_done \in [Chunk \X Subchunk -> Statuses]

\* Nothing of the lookback below c is missing.
NothingOlder(c) == \A d \in bootstrap_chunks : d < c => d \in complete

Done(c, k) == l1_done[<<c, k>>] # "none" \/ pointer[<<c, k, 1>>] = "success"

\* How far the chunk in hand has come.
Progress ==
    /\ sched \in InHand => chunk \in Chunk /\ chunk <= due /\ NothingOlder(chunk)
    /\ \A c \in complete : c <= due
    /\ \A c \in l0_marker : l0_done[c] # "none"
    /\ sched \in L0Ready => l0_done[chunk] # "none"
    /\ sched = "backfill" /\ child = "ok" => l0_done[chunk] # "none"
    /\ sched \in {"subchunk", "normalize", "mark"} => \A k \in Subchunk : k < sub => Done(chunk, k)
    /\ sched = "normalize" => sub \in Subchunk /\ outcome # "none"
    /\ sched = "normalize" /\ child = "ok" => l1_done[<<chunk, sub>>] # "none"
    /\ sched = "subchunk" => sub >= 1
    /\ sched = "mark" => sub > Subchunks

\* A child that publishes another status than success has found no success.
NoSuccessUnder ==
    sched = "normalize" /\ child = "running" /\ outcome # "success" => pointer[<<chunk, sub, 1>>] # "success"

Covered == \E d \in Lookback..due : (d - Lookback + 1)..d \subseteq complete

\* Where the end of the bootstrap can have been seen from.
PhaseEarned ==
    /\ ~Up => sched = "off" /\ normalize = "none"
    /\ BootstrapEnabled =>
          /\ sched = "ok" /\ ~shutdown_requested => Covered
          /\ sched = "idle" => Covered
          /\ Up /\ ~bootstrap_active => Covered
          /\ normalize = "full" => Covered

IInv == TypeOK /\ Progress /\ NoSuccessUnder /\ CompleteIsEarned /\ PhaseEarned

LEMMA Config ==
    /\ Lookback \in Nat /\ Lookback >= 1 /\ MaxChunks \in Nat /\ Lookback <= MaxChunks
    /\ Subchunks \in Nat /\ Subchunks >= 1 /\ SlotCount \in Nat /\ SlotCount >= 1
    /\ Outcomes \subseteq {"success", "empty", "blocked"}
  BY SchedulerConfigValid

\* A set of chunks that is not empty has an oldest one.
LEMMA MinIn ==
    ASSUME NEW S \in SUBSET Nat, S # {}
    PROVE  Min(S) \in S /\ \A d \in S : Min(S) <= d
  <1> DEFINE Less == {p \in Nat \X Nat : p[1] < p[2]}
  <1>1. IsWellFoundedOn(Less, Nat)
    BY NatLessThanWellFounded, Zenon DEF OpToRel
  <1>2. PICK m \in S : \A d \in S : <<d, m>> \notin Less
    <2> HIDE DEF Less
    <2> QED BY <1>1, WFMin
  <1>3. \A d \in S : m <= d
    <2> SUFFICES ASSUME NEW d \in S, d < m PROVE FALSE
      OBVIOUS
    <2>1. <<d, m>> \in Less
      OBVIOUS
    <2> QED BY <1>2, <2>1
  <1> QED BY <1>3 DEF Min

LEMMA InitInv == SupInit => IInv
  <1> SUFFICES ASSUME SupInit PROVE IInv
    OBVIOUS
  <1> USE DEF SupInit, SchedInit
  <1>1. TypeOK
    BY Config DEF TypeOK, Statuses, InHand
  <1>2. Progress /\ NoSuccessUnder /\ CompleteIsEarned /\ PhaseEarned
    BY DEF Progress, NoSuccessUnder, CompleteIsEarned, PhaseEarned, InHand, L0Ready, Up, Exited
  <1> QED BY <1>1, <1>2 DEF IInv

LEMMA CoveredStays ==
    ASSUME TypeOK, Covered, due' \in Nat, due <= due', complete \subseteq complete'
    PROVE  Covered'
  <1>1. PICK d \in Lookback..due : (d - Lookback + 1)..d \subseteq complete
    BY DEF Covered
  <1>2. d \in Lookback..due'
    BY Config DEF TypeOK
  <1> QED BY <1>1, <1>2 DEF Covered

\* Steps of the scheduler other than its end leave the phase alone.
LEMMA PhaseKeeps ==
    ASSUME IInv, sched # "off", sched' \notin {"off", "ok", "idle"}, UNCHANGED supVars,
           due' \in Nat, due <= due', complete \subseteq complete'
    PROVE  PhaseEarned'
  <1>1. Up /\ Up'
    BY DEF IInv, PhaseEarned, Up, supVars
  <1>2. Covered => Covered'
    BY CoveredStays DEF IInv
  <1> QED BY <1>1, <1>2 DEF IInv, PhaseEarned, supVars

\* Markers and pointers that stay keep what they stand for.
LEMMA EarnedKeeps ==
    ASSUME IInv, UNCHANGED <<due, complete, pointer, l0_done, l1_done>>
    PROVE  /\ CompleteIsEarned'
           /\ \A c \in Chunk : NothingOlder(c) => NothingOlder(c)'
           /\ \A c \in Chunk, k \in Subchunk : Done(c, k) => Done(c, k)'
  BY DEF IInv, CompleteIsEarned, NothingOlder, Done, bootstrap_chunks

LEMMA PickChunkInv ==
    ASSUME IInv, PickChunk, UNCHANGED supVars
    PROVE  IInv'
  <1> USE DEF IInv, PickChunk, bucketVars, historyVars
  <1>1. CASE shutdown_requested \/ bootstrap_chunks \subseteq complete
    <2> USE <1>1
    <2>1. TypeOK'
      BY DEF TypeOK
    <2>2. Progress' /\ NoSuccessUnder'
      BY DEF Progress, NoSuccessUnder, InHand, L0Ready
    <2>3. Up /\ Up'
      BY DEF PhaseEarned, Up, supVars
    <2>4. bootstrap_chunks \subseteq complete => Covered
      <3>1. due \in Lookback..due
        BY Config DEF TypeOK
      <3> QED BY <3>1 DEF Covered, bootstrap_chunks
    <2>5. Covered <=> Covered'
      BY DEF Covered
    <2>6. PhaseEarned'
      BY <2>3, <2>4, <2>5 DEF PhaseEarned, supVars
    <2> QED BY <2>1, <2>2, <2>6, EarnedKeeps
  <1>2. CASE ~(shutdown_requested \/ bootstrap_chunks \subseteq complete)
    <2> USE <1>2
    <2>1. bootstrap_chunks \ complete \subseteq Nat /\ bootstrap_chunks \ complete # {}
      BY Config DEF bootstrap_chunks, TypeOK
    <2>2. /\ chunk' \in bootstrap_chunks \ complete
          /\ \A d \in bootstrap_chunks \ complete : chunk' <= d
      BY <2>1, MinIn DEF next_missing_bootstrap_chunk
    <2>3. chunk' \in Chunk /\ chunk' <= due /\ chunk' \in Nat
      BY <2>2, Config DEF bootstrap_chunks, Chunk, TypeOK
    <2>4. \A d \in bootstrap_chunks : d < chunk' => d \in complete
      BY <2>1, <2>2, <2>3, Config DEF bootstrap_chunks, TypeOK
    <2>5. TypeOK'
      BY <2>3 DEF TypeOK, InHand
    <2>6. Progress' /\ NoSuccessUnder'
      BY <2>3, <2>4 DEF Progress, NoSuccessUnder, NothingOlder, bootstrap_chunks, InHand, L0Ready
    <2>7. PhaseEarned'
      BY PhaseKeeps, Config DEF TypeOK
    <2> QED BY <2>5, <2>6, <2>7, EarnedKeeps
  <1> QED BY <1>1, <1>2

\* Steps that only move the scheduler, with the chunk in hand or out of it.
LEMMA ChunkStepInv ==
    ASSUME IInv, UNCHANGED supVars,
           BeginChunk \/ PollBackfill \/ NormalizeChildFails \/ SchedulerWakes
    PROVE  IInv'
  <1> USE DEF BeginChunk, PollBackfill, NormalizeChildFails, SchedulerWakes, bucketVars, historyVars
  <1>0. UNCHANGED <<due, chunk, l0_marker, complete, pointer, l0_done, l1_done>>
    OBVIOUS
  <1>1. TypeOK'
    BY DEF IInv, TypeOK, InHand
  <1>2. PhaseEarned'
    BY PhaseKeeps, Config DEF IInv, TypeOK
  <1>3. CompleteIsEarned' /\ \A c \in Chunk : NothingOlder(c) => NothingOlder(c)'
    BY <1>0, EarnedKeeps
  <1>4. Progress'
    <2>1. sched' \in InHand => chunk' \in Chunk /\ chunk' <= due' /\ NothingOlder(chunk)'
      BY <1>0 DEF IInv, Progress, InHand, NothingOlder, bootstrap_chunks
    <2>2. /\ \A c \in complete' : c <= due'
          /\ \A c \in l0_marker' : l0_done'[c] # "none"
          /\ sched' \in L0Ready => l0_done'[chunk'] # "none"
          /\ ~(sched' = "backfill" /\ child' = "ok")
          /\ ~(sched' = "normalize" /\ child' = "ok")
      BY <1>0 DEF IInv, Progress, L0Ready, InHand
    <2>3. /\ sched' \in {"subchunk", "normalize", "mark"} =>
                 \A k \in Subchunk : k < sub' => Done(chunk, k)'
          /\ sched' = "normalize" => sub' \in Subchunk /\ outcome' # "none"
          /\ sched' = "subchunk" => sub' >= 1
          /\ sched' # "mark"
      BY <1>0 DEF IInv, Progress, Done, Subchunk
    <2> QED BY <1>0, <2>1, <2>2, <2>3 DEF Progress, Done
  <1>5. NoSuccessUnder'
    BY <1>0 DEF NoSuccessUnder
  <1> QED BY <1>1, <1>2, <1>3, <1>4, <1>5 DEF IInv

LEMMA BackfillChildEndsInv ==
    ASSUME IInv, BackfillChildEnds, UNCHANGED supVars
    PROVE  IInv'
  <1> USE DEF IInv, BackfillChildEnds, bucketVars
  <1>0. /\ UNCHANGED <<due, sched, chunk, sub, outcome, l0_marker, complete, pointer, l1_done>>
        /\ chunk \in Chunk /\ sched = "backfill" /\ child' \in {"ok", "failed"}
        /\ l0_done' \in [Chunk -> {"none", "stored", "lossy"}]
        /\ \A c \in Chunk : l0_done[c] # "none" => l0_done'[c] # "none"
        /\ child' = "ok" => l0_done'[chunk] # "none"
    BY DEF TypeOK, Progress, InHand
  <1>1. TypeOK'
    BY <1>0 DEF TypeOK
  <1> HIDE DEF BackfillChildEnds
  <1>2. Progress' /\ NoSuccessUnder'
    BY <1>0 DEF TypeOK, Progress, NoSuccessUnder, NothingOlder, bootstrap_chunks, InHand, L0Ready
  <1>3. CompleteIsEarned'
    BY <1>0 DEF TypeOK, CompleteIsEarned, bootstrap_chunks
  <1>4. PhaseEarned'
    BY <1>0, PhaseKeeps, Config DEF TypeOK
  <1> QED BY <1>1, <1>2, <1>3, <1>4

LEMMA MarkL0Inv ==
    ASSUME IInv, MarkL0Success, UNCHANGED supVars
    PROVE  IInv'
  <1> USE DEF IInv, MarkL0Success, historyVars
  <1>1. TypeOK'
    BY DEF TypeOK, Progress, InHand
  <1>2. Progress' /\ NoSuccessUnder'
    BY DEF TypeOK, Progress, NoSuccessUnder, NothingOlder, bootstrap_chunks, InHand, L0Ready, Subchunk
  <1>3. PhaseEarned'
    BY PhaseKeeps, Config DEF TypeOK
  <1> QED BY <1>1, <1>2, <1>3, EarnedKeeps

LEMMA BeginSubchunkInv ==
    ASSUME IInv, BeginSubchunk, UNCHANGED supVars
    PROVE  IInv'
  <1> USE DEF BeginSubchunk, bucketVars, historyVars
  <1>0. /\ UNCHANGED <<due, chunk, l0_marker, complete, pointer, l0_done, l1_done>>
        /\ chunk \in Chunk /\ sched = "subchunk"
    BY DEF IInv, Progress, InHand
  <1>a. /\ sub \in Nat /\ sub >= 1
        /\ \/ sub > Subchunks /\ sched' = "mark" /\ UNCHANGED <<sub, child, outcome>>
           \/ sub <= Subchunks /\ has_l1_success /\ sub' = sub + 1 /\ UNCHANGED <<sched, child, outcome>>
           \/ /\ sub <= Subchunks /\ ~has_l1_success /\ sub' = sub /\ sched' = "normalize"
              /\ child' = "running" /\ outcome' \in Statuses \ {"none"}
    <2>1. sub \in Nat /\ sub >= 1
      BY <1>0 DEF IInv, TypeOK, Progress
    <2>2. sub > Subchunks \/ sub <= Subchunks
      BY <2>1, Config
    <2>3. Outcomes \subseteq Statuses \ {"none"}
      BY Config DEF Statuses
    <2> QED BY <2>1, <2>2, <2>3
  <1> HIDE DEF BeginSubchunk
  <1>1. TypeOK'
    BY <1>0, <1>a DEF IInv, TypeOK, InHand
  <1>2. PhaseEarned'
    BY <1>0, <1>a, PhaseKeeps, Config DEF IInv, TypeOK
  <1>3. Progress'
    <2>1. sched' \in InHand /\ chunk' \in Chunk /\ chunk' <= due' /\ NothingOlder(chunk)'
      BY <1>0, <1>a DEF IInv, Progress, InHand, NothingOlder, bootstrap_chunks
    <2>2. /\ \A c \in complete' : c <= due'
          /\ l0_done'[chunk'] # "none" /\ \A c \in l0_marker' : l0_done'[c] # "none"
      BY <1>0 DEF IInv, Progress, L0Ready
    <2>3. \A k \in Subchunk : k < sub' => Done(chunk, k)'
      <3>1. \A k \in Subchunk : k < sub => Done(chunk, k)
        BY <1>0 DEF IInv, Progress
      <3>2. \A k \in Subchunk : k < sub' => k < sub \/ (k = sub /\ has_l1_success)
        BY <1>a, Config DEF Subchunk
      <3> QED BY <1>0, <3>1, <3>2 DEF Done, has_l1_success
    <2>4. /\ sched' = "normalize" => /\ sub' \in Subchunk /\ outcome' # "none"
                                     /\ child' = "running"
          /\ sched' = "mark" => sub' > Subchunks
          /\ sched' = "subchunk" => sub' >= 1
          /\ sched' # "backfill"
      BY <1>0, <1>a, Config DEF Subchunk
    <2> QED BY <1>0, <2>1, <2>2, <2>3, <2>4 DEF Progress, NothingOlder, Done
  <1>4. NoSuccessUnder'
    BY <1>0, <1>a DEF NoSuccessUnder, has_l1_success
  <1> QED BY <1>0, <1>1, <1>2, <1>3, <1>4, EarnedKeeps DEF IInv

\* One more pointer leaves no subchunk worse off: a child that publishes
\* anything but success works on a subchunk without one.
LEMMA PublishesInv ==
    ASSUME IInv, NormalizeChildPublishes, UNCHANGED supVars
    PROVE  /\ IInv'
           /\ \A c \in Chunk, k \in Subchunk, s \in Slot :
                 pointer[<<c, k, 1>>] = "success" =>
                     pointer'[<<c, k, s>>] \in {pointer[<<c, k, s>>], "success"}
  <1> USE DEF IInv, NormalizeChildPublishes, historyVars
  <1>0. /\ UNCHANGED <<due, sched, chunk, sub, child, outcome, l0_marker, complete, l0_done, l1_done>>
        /\ sched = "normalize" /\ chunk \in Chunk /\ sub \in Subchunk /\ outcome \in Statuses
        /\ outcome # "success" => pointer[<<chunk, sub, 1>>] # "success"
    BY DEF TypeOK, Progress, InHand, NoSuccessUnder
  <1>1. PICK s \in Slot : pointer' = [pointer EXCEPT ![<<chunk, sub, s>>] = outcome]
    BY DEF Unpublished
  <1>2. /\ pointer' \in [Chunk \X Subchunk \X Slot -> Statuses]
        /\ \A c \in Chunk, k \in Subchunk, t \in Slot :
              \/ pointer'[<<c, k, t>>] = pointer[<<c, k, t>>]
              \/ c = chunk /\ k = sub /\ pointer'[<<c, k, t>>] = outcome
    BY <1>0, <1>1 DEF TypeOK
  <1> HIDE DEF NormalizeChildPublishes
  <1>3. TypeOK'
    BY <1>0, <1>2 DEF TypeOK
  <1>4. \A c \in Chunk, k \in Subchunk, t \in Slot :
           pointer[<<c, k, 1>>] = "success" => pointer'[<<c, k, t>>] \in {pointer[<<c, k, t>>], "success"}
    BY <1>0, <1>2
  <1>5. 1 \in Slot
    BY Config DEF Slot
  <1>6. \A c \in Chunk, k \in Subchunk : Done(c, k) => Done(c, k)'
    BY <1>0, <1>4, <1>5 DEF Done
  <1>7. Progress'
    BY <1>0, <1>6 DEF Progress, NothingOlder, bootstrap_chunks, InHand, L0Ready
  <1>8. NoSuccessUnder'
    <2>1. outcome # "success" => pointer'[<<chunk, sub, 1>>] # "success"
      BY <1>0, <1>2, <1>5
    <2> QED BY <1>0, <2>1 DEF NoSuccessUnder
  <1>9. CompleteIsEarned'
    <2>1. complete \subseteq Chunk
      BY DEF TypeOK
    <2> QED BY <1>0, <1>6, <2>1 DEF CompleteIsEarned, bootstrap_chunks, Done
  <1>10. PhaseEarned'
    BY <1>0, PhaseKeeps, Config DEF TypeOK
  <1> QED BY <1>3, <1>4, <1>7, <1>8, <1>9, <1>10

LEMMA NormalizeChildEndsInv ==
    ASSUME IInv, NormalizeChildEnds, UNCHANGED supVars
    PROVE  IInv'
  <1> USE DEF IInv, NormalizeChildEnds, bucketVars
  <1>0. /\ UNCHANGED <<due, sched, chunk, sub, outcome, l0_marker, complete, pointer, l0_done>>
        /\ sched = "normalize" /\ chunk \in Chunk /\ sub \in Subchunk /\ child' = "ok"
        /\ outcome \in Statuses /\ outcome # "none"
        /\ l1_done' = [l1_done EXCEPT ![<<chunk, sub>>] = outcome]
    BY DEF TypeOK, Progress, InHand
  <1>1. /\ l1_done' \in [Chunk \X Subchunk -> Statuses]
        /\ l1_done'[<<chunk, sub>>] # "none"
        /\ \A c \in Chunk, k \in Subchunk : l1_done[<<c, k>>] # "none" => l1_done'[<<c, k>>] # "none"
    BY <1>0 DEF TypeOK
  <1> HIDE DEF NormalizeChildEnds
  <1>2. TypeOK'
    BY <1>0, <1>1 DEF TypeOK
  <1>3. \A c \in Chunk, k \in Subchunk : Done(c, k) => Done(c, k)'
    BY <1>0, <1>1 DEF Done
  <1>4. Progress' /\ NoSuccessUnder'
    BY <1>0, <1>1, <1>3 DEF Progress, NoSuccessUnder, NothingOlder, bootstrap_chunks, InHand, L0Ready
  <1>5. CompleteIsEarned'
    <2>1. complete \subseteq Chunk
      BY DEF TypeOK
    <2> QED BY <1>0, <1>3, <2>1 DEF CompleteIsEarned, bootstrap_chunks, Done
  <1>6. PhaseEarned'
    BY <1>0, PhaseKeeps, Config DEF TypeOK
  <1> QED BY <1>2, <1>4, <1>5, <1>6

LEMMA PollNormalizeInv ==
    ASSUME IInv, PollNormalize, UNCHANGED supVars
    PROVE  IInv'
  <1> USE DEF PollNormalize, bucketVars, historyVars
  <1>0. /\ UNCHANGED <<due, chunk, l0_marker, complete, pointer, l0_done, l1_done>>
        /\ sched = "normalize" /\ chunk \in Chunk /\ sub \in Subchunk /\ sub \in Nat
        /\ child' = "none" /\ outcome' = "none"
        /\ \/ sched' = "subchunk" /\ sub' = sub + 1 /\ Done(chunk, sub)
           \/ sched' = "sleep" /\ sub' = sub
    BY DEF IInv, TypeOK, Progress, InHand, Done
  <1> HIDE DEF PollNormalize
  <1>1. TypeOK'
    BY <1>0 DEF IInv, TypeOK, InHand, Statuses
  <1>2. PhaseEarned'
    BY <1>0, PhaseKeeps, Config DEF IInv, TypeOK
  <1>3. Progress'
    <2>1. sched' = "subchunk" => \A k \in Subchunk : k < sub' => Done(chunk, k)
      <3>1. \A k \in Subchunk : k < sub => Done(chunk, k)
        BY <1>0 DEF IInv, Progress
      <3>2. \A k \in Subchunk : k < sub + 1 => k < sub \/ k = sub
        BY <1>0, Config DEF Subchunk
      <3> QED BY <1>0, <3>1, <3>2
    <2>2. \A k \in Subchunk : Done(chunk, k) => Done(chunk, k)'
      BY <1>0 DEF Done
    <2>3. sub' >= 1
      BY <1>0, Config DEF Subchunk
    <2> QED BY <1>0, <2>1, <2>2, <2>3 DEF IInv, Progress, NothingOlder, bootstrap_chunks, InHand, L0Ready
  <1>4. NoSuccessUnder'
    BY <1>0 DEF NoSuccessUnder
  <1> QED BY <1>0, <1>1, <1>2, <1>3, <1>4, EarnedKeeps DEF IInv

\* A marker is put, or a store call fails and leaves one behind or not.
LEMMA MarkersInv ==
    ASSUME IInv, UNCHANGED supVars, MarkComplete \/ StoreCallFails
    PROVE  IInv'
  <1> USE DEF MarkComplete, StoreCallFails, historyVars
  <1>0. /\ UNCHANGED <<due, chunk, sub, child, outcome, pointer, l0_done, l1_done>>
        /\ sched \in {"pick", "chunk", "mark_l0", "subchunk", "mark"} /\ sched' \in {"sleep", "err"}
        /\ \/ l0_marker' = l0_marker
           \/ sched = "mark_l0" /\ l0_marker' = l0_marker \cup {chunk}
        /\ complete' = complete \/ (sched = "mark" /\ complete' = complete \cup {chunk})
    OBVIOUS
  <1> HIDE DEF MarkComplete, StoreCallFails
  <1>1. TypeOK'
    BY <1>0 DEF IInv, TypeOK, Progress, InHand
  <1>2. Progress' /\ NoSuccessUnder'
    BY <1>0 DEF IInv, Progress, NoSuccessUnder, InHand, L0Ready
  <1>3. CompleteIsEarned'
    <2>1. CASE complete' = complete
      BY <1>0, <2>1, EarnedKeeps
    <2>2. CASE sched = "mark" /\ complete' = complete \cup {chunk}
      <3>1. /\ NothingOlder(chunk) /\ l0_done[chunk] # "none"
            /\ \A k \in Subchunk : Done(chunk, k)
        <4>1. sub \in Nat /\ sub > Subchunks
          BY <2>2 DEF IInv, TypeOK, Progress
        <4>2. \A k \in Subchunk : k < sub
          BY <4>1, Config DEF Subchunk
        <4> QED BY <2>2, <4>2 DEF IInv, Progress, InHand, L0Ready
      <3> QED BY <1>0, <2>2, <3>1 DEF IInv, CompleteIsEarned, NothingOlder, bootstrap_chunks, Done
    <2> QED BY <1>0, <2>1, <2>2
  <1>4. PhaseEarned'
    BY <1>0, PhaseKeeps, Config DEF IInv, TypeOK
  <1> QED BY <1>1, <1>2, <1>3, <1>4 DEF IInv

\* A new day moves the lookback upwards.
LEMMA NextDayInv ==
    ASSUME IInv, NextDay, UNCHANGED supVars
    PROVE  IInv'
  <1> USE DEF IInv, NextDay, bucketVars, historyVars
  <1>0. /\ due \in Nat /\ due' \in Lookback..MaxChunks /\ due' \in Nat /\ due <= due'
        /\ \A c \in Chunk : \A d \in bootstrap_chunks' : c <= due /\ d < c => d \in bootstrap_chunks
    BY Config DEF TypeOK, bootstrap_chunks, Chunk
  <1>1. TypeOK'
    BY <1>0 DEF TypeOK
  <1>2. Progress'
    <2>1. /\ sched' \in InHand => chunk' \in Chunk /\ chunk' <= due' /\ NothingOlder(chunk)'
      <3>1. sched \in InHand => chunk \in Chunk /\ chunk <= due /\ chunk \in Nat /\ NothingOlder(chunk)
        BY DEF Progress, TypeOK
      <3> QED BY <1>0, <3>1 DEF NothingOlder
    <2>2. \A c \in complete' : c <= due'
      <3>1. \A c \in complete : c \in Nat /\ c <= due
        BY Config DEF Progress, TypeOK, Chunk
      <3> QED BY <1>0, <3>1
    <2> QED BY <2>1, <2>2 DEF Progress, Done
  <1>3. NoSuccessUnder'
    BY DEF NoSuccessUnder
  <1>4. CompleteIsEarned'
    <2>1. \A c \in complete : c \in Chunk /\ c <= due
      BY DEF TypeOK, Progress
    <2> QED BY <1>0, <2>1 DEF CompleteIsEarned
  <1>5. PhaseEarned'
    <2>1. (Up <=> Up') /\ (Covered => Covered')
      BY <1>0, CoveredStays DEF Up, supVars
    <2> QED BY <2>1 DEF PhaseEarned, supVars
  <1> QED BY <1>1, <1>2, <1>3, <1>4, <1>5

\* Leaving the process forgets the chunk in hand and keeps the bucket.
LEMMA LeaveInv ==
    ASSUME IInv, NEW how \in Exited, Leave(how)
    PROVE  IInv'
  <1> USE DEF Leave, bucketVars, historyVars
  <1>1. TypeOK'
    BY DEF IInv, TypeOK, Statuses
  <1>2. Progress' /\ NoSuccessUnder'
    BY DEF IInv, Progress, NoSuccessUnder, InHand, L0Ready
  <1>3. ~Up'
    BY DEF Up, Exited
  <1>4. PhaseEarned'
    BY <1>3 DEF PhaseEarned
  <1>5. CompleteIsEarned'
    BY EarnedKeeps
  <1> QED BY <1>1, <1>2, <1>4, <1>5 DEF IInv

\* Steps around the scheduler leave its work alone.
LEMMA AroundKeeps ==
    ASSUME IInv, UNCHANGED <<due, chunk, sub, child, outcome, bucketVars, historyVars>>,
           sched' = sched \/ sched' \in {"pick", "idle", "ok"}
    PROVE  /\ TypeOK' /\ Progress' /\ NoSuccessUnder' /\ CompleteIsEarned'
           /\ Covered <=> Covered'
  <1> USE DEF bucketVars, historyVars
  <1>1. TypeOK'
    BY DEF IInv, TypeOK
  <1>2. Progress' /\ NoSuccessUnder'
    BY DEF IInv, Progress, NoSuccessUnder, NothingOlder, Done, bootstrap_chunks, InHand, L0Ready
  <1>3. Covered <=> Covered'
    BY DEF Covered
  <1>4. CompleteIsEarned'
    BY EarnedKeeps
  <1> QED BY <1>1, <1>2, <1>3, <1>4

LEMMA AroundInv ==
    ASSUME IInv,
           \/ SupervisorStarts \/ (\E v \in Venues : RealtimeExits(v)) \/ NormalizeExits \/ Sigterm
           \/ TaskReplaced \/ NormalizeRespawned \/ SchedulerRespawned \/ IdleSchedulerEnds
    PROVE  IInv'
  <1> USE DEF schedLocals, supVars, PhaseEarned, Up, Exited
  <1>0. PhaseEarned
    BY DEF IInv
  <1>1. CASE SupervisorStarts
    BY <1>0, <1>1, AroundKeeps DEF SupervisorStarts, IInv
  <1>2. CASE \E v \in Venues : RealtimeExits(v)
    BY <1>0, <1>2, AroundKeeps DEF RealtimeExits, IInv
  <1>3. CASE NormalizeExits
    BY <1>0, <1>3, AroundKeeps DEF NormalizeExits, IInv
  <1>4. CASE Sigterm
    BY <1>0, <1>4, AroundKeeps DEF Sigterm, IInv
  <1>5. CASE TaskReplaced
    BY <1>0, <1>5, AroundKeeps DEF TaskReplaced, IInv
  <1>6. CASE NormalizeRespawned
    BY <1>0, <1>6, AroundKeeps
       DEF NormalizeRespawned, spawn_normalize_for_phase, schedVars, bucketVars, historyVars, IInv
  <1>7. CASE SchedulerRespawned
    BY <1>0, <1>7, AroundKeeps DEF SchedulerRespawned, SpawnScheduler, IInv
  <1>8. CASE IdleSchedulerEnds
    BY <1>0, <1>8, AroundKeeps DEF IdleSchedulerEnds, IInv
  <1> QED BY <1>1, <1>2, <1>3, <1>4, <1>5, <1>6, <1>7, <1>8

LEMMA LoopInv ==
    ASSUME IInv, Loop \/ Killed
    PROVE  IInv'
  <1>0. {"exited_ok", "exited_err"} \subseteq Exited
    BY DEF Exited
  <1>1. CASE RealtimeArm \/ ShutdownArm \/ Killed
    BY <1>0, <1>1, LeaveInv DEF RealtimeArm, ShutdownArm, Killed
  <1>2. CASE NormalizeArm
    <2>1. CASE shutdown_requested
      BY <1>0, <1>2, <2>1, LeaveInv DEF NormalizeArm
    <2>2. CASE ~shutdown_requested
      BY <1>2, <2>2, AroundKeeps DEF NormalizeArm, schedLocals, IInv, PhaseEarned, Up, Exited
    <2> QED BY <2>1, <2>2
  <1>3. CASE SchedulerArm
    <2>1. CASE shutdown_requested
      BY <1>0, <1>3, <2>1, LeaveInv DEF SchedulerArm
    <2>2. CASE ~shutdown_requested
      BY <1>3, <2>2, AroundKeeps DEF SchedulerArm, schedLocals, IInv, PhaseEarned, Up, Exited
    <2> QED BY <2>1, <2>2
  <1> QED BY <1>1, <1>2, <1>3 DEF Loop

LEMMA NextInv ==
    ASSUME IInv, [SupNext]_allVars
    PROVE  IInv'
  <1>1. CASE Task
    BY <1>1, PickChunkInv, ChunkStepInv, MarkL0Inv, BeginSubchunkInv, PollNormalizeInv, MarkersInv
       DEF Task, SchedulerStep
  <1>2. CASE Child
    BY <1>2, BackfillChildEndsInv, PublishesInv, NormalizeChildEndsInv DEF Child, ChildStep
  <1>3. CASE (StoreCallFails \/ NormalizeChildFails \/ NextDay) /\ UNCHANGED supVars
    BY <1>3, MarkersInv, ChunkStepInv, NextDayInv
  <1>4. CASE Loop \/ Killed
    BY <1>4, LoopInv
  <1>5. CASE UNCHANGED allVars
    <2>1. UNCHANGED <<due, chunk, sub, child, outcome, bucketVars, historyVars, sched,
                      shutdown_requested, supVars>>
      BY <1>5 DEF allVars, schedVars, bucketVars, historyVars
    <2> QED BY <2>1, AroundKeeps DEF supVars, IInv, PhaseEarned, Up
  <1>6. CASE \/ SupervisorStarts \/ (\E v \in Venues : RealtimeExits(v)) \/ NormalizeExits \/ Sigterm
             \/ TaskReplaced \/ NormalizeRespawned \/ SchedulerRespawned \/ IdleSchedulerEnds
    BY <1>6, AroundInv
  <1> QED BY <1>1, <1>2, <1>3, <1>4, <1>5, <1>6 DEF SupNext

\* The markers, the chunk in hand and the phase of the process keep what they
\* stand for over every failure, kill, restart and new day.
THEOREM SupervisorInvariance == SupSpec => []IInv
  BY InitInv, NextInv, PTL DEF SupSpec

\* complete.json is put only for chunks whose L0 and L1 work was done, oldest
\* first (run_backfill_chunk, next_missing_bootstrap_chunk).
THEOREM CompleteStandsForWork == SupSpec => []CompleteIsEarned
  <1>1. IInv => CompleteIsEarned
    BY DEF IInv
  <1> QED BY <1>1, SupervisorInvariance, PTL

\* The full worker runs only after a whole lookback was complete, whichever arm
\* of the select loop sees the end of the scheduler (run_supervisor).
THEOREM FullWorkerIsEarned == SupSpec => []FullOnlyAfterBootstrap
  <1>1. IInv => FullOnlyAfterBootstrap
    BY DEF IInv, PhaseEarned, Covered, FullOnlyAfterBootstrap
  <1> QED BY <1>1, SupervisorInvariance, PTL

\* No retry of a chunk publishes another status over the pointers of a subchunk
\* whose first pointer says success (has_l1_success).
THEOREM SuccessIsNeverOverwritten == SupSpec => SuccessIsFinal
  <1> DEFINE Final == \A c \in Chunk, k \in Subchunk, s \in Slot :
                         pointer[<<c, k, 1>>] = "success" =>
                             pointer'[<<c, k, s>>] \in {pointer[<<c, k, s>>], "success"}
  <1>1. ASSUME IInv, [SupNext]_allVars PROVE Final
    <2>1. CASE NormalizeChildPublishes /\ UNCHANGED supVars
      BY <1>1, <2>1, PublishesInv
    <2>2. CASE pointer' = pointer
      BY <2>2
    <2>3. (NormalizeChildPublishes /\ UNCHANGED supVars) \/ pointer' = pointer
      BY <1>1
         DEF SupNext, allVars, schedVars, bucketVars, historyVars, Task, SchedulerStep, Child, ChildStep,
             Loop, PickChunk, BeginChunk, PollBackfill, MarkL0Success, BeginSubchunk, PollNormalize,
             MarkComplete, SchedulerWakes, BackfillChildEnds, NormalizeChildEnds, StoreCallFails,
             NormalizeChildFails, NextDay, Leave, RealtimeArm, NormalizeArm, SchedulerArm, ShutdownArm,
             SupervisorStarts, RealtimeExits, NormalizeExits, Sigterm, Killed, TaskReplaced,
             NormalizeRespawned, SchedulerRespawned, SpawnScheduler, IdleSchedulerEnds
    <2> QED BY <2>1, <2>2, <2>3
  <1> HIDE DEF Final
  <1>2. IInv /\ [SupNext]_allVars => [Final]_schedVars
    BY <1>1
  <1>3. SupSpec => [][Final]_schedVars
    BY <1>2, SupervisorInvariance, PTL DEF SupSpec
  <1> QED BY <1>3 DEF SuccessIsFinal, Final
=============================================================================

------------------------------ MODULE L1Index ------------------------------
(***************************************************************************)
(* What the L1 bucket promises its readers, with the uploads, conditional  *)
(* puts, retries and crashes of module L1Publish left out: a run is        *)
(* released once, with all of its slots at the same time; a pointer only   *)
(* ever names a released run that covers its slot; and a read, however     *)
(* many requests it takes, is a read of the run the pointer named when it  *)
(* was looked up.                                                          *)
(***************************************************************************)
EXTENDS Naturals

CONSTANTS Slots, Run, NoRun

VARIABLES
    catalog,    \* run -> the slots it covers once it is released, {} before
    index,      \* slot -> the run its pointer names, or NoRun
    held        \* the run a reader is reading, or NoRun

indexVars == <<catalog, index, held>>

Init ==
    /\ catalog = [r \in Run |-> {}]
    /\ index = [s \in Slots |-> NoRun]
    /\ held = NoRun

Release(r, range) ==
    /\ catalog[r] = {}
    /\ catalog' = [catalog EXCEPT ![r] = range]
    /\ UNCHANGED <<index, held>>

Point(s, r) ==
    /\ s \in catalog[r]
    /\ index' = [index EXCEPT ![s] = r]
    /\ UNCHANGED <<catalog, held>>

LookUp(s) ==
    /\ held = NoRun /\ index[s] # NoRun
    /\ held' = index[s]
    /\ UNCHANGED <<catalog, index>>

ReadDone ==
    /\ held # NoRun
    /\ held' = NoRun
    /\ UNCHANGED <<catalog, index>>

Next ==
    \/ \E r \in Run, range \in SUBSET Slots : Release(r, range)
    \/ \E s \in Slots, r \in Run : Point(s, r)
    \/ \E s \in Slots : LookUp(s)
    \/ ReadDone

Spec == Init /\ [][Next]_indexVars
============================================================================

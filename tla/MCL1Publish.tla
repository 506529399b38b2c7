---------------------------- MODULE MCL1Publish ----------------------------
(* L1Publish with its publishers interchangeable, for TLC. *)
EXTENDS L1Publish, TLC

PublisherSymmetry == Permutations(Publisher)
============================================================================

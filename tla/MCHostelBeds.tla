---------------------------- MODULE MCHostelBeds ----------------------------
(* Instances of HostelBeds for TLC.                                         *)
EXTENDS HostelBeds, TLC

Keys == Permutations(Beds) \cup Permutations(Students) \cup Permutations(Sessions)
          \cup Permutations(Allocations) \cup Permutations(Transfers)
          \cup Permutations(Records)
=============================================================================

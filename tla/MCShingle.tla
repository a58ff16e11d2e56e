----------------------------- MODULE MCShingle -------------------------------
(* Instances of Shingle: two threads and every mix of missing, unmappable, *)
(* sparse and dense files.                                                 *)
EXTENDS Shingle, TLC
=============================================================================

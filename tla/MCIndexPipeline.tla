-------------------------- MODULE MCIndexPipeline ----------------------------
(* Instances of IndexPipeline: two compress threads, the write thread and  *)
(* a handful of n-grams, with the throttle thresholds scaled down so that  *)
(* it closes and opens again.                                              *)
EXTENDS IndexPipeline, TLC
=============================================================================

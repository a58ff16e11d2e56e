----------------------------- MODULE MCIndexFile -----------------------------
(* Instances of IndexFile for TLC *)
EXTENDS IndexFile, TLC
=============================================================================

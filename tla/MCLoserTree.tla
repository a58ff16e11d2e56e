----------------------------- MODULE MCLoserTree -----------------------------
(* Instances of LoserTree for TLC *)
EXTENDS LoserTree, TLC
=============================================================================

----------------------------- MODULE IndexBuild ------------------------------
(***************************************************************************)
(* What the compress-and-write stage of bgindex promises, with no threads, *)
(* queues or counters: the n-grams the merge produces reach the index file *)
(* one after the other, in merge order, and the file is then declared      *)
(* complete. A lossless build declares that only when the last n-gram is   *)
(* in the file, and it always ends; the other one may cut the tail off.    *)
(***************************************************************************)
EXTENDS Naturals, Sequences

CONSTANT NumNgrams      \* how many unique n-grams the merge produces, a natural number

VARIABLES lossless,     \* the build may leave nothing out, fixed
          index,        \* the orders of the n-grams in the file
          status        \* "building", "complete" or "failed"

vars == <<lossless, index, status>>

Init == lossless \in BOOLEAN /\ index = <<>> /\ status = "building"

(* one more n-gram is in the file *)
Extend ==
    /\ status = "building"
    /\ Len(index) < NumNgrams
    /\ index' = Append(index, Len(index))
    /\ UNCHANGED <<lossless, status>>

(* the header is rewritten *)
Complete ==
    /\ status = "building"
    /\ lossless => Len(index) = NumNgrams
    /\ status' = "complete"
    /\ UNCHANGED <<lossless, index>>

(* the output file could not be opened: nothing is ever written *)
Fail ==
    /\ status = "building"
    /\ index = <<>>
    /\ status' = "failed"
    /\ UNCHANGED <<lossless, index>>

Next == Extend \/ Complete \/ Fail

Spec == Init /\ [][Next]_vars
FairSpec == Spec /\ WF_vars(lossless /\ Next)
=============================================================================

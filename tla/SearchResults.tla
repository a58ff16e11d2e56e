---------------------------- MODULE SearchResults ----------------------------
(***************************************************************************)
(* What a search promises to who called it, with no engines, queues or     *)
(* counters: the files it found are handed over one after the other, none  *)
(* twice, and only those that passed what was asked for -- the filter and, *)
(* with -v or -y, the verification, unless there are more candidates than  *)
(* -l allows to verify.  Its value says why it ended.                      *)
(*                                                                         *)
(* It does not promise that value 0 means that all were handed over: see   *)
(* EveryHitIsReported of BgSearch.                                         *)
(***************************************************************************)
EXTENDS Naturals, Sequences, FiniteSets

VARIABLES asked,       \* verify and limit (-v or -y, -l), fixed
          fate,        \* what is to become of each candidate, fixed
          reported,    \* the candidates handed over
          state,       \* "searching", "returned" or "interrupted"
          value        \* what search returned

vars == <<asked, fate, reported, state, value>>

Init ==
    /\ asked.verify \in BOOLEAN /\ asked.limit \in Nat
    /\ reported = <<>> /\ state = "searching" /\ value = 0

(* those that pass the filter, and whether they are more than the limit *)
Passing == {c \in DOMAIN fate : fate[c] \in {"hit", "miss"}}
Exceeded == asked.verify /\ asked.limit > 0 /\ Cardinality(Passing) > asked.limit

Reportable == {c \in Passing : fate[c] = "hit" \/ ~asked.verify \/ Exceeded}

Report ==
    /\ state = "searching"
    /\ \E c \in Reportable \ {reported[n] : n \in DOMAIN reported} :
          reported' = Append(reported, c)
    /\ UNCHANGED <<asked, fate, state, value>>

Return ==
    /\ state = "searching" /\ state' = "returned"
    /\ \/ value' = 0
       \/ value' = 1 /\ \E c \in DOMAIN fate : fate[c] = "malformed"
       \/ value' = 2 /\ Exceeded
    /\ UNCHANGED <<asked, fate, reported>>

Interrupt ==
    /\ state = "searching" /\ state' = "interrupted"
    /\ UNCHANGED <<asked, fate, reported, value>>

Next == Report \/ Return \/ Interrupt

Spec == Init /\ [][Next]_vars
=============================================================================

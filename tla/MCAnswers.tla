------------------------------ MODULE MCAnswers ------------------------------
(* Instances of Answers for TLC *)
EXTENDS Answers, TLC

Ids(first, deltas) ==
    LET sum[i \in Nat] == IF i = 0 THEN first ELSE sum[i - 1] + deltas[i]
    IN  [i \in 1 .. Len(deltas) + 1 |-> sum[i - 1]]

(* len deltas, all common but those at a few places *)
Mixed(len, common, odd, places) == [i \in 1 .. len |-> IF i \in places THEN odd ELSE common]

Few(len) == UNION {kSubset(k, 1 .. len) : k \in 0 .. IF len < 2 THEN len ELSE 2}

Small == {[blocksize |-> 8, maxexceptions |-> 1, threshold |-> 4],
          [blocksize |-> 8, maxexceptions |-> 2, threshold |-> 9]}

(* one block or two, full or not; exceptions as many as allowed, and one more *)
Usual == {[ids |-> Ids(first, Mixed(len, common, odd, places)), pfor |-> pfor] :
             first \in {0, 200}, len \in {0, 3, 4, 8, 9, 16}, common \in {1, 2, 100},
             odd \in {1, 128, 32768}, pfor \in Small, places \in Few(16)}

(* as many exceptions as the header can count; the widest values in the       *)
(* longest block whose offsets fit                                            *)
Extreme == {[ids |-> Ids(0, Mixed(16, 40000, 1, {1})),
             pfor |-> [blocksize |-> 16, maxexceptions |-> 15, threshold |-> 4]],
            [ids |-> Ids(0, Mixed(136, 20000, 32767, {1, 7, 136})),
             pfor |-> [blocksize |-> 136, maxexceptions |-> 2, threshold |-> 4]]}

SomeLists == Usual \cup Extreme

(* the largest byte whose words TLC's integers hold *)
Bytes == {0, 127}
SomeTexts == UNION {[1 .. k -> Bytes] : k \in 0 .. 6}
One == UNION {[1 .. k -> Bytes] : k \in 1 .. 4}
SomeStrings == {<<s>> : s \in One} \cup {<<s, t>> : s, t \in {u \in One : Len(u) = 3}}
=============================================================================

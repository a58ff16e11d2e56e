--------------------------- MODULE FileIdMapProofs ---------------------------
(***************************************************************************)
(* Proofs about FileIdMap: for any number of files, names, metadata and    *)
(* replacements, whatever sequence of tools rewrites the names in place,   *)
(* what the readers find is what was asked for.                            *)
(*                                                                         *)
(* The text is read line by line, so most of the lemmas say what splitting *)
(* and joining do to lines; the inductive invariant IInv then says of      *)
(* every write that what is before the position and what is still to be    *)
(* written are the new map, and that what is behind it is the old one.     *)
(***************************************************************************)
EXTENDS FileIdMap, CommonProofs

-----------------------------------------------------------------------------
(* Sequences, and numbers up to a bound *)

(* Induction from each number to the one after it, as far as n *)
LEMMA InductionTo ==
    ASSUME NEW n \in Nat, NEW T, 0 \in T, \A i \in 1 .. n : i - 1 \in T => i \in T
    PROVE  \A i \in 0 .. n : i \in T
<1>. DEFINE U == {i \in Nat : i <= n => i \in T}
<1>1. 0 \in U  OBVIOUS
<1>2. \A i \in Nat : i \in U => i + 1 \in U
  <2>1. SUFFICES ASSUME NEW i \in Nat, i \in U, i + 1 <= n PROVE i + 1 \in T
    OBVIOUS
  <2>2. i + 1 \in 1 .. n /\ i + 1 - 1 = i /\ i \in T  BY <2>1
  <2>. QED  BY <2>2
<1>. HIDE DEF U
<1>3. Nat \subseteq U  BY <1>1, <1>2, Induction
<1>. QED  BY <1>3 DEF U

(* A function on 1 .. k is a sequence of that length. *)
LEMMA MakesSeq ==
    ASSUME NEW X, NEW k \in Nat, NEW t \in [1 .. k -> X]
    PROVE  t \in Seq(X) /\ Len(t) = k
  OBVIOUS

(* Sequences of the same length with the same elements are equal. *)
LEMMA SameSeq ==
    ASSUME NEW X, NEW s \in Seq(X), NEW t \in Seq(X), Len(s) = Len(t),
           \A i \in 1 .. Len(s) : s[i] = t[i]
    PROVE  s = t
  OBVIOUS

(* The parts of a text that was put together of parts *)
LEMMA FlattenPrefix ==
    ASSUME NEW X, NEW s \in Seq(Seq(X)), NEW c, UpTo(c, s, X), NEW m \in 0 .. Len(s)
    PROVE  FlattenSeq(SubSeq(s, 1, m)) = c[m]
<1>. DEFINE t == SubSeq(s, 1, m)
<1>1. t \in Seq(Seq(X)) /\ Len(t) = m /\ \A i \in 1 .. m : t[i] = s[i]
  OBVIOUS
<1>. HIDE DEF t
<1>2. PICK d : UpTo(d, t, X) /\ FlattenSeq(t) = d[Len(t)]  BY <1>1, FlattenIs
<1>. DEFINE T == {i \in Nat : d[i] = c[i]}
<1>3. 0 \in T  BY <1>2 DEF UpTo
<1>4. ASSUME NEW i \in 1 .. m, i - 1 \in T PROVE i \in T
  <2>1. i \in 1 .. Len(s) /\ i \in 1 .. Len(t) /\ i \in Nat  BY <1>1
  <2>2. d[i] = d[i - 1] \o t[i]  BY <1>2, <2>1 DEF UpTo
  <2>3. c[i] = c[i - 1] \o s[i]  BY <2>1 DEF UpTo
  <2>4. t[i] = s[i]  BY <1>1
  <2>5. d[i - 1] = c[i - 1]  BY <1>4
  <2>6. d[i] = c[i]  BY <2>2, <2>3, <2>4, <2>5
  <2>. QED  BY <2>1, <2>6
<1>. HIDE DEF T
<1>5. m \in Nat  OBVIOUS
<1>6. \A i \in 0 .. m : i \in T  BY <1>3, <1>4, <1>5, InductionTo
<1>7. m \in T  BY <1>5, <1>6
<1>. QED  BY <1>1, <1>2, <1>7 DEF T, t

(* The first part, and what the others make *)
LEMMA FlattenHead ==
    ASSUME NEW X, NEW s \in Seq(Seq(X)), s # <<>>
    PROVE  FlattenSeq(s) = Head(s) \o FlattenSeq(Tail(s))
<1>. DEFINE t == Tail(s)
            n == Len(t)
<1>1. t \in Seq(Seq(X)) /\ n \in Nat /\ Len(s) = n + 1 /\ Head(s) = s[1] /\ s[1] \in Seq(X)
      /\ \A i \in 1 .. n : t[i] = s[i + 1] /\ t[i] \in Seq(X)
  OBVIOUS
<1>. HIDE DEF t, n
<1>2. PICK d : UpTo(d, t, X) /\ FlattenSeq(t) = d[n]  BY <1>1, FlattenIs DEF n
<1>3. PICK c : UpTo(c, s, X) /\ FlattenSeq(s) = c[n + 1]  BY <1>1, FlattenIs
<1>. DEFINE T == {i \in Nat : c[i + 1] = s[1] \o d[i]}
<1>4. 0 \in T
  <2>1. 1 \in 1 .. Len(s) /\ 1 - 1 = 0 /\ 0 + 1 = 1  BY <1>1
  <2>2. c[1] = c[0] \o s[1]  BY <1>3, <2>1 DEF UpTo
  <2>3. c[0] = <<>> /\ d[0] = <<>>  BY <1>2, <1>3 DEF UpTo
  <2>4. <<>> \o s[1] = s[1] /\ s[1] \o <<>> = s[1]  BY <1>1
  <2>. QED  BY <2>1, <2>2, <2>3, <2>4
<1>5. ASSUME NEW i \in 1 .. n, i - 1 \in T PROVE i \in T
  <2>1. PICK k : k = i + 1  OBVIOUS
  <2>2. /\ k \in 1 .. Len(s) /\ i \in 1 .. Len(t) /\ i \in Nat
        /\ k - 1 = i /\ i - 1 + 1 = i /\ i - 1 \in 0 .. Len(t)
    BY <1>1, <2>1 DEF n
  <2>3. PICK p \in Seq(X) : p = d[i - 1]  BY <1>2, <2>2 DEF UpTo
  <2>4. PICK q \in Seq(X) : q = t[i] /\ q = s[k]  BY <1>1, <2>1
  <2>5. c[i] = s[1] \o p
    <3>1. c[i - 1 + 1] = s[1] \o d[i - 1]  BY <1>5
    <3>. QED  BY <2>2, <2>3, <3>1
  <2>6. d[i] = p \o q
    <3>1. d[i] = d[i - 1] \o t[i]  BY <1>2, <2>2 DEF UpTo
    <3>. QED  BY <2>3, <2>4, <3>1
  <2>7. c[k] = c[i] \o q
    <3>1. c[k] = c[k - 1] \o s[k]  BY <1>3, <2>2 DEF UpTo
    <3>. QED  BY <2>2, <2>4, <3>1
  <2>8. (s[1] \o p) \o q = s[1] \o (p \o q)
    <3>1. PICK h \in Seq(X) : h = s[1]  BY <1>1
    <3>2. (h \o p) \o q = h \o (p \o q)  OBVIOUS
    <3>. QED  BY <3>1, <3>2
  <2>9. c[i + 1] = s[1] \o d[i]  BY <2>1, <2>5, <2>6, <2>7, <2>8
  <2>. QED  BY <2>2, <2>9
<1>. HIDE DEF T
<1>6. n \in T
  <2>1. n \in Nat  BY <1>1
  <2>2. \A i \in 0 .. n : i \in T  BY <1>4, <1>5, <2>1, InductionTo
  <2>. QED  BY <2>1, <2>2
<1>7. FlattenSeq(s) = s[1] \o d[n]  BY <1>1, <1>3, <1>6 DEF T
<1>. QED  BY <1>1, <1>2, <1>7 DEF t

(* How long it is up to a part, and in which part a place of it is *)
LEMMA LengthUpTo ==
    ASSUME NEW X, NEW s \in Seq(Seq(X)), NEW c, UpTo(c, s, X)
    PROVE  /\ \A i \in 0 .. Len(s) : c[i] \in Seq(X) /\ Len(c[i]) \in Nat
           /\ Len(c[0]) = 0
           /\ \A i \in 1 .. Len(s) : Len(c[i]) = Len(c[i - 1]) + Len(s[i])
<1>1. \A i \in 0 .. Len(s) : c[i] \in Seq(X)  BY DEF UpTo
<1>2. \A i \in 0 .. Len(s) : Len(c[i]) \in Nat  BY <1>1
<1>3. c[0] = <<>>  BY DEF UpTo
<1>4. Len(c[0]) = 0  BY <1>3
<1>5. \A i \in 1 .. Len(s) : Len(c[i]) = Len(c[i - 1]) + Len(s[i])  BY PartsLie
<1>. QED  BY <1>1, <1>2, <1>4, <1>5

(* What grows from each number to the next is largest at the last. *)
LEMMA LengthsGrow ==
    ASSUME NEW n \in Nat, NEW at \in [0 .. n -> Nat], \A i \in 1 .. n : at[i - 1] <= at[i],
           NEW k \in 0 .. n
    PROVE  \A i \in 0 .. k : at[i] <= at[k]
<1>. DEFINE T == {d \in Nat : d <= k => at[k - d] <= at[k]}
<1>1. 0 \in T  OBVIOUS
<1>2. \A d \in Nat : d \in T => d + 1 \in T
  <2>1. SUFFICES ASSUME NEW d \in Nat, d \in T, d + 1 <= k PROVE at[k - (d + 1)] <= at[k]
    OBVIOUS
  <2>2. k - d \in 1 .. n /\ k - d - 1 = k - (d + 1) /\ k - d \in 0 .. n /\ k - (d + 1) \in 0 .. n
    BY <2>1
  <2>3. at[k - (d + 1)] <= at[k - d] /\ at[k - d] <= at[k]  BY <2>1, <2>2
  <2>. QED  BY <2>2, <2>3
<1>. HIDE DEF T
<1>3. Nat \subseteq T  BY <1>1, <1>2, Induction
<1>4. ASSUME NEW i \in 0 .. k PROVE at[i] <= at[k]
  <2>1. k - i \in Nat /\ k - i <= k /\ k - (k - i) = i  OBVIOUS
  <2>2. k - i \in T  BY <1>3, <2>1
  <2>. QED  BY <2>1, <2>2 DEF T
<1>. QED  BY <1>4

(* at[i - 1] < p <= at[i] for one i *)
LEMMA InWhich ==
    ASSUME NEW n \in Nat, NEW at \in [0 .. n -> Nat], at[0] = 0, NEW p \in 1 .. at[n]
    PROVE  \E i \in 1 .. n : at[i - 1] < p /\ p <= at[i]
<1>. DEFINE S == {i \in 0 .. n : p <= at[i]}
<1>1. S \in SUBSET Nat /\ n \in S  OBVIOUS
<1>2. PICK i \in S : \A k \in S : i <= k  BY <1>1, LeastElement
<1>3. i # 0 /\ i - 1 \in 0 .. n /\ i \in 1 .. n
  <2>1. ~(p <= at[0])  OBVIOUS
  <2>2. i # 0  BY <1>2, <2>1
  <2>. QED  BY <1>2, <2>2
<1>4. i - 1 \notin S  BY <1>2, <1>3
<1>5. at[i - 1] < p /\ p <= at[i]  BY <1>2, <1>3, <1>4
<1>. QED  BY <1>3, <1>5

(* A sequence is what is before a place, and what is from it on. *)
LEMMA SplitsAt ==
    ASSUME NEW X, NEW s \in Seq(X), NEW i \in 1 .. Len(s)
    PROVE  SubSeq(s, 1, i - 1) \o SubSeq(s, i, Len(s)) = s
<1>. DEFINE p == SubSeq(s, 1, i - 1)
            q == SubSeq(s, i, Len(s))
            r == p \o q
<1>1. Len(s) \in Nat /\ s \in [1 .. Len(s) -> X]  OBVIOUS
<1>2. p \in Seq(X) /\ Len(p) = i - 1 /\ \A j \in 1 .. i - 1 : p[j] = s[j]  OBVIOUS
<1>3. q \in Seq(X) /\ Len(q) = Len(s) - i + 1 /\ \A j \in 1 .. Len(s) - i + 1 : q[j] = s[j + i - 1]
  OBVIOUS
<1>. HIDE DEF p, q
<1>11. p \in Seq(X) /\ q \in Seq(X)  BY <1>2, <1>3
<1>4. r \in Seq(X) /\ Len(r) = Len(p) + Len(q)  BY <1>11
<1>5. \A j \in 1 .. Len(p) : r[j] = p[j]  BY <1>11
<1>6. \A j \in 1 .. Len(r) : j > Len(p) => r[j] = q[j - Len(p)]  BY <1>11
<1>. HIDE DEF r
<1>7. Len(r) = Len(s)  BY <1>1, <1>2, <1>3, <1>4
<1>8. ASSUME NEW j \in 1 .. Len(s) PROVE r[j] = s[j]
  <2>1. CASE j <= i - 1  BY <1>1, <1>2, <1>5, <2>1
  <2>2. CASE j > i - 1
    <3>1. PICK k \in Nat : k = j - (i - 1)  BY <1>1, <2>2
    <3>2. k \in 1 .. Len(s) - i + 1 /\ k + i - 1 = j  BY <1>1, <2>2, <3>1
    <3>3. r[j] = q[k]  BY <1>1, <1>2, <1>6, <1>7, <2>2, <3>1
    <3>4. q[k] = s[k + i - 1]  BY <1>3, <3>2
    <3>. QED  BY <3>2, <3>3, <3>4
  <2>. QED  BY <1>1, <2>1, <2>2
<1>9. r \in [1 .. Len(s) -> X]  BY <1>4, <1>7
<1>10. r = s  BY <1>1, <1>8, <1>9
<1>. QED  BY <1>10 DEF r, p, q

(* Append to a sequence of one *)
LEMMA OneMore == ASSUME NEW a, NEW b PROVE Append(<<a>>, b) = <<a, b>>
<1>. DEFINE X == {a, b}
            t == Append(<<a>>, b)
            u == <<a, b>>
<1>1. <<a>> \in Seq(X) /\ Len(<<a>>) = 1  OBVIOUS
<1>2. t \in Seq(X) /\ Len(t) = 2  OBVIOUS
<1>3. t[1] = a /\ t[2] = b OBVIOUS
<1>4. u \in Seq(X) /\ Len(u) = 2 /\ u[1] = a /\ u[2] = b  OBVIOUS
<1>. HIDE DEF t, u, X
<1>5. t \in [1 .. 2 -> X] /\ u \in [1 .. 2 -> X]  BY <1>2, <1>4
<1>6. \A i \in 1 .. 2 : t[i] = u[i]  BY <1>3, <1>4
<1>7. t = u  BY <1>5, <1>6
<1>. QED  BY <1>7 DEF t, u

(* The first element alone *)
LEMMA FirstOnly == ASSUME NEW X, NEW s \in Seq(X), Len(s) >= 1 PROVE SubSeq(s, 1, 1) = <<s[1]>>
<1>. DEFINE t == SubSeq(s, 1, 1)
            u == <<s[1]>>
<1>1. t \in Seq(X) /\ Len(t) = 1 /\ t[1] = s[1]  OBVIOUS
<1>2. u \in Seq(X) /\ Len(u) = 1 /\ u[1] = s[1]  OBVIOUS
<1>. HIDE DEF t, u
<1>5. t \in [1 .. 1 -> X] /\ u \in [1 .. 1 -> X]  BY <1>1, <1>2
<1>6. \A i \in 1 .. 1 : t[i] = u[i]  BY <1>1, <1>2
<1>7. t = u  BY <1>5, <1>6
<1>. QED  BY <1>7 DEF t, u

(* Before and After find the first c *)
LEMMA CutAtFirst ==
    ASSUME NEW X, NEW s \in Seq(X), NEW c, NEW i \in 1 .. Len(s), s[i] = c,
           \A j \in 1 .. i - 1 : s[j] # c
    PROVE  Before(s, c) = SubSeq(s, 1, i - 1) /\ After(s, c) = SubSeq(s, i + 1, Len(s))
<1>. DEFINE I == {j \in 1 .. Len(s) : s[j] = c}
            m == CHOOSE x \in I : \A y \in I : x =< y
<1>1. I \in SUBSET Nat /\ i \in I /\ I # {}  OBVIOUS
<1>2. SelectInSeq(s, LAMBDA x : x = c) = m  BY <1>1 DEF SelectInSeq, Min
<1>3. m \in I /\ \A y \in I : m <= y
  <2>. HIDE DEF I
  <2>. QED  BY <1>1, MinIsLeast
<1>4. m = i  BY <1>1, <1>3
<1>. HIDE DEF m
<1>5. SelectInSeq(s, LAMBDA x : x = c) = i /\ i # 0  BY <1>2, <1>4
<1>. QED  BY <1>5 DEF Before, After

(* Without a c, Before and After leave the text as it is. *)
LEMMA NothingToCut ==
    ASSUME NEW X, NEW s \in Seq(X), NEW c, \A j \in 1 .. Len(s) : s[j] # c
    PROVE  Before(s, c) = s /\ After(s, c) = s
<1>1. {j \in 1 .. Len(s) : s[j] = c} = {}  OBVIOUS
<1>2. SelectInSeq(s, LAMBDA x : x = c) = 0  BY <1>1 DEF SelectInSeq
<1>. QED  BY <1>2 DEF Before, After

-----------------------------------------------------------------------------
(* Entries and their lines *)

(* What a line is made of, and the entries that a line can be read as *)
LineText == Characters \ {NL}
Texts == Seq(LineText)
WellFormed ==
    {e \in [file : Texts, meta : Texts] :
        (\A j \in 1 .. Len(e.file) : e.file[j] # Comma) /\ (e.meta # <<>> => e.meta[1] = Comma)}

(* Names, metadata and the strings of -r hold no newline; a name holds     *)
(* neither a comma nor a NUL.                                              *)
LEMMA LettersLie ==
    /\ \A s \in Paths \cup Metas \cup Replacements : s \in Texts
    /\ \A s \in Paths : \A j \in 1 .. Len(s) : s[j] # Comma /\ s[j] # NUL
<1>1. Letters \subseteq LineText
  <2>1. Letters \subseteq Characters  BY DEF Characters
  <2>. QED  BY <2>1, NamesAssumption DEF LineText
<1>2. ASSUME NEW s \in Paths \cup Metas \cup Replacements PROVE s \in Texts
  <2>1. s \in Seq(Letters)  BY NamesAssumption
  <2>. HIDE DEF Letters
  <2>. QED  BY <1>1, <2>1 DEF Texts
<1>3. ASSUME NEW s \in Paths, NEW j \in 1 .. Len(s) PROVE s[j] # Comma /\ s[j] # NUL
  <2>1. s \in Texts  BY <1>2
  <2>2. j \in DOMAIN s  BY <2>1 DEF Texts
  <2>3. s[j] \in Range(s)  BY <2>2 DEF Range
  <2>4. s \in Seq(Letters) /\ NUL \notin Letters  BY NamesAssumption
  <2>5. s[j] \in Letters
    <3>. HIDE DEF Letters
    <3>. QED  BY <2>2, <2>4
  <2>. QED  BY <2>3, <2>4, <2>5, NamesAssumption
<1>. QED  BY <1>2, <1>3

(* Whatever text bgsearch reads as a name and its metadata, it has both. *)
LEMMA CandidateIs ==
    ASSUME NEW s \in Texts
    PROVE  Candidate(s) \in WellFormed /\ Text(Candidate(s)) = s
<1>1. CASE \A j \in 1 .. Len(s) : s[j] # Comma
  <2>1. Before(s, Comma) = s  BY <1>1, NothingToCut DEF Texts
  <2>2. SubSeq(s, Len(s) + 1, Len(s)) = <<>>  BY DEF Texts
  <2>3. Candidate(s) = [file |-> s, meta |-> <<>>]  BY <2>1, <2>2 DEF Candidate
  <2>4. <<>> \in Texts /\ s \o <<>> = s  BY DEF Texts
  <2>5. Candidate(s).file = s /\ Candidate(s).meta = <<>>  BY <2>3
  <2>6. Candidate(s) \in [file : Texts, meta : Texts]  BY <2>3, <2>4
  <2>. QED  BY <1>1, <2>4, <2>5, <2>6 DEF WellFormed, Text
<1>2. CASE ~(\A j \in 1 .. Len(s) : s[j] # Comma)
  <2>. DEFINE J == {j \in 1 .. Len(s) : s[j] = Comma}
  <2>1. J \in SUBSET Nat /\ J # {}  BY <1>2
  <2>2. PICK i \in J : \A k \in J : i <= k
    <3>. HIDE DEF J
    <3>. QED  BY <2>1, LeastElement
  <2>3. i \in 1 .. Len(s) /\ s[i] = Comma /\ \A j \in 1 .. i - 1 : s[j] # Comma
    <3>1. Len(s) \in Nat  BY DEF Texts
    <3>. QED  BY <2>2, <3>1
  <2>. HIDE DEF J
  <2>. DEFINE p == SubSeq(s, 1, i - 1)
              q == SubSeq(s, i, Len(s))
  <2>4. Before(s, Comma) = p  BY <2>3, CutAtFirst DEF Texts
  <2>5. /\ p \in Texts /\ q \in Texts /\ Len(p) = i - 1 /\ p \o q = s /\ q[1] = s[i]
        /\ \A j \in 1 .. Len(p) : p[j] = s[j]
    <3>1. p \in Texts /\ Len(p) = i - 1 /\ \A j \in 1 .. i - 1 : p[j] = s[j]  BY <2>3 DEF Texts
    <3>2. q \in Texts /\ Len(q) = Len(s) - i + 1 /\ \A j \in 1 .. Len(s) - i + 1 : q[j] = s[j + i - 1]
      BY <2>3 DEF Texts
    <3>3. q[1] = s[i]
      <4>1. 1 \in 1 .. Len(s) - i + 1 /\ 1 + i - 1 = i  BY <2>3 DEF Texts
      <4>. QED  BY <3>2, <4>1
    <3>4. p \o q = s  BY <2>3, SplitsAt DEF Texts
    <3>. QED  BY <3>1, <3>2, <3>3, <3>4
  <2>. HIDE DEF p
  <2>6. Len(p) + 1 = i  BY <2>3, <2>5
  <2>7. Candidate(s) = [file |-> p, meta |-> q]  BY <2>4, <2>6 DEF Candidate
  <2>. HIDE DEF q
  <2>8. Candidate(s).file = p /\ Candidate(s).meta = q  BY <2>7
  <2>9. Candidate(s) \in [file : Texts, meta : Texts]  BY <2>5, <2>7
  <2>10. \A j \in 1 .. Len(p) : p[j] # Comma  BY <2>3, <2>5
  <2>11. q[1] = Comma  BY <2>3, <2>5
  <2>. QED  BY <2>5, <2>8, <2>9, <2>10, <2>11 DEF WellFormed, Text
<1>. QED  BY <1>1, <1>2

(* The file and the metadata are found again in the text. *)
LEMMA TextIs ==
    ASSUME NEW e \in WellFormed
    PROVE  Text(e) \in Texts /\ Before(Text(e), Comma) = e.file /\ Candidate(Text(e)) = e
<1>. DEFINE f == e.file
            g == e.meta
<1>1. f \in Texts /\ g \in Texts /\ e = [file |-> f, meta |-> g]
      /\ (\A j \in 1 .. Len(f) : f[j] # Comma) /\ (g # <<>> => g[1] = Comma)
  BY DEF WellFormed
<1>2. Text(e) = f \o g  BY DEF Text
<1>. HIDE DEF f, g
<1>3. f \o g \in Texts  BY <1>1 DEF Texts
<1>4. Before(f \o g, Comma) = f
  <2>1. CASE g = <<>>
    <3>1. f \o g = f  BY <1>1, <2>1 DEF Texts
    <3>2. Before(f, Comma) = f  BY <1>1, NothingToCut DEF Texts
    <3>. QED  BY <3>1, <3>2
  <2>2. CASE g # <<>>
    <3>. DEFINE s == f \o g
                i == Len(f) + 1
    <3>1. i \in 1 .. Len(s) /\ s[i] = g[1] /\ i - 1 = Len(f) /\ \A j \in 1 .. i - 1 : s[j] = f[j]
      BY <1>1, <2>2 DEF Texts
    <3>2. SubSeq(s, 1, i - 1) = f  BY <1>1, <3>1 DEF Texts
    <3>. HIDE DEF s, i
    <3>3. s[i] = Comma /\ \A j \in 1 .. i - 1 : s[j] # Comma  BY <1>1, <2>2, <3>1
    <3>4. s \in Seq(LineText)  BY <1>3 DEF Texts, s
    <3>5. Before(s, Comma) = SubSeq(s, 1, i - 1)  BY <3>1, <3>3, <3>4, CutAtFirst
    <3>. QED  BY <3>2, <3>5 DEF s
  <2>. QED  BY <2>1, <2>2
<1>5. SubSeq(f \o g, Len(f) + 1, Len(f \o g)) = g
  <2>1. Len(f) \in Nat /\ Len(g) \in Nat /\ Len(f \o g) = Len(f) + Len(g)  BY <1>1 DEF Texts
  <2>. QED  BY <1>1, <2>1 DEF Texts
<1>6. Candidate(f \o g) = [file |-> f, meta |-> g]  BY <1>4, <1>5 DEF Candidate
<1>. QED  BY <1>1, <1>2, <1>3, <1>4, <1>6 DEF f

(* A line of the map: its length, and what its readers cut out of it *)
LEMMA LineOfIs ==
    ASSUME NEW e \in WellFormed
    PROVE  /\ LineOf(e) \in Texts /\ Len(LineOf(e)) = Len(Text(e)) + 2 /\ Len(Text(e)) \in Nat
           /\ After(LineOf(e), Space) = Text(e)
           /\ Append(Before(LineOf(e), Space), Space) = <<Id, Space>>
<1>. DEFINE t == Text(e)
            s == <<Id, Space>> \o t
<1>1. t \in Texts  BY TextIs
<1>2. LineOf(e) = s  BY DEF LineOf
<1>3. Id \in LineText /\ Space \in LineText /\ Id # Space
  BY DEF LineText, Characters, Id, Space, NL
<1>. HIDE DEF t
<1>4. /\ s \in Texts /\ Len(s) = Len(t) + 2 /\ Len(t) \in Nat /\ s[1] = Id /\ s[2] = Space
      /\ SubSeq(s, 3, Len(s)) = t /\ SubSeq(s, 1, 1) = <<Id>>
  <2>1. /\ s \in Texts /\ Len(s) = Len(t) + 2 /\ Len(t) \in Nat /\ s[1] = Id /\ s[2] = Space
        /\ \A j \in 1 .. Len(t) : s[j + 2] = t[j]
    BY <1>1, <1>3 DEF Texts
  <2>. HIDE DEF s
  <2>2. SubSeq(s, 1, 1) = <<Id>>
    <3>1. Len(s) >= 1  BY <2>1
    <3>. QED  BY <2>1, <3>1, FirstOnly DEF Texts
  <2>3. SubSeq(s, 3, Len(s)) = t
    <3>. DEFINE r == SubSeq(s, 3, Len(s))
    <3>1. r \in Texts /\ Len(r) = Len(t) /\ \A j \in 1 .. Len(t) : r[j] = s[j + 3 - 1]
      BY <2>1 DEF Texts
    <3>. HIDE DEF r
    <3>2. ASSUME NEW j \in 1 .. Len(t) PROVE r[j] = t[j]
      <4>1. j + 3 - 1 = j + 2  BY <2>1
      <4>. QED  BY <2>1, <3>1, <4>1
    <3>3. r = t  BY <1>1, <2>1, <3>1, <3>2 DEF Texts
    <3>. QED  BY <3>3 DEF r
  <2>. QED  BY <2>1, <2>2, <2>3
<1>. HIDE DEF s
<1>5. Before(s, Space) = <<Id>> /\ After(s, Space) = t
  <2>1. 2 \in 1 .. Len(s) /\ \A j \in 1 .. 2 - 1 : s[j] # Space  BY <1>3, <1>4
  <2>2. Before(s, Space) = SubSeq(s, 1, 2 - 1) /\ After(s, Space) = SubSeq(s, 2 + 1, Len(s))
    BY <1>4, <2>1, CutAtFirst DEF Texts
  <2>3. 2 - 1 = 1 /\ 2 + 1 = 3  OBVIOUS
  <2>4. Before(s, Space) = SubSeq(s, 1, 1) /\ After(s, Space) = SubSeq(s, 3, Len(s))
    BY <2>2, <2>3
  <2>. QED  BY <1>4, <2>4
<1>6. Append(<<Id>>, Space) = <<Id, Space>>  BY OneMore
<1>. QED  BY <1>2, <1>4, <1>5, <1>6 DEF t

(* The names that the ids have are entries that can be read. *)
LEMMA NamesAre ==
    ASSUME NEW ns \in Names
    PROVE  ns \in [Ids -> WellFormed]
<1>1. Entries \subseteq WellFormed
  <2>1. SUFFICES ASSUME NEW e \in [file : Paths, meta : Metas] PROVE e \in WellFormed
    BY DEF Entries
  <2>2. e.file \in Paths /\ e.meta \in Metas  OBVIOUS
  <2>3. e.file \in Texts /\ e.meta \in Texts  BY <2>2, LettersLie
  <2>4. e \in [file : Texts, meta : Texts]  BY <2>3
  <2>5. \A j \in 1 .. Len(e.file) : e.file[j] # Comma  BY <2>2, LettersLie
  <2>6. e.meta # <<>> => e.meta[1] = Comma  BY <2>2, NamesAssumption
  <2>. QED  BY <2>4, <2>5, <2>6 DEF WellFormed
<1>2. {Candidate(str) : str \in Replacements} \subseteq WellFormed  BY CandidateIs, LettersLie
<1>. QED  BY <1>1, <1>2 DEF Names

-----------------------------------------------------------------------------
(* Texts and the lines they begin with *)

(* at[i] is where the line i and its newline end *)
EndsAt(lines, at) ==
    /\ at \in [0 .. Len(lines) -> Nat]
    /\ at[0] = 0
    /\ \A i \in 1 .. Len(lines) : at[i] = at[i - 1] + Len(lines[i]) + 1

(* The line and its newline are behind place p of the text. *)
LineAt(text, line, p) ==
    /\ \A j \in 1 .. Len(line) : text[p + j] = line[j]
    /\ text[p + Len(line) + 1] = NL

(* The text begins with these lines. *)
Begins(text, lines, at) ==
    /\ at[Len(lines)] <= Len(text)
    /\ \A i \in 1 .. Len(lines) : LineAt(text, lines[i], at[i - 1])

(* The lines end one behind the other. *)
LEMMA EndsGrow ==
    ASSUME NEW X, NEW lines \in Seq(Seq(X)), NEW at, EndsAt(lines, at)
    PROVE  \A k \in 0 .. Len(lines) : \A i \in 0 .. k : at[i] <= at[k]
<1>. DEFINE n == Len(lines)
<1>1. n \in Nat /\ at \in [0 .. n -> Nat]  BY DEF EndsAt
<1>2. ASSUME NEW i \in 1 .. n PROVE at[i - 1] <= at[i]
  <2>1. at[i] = at[i - 1] + Len(lines[i]) + 1  BY DEF EndsAt
  <2>2. Len(lines[i]) \in Nat  OBVIOUS
  <2>3. i - 1 \in 0 .. n  BY <1>1
  <2>4. at[i - 1] \in Nat  BY <1>1, <2>3
  <2>. QED  BY <2>1, <2>2, <2>4
<1>. HIDE DEF n
<1>3. ASSUME NEW k \in 0 .. n PROVE \A i \in 0 .. k : at[i] <= at[k]
  BY <1>1, <1>2, LengthsGrow
<1>. QED  BY <1>3 DEF n

(* As many lines of the same lengths end at the same places. *)
LEMMA EndsSame ==
    ASSUME NEW ls, NEW ms, NEW at, NEW bt, EndsAt(ls, at), EndsAt(ms, bt),
           NEW k \in Nat, k <= Len(ls), k <= Len(ms), Len(ls) \in Nat, Len(ms) \in Nat,
           \A i \in 1 .. k : Len(ls[i]) = Len(ms[i])
    PROVE  \A i \in 0 .. k : at[i] = bt[i]
<1>. DEFINE T == {i \in Nat : at[i] = bt[i]}
<1>1. 0 \in T  BY DEF EndsAt
<1>2. ASSUME NEW i \in 1 .. k, i - 1 \in T PROVE i \in T
  <2>1. i \in 1 .. Len(ls) /\ i \in 1 .. Len(ms) /\ i \in Nat  OBVIOUS
  <2>2. at[i] = at[i - 1] + Len(ls[i]) + 1  BY <2>1 DEF EndsAt
  <2>3. bt[i] = bt[i - 1] + Len(ms[i]) + 1  BY <2>1 DEF EndsAt
  <2>4. at[i - 1] = bt[i - 1] /\ Len(ls[i]) = Len(ms[i])  BY <1>2
  <2>5. at[i] = bt[i]  BY <2>2, <2>3, <2>4
  <2>. QED  BY <2>1, <2>5
<1>. HIDE DEF T
<1>3. \A i \in 0 .. k : i \in T  BY <1>1, <1>2, InductionTo
<1>. QED  BY <1>3 DEF T

(* Joined lines are a text that begins with them and ends where the last   *)
(* does, and so is each prefix of them.                                    *)
LEMMA JoinedBegins ==
    ASSUME NEW X, NL \in X, NEW lines \in Seq(Seq(X))
    PROVE  \E at : /\ EndsAt(lines, at)
                   /\ Joined(lines) \in Seq(X)
                   /\ Len(Joined(lines)) = at[Len(lines)]
                   /\ Begins(Joined(lines), lines, at)
                   /\ \A k \in 0 .. Len(lines) : at[k] = Len(Joined(SubSeq(lines, 1, k)))
<1>. DEFINE n == Len(lines)
            ended == [i \in DOMAIN lines |-> Append(lines[i], NL)]
<1>1. n \in Nat /\ DOMAIN lines = 1 .. n /\ \A i \in 1 .. n : lines[i] \in Seq(X)
  OBVIOUS
<1>2. \A i \in 1 .. n : /\ Append(lines[i], NL) \in Seq(X)
                        /\ Len(Append(lines[i], NL)) = Len(lines[i]) + 1
                        /\ Len(lines[i]) \in Nat
                        /\ Append(lines[i], NL)[Len(lines[i]) + 1] = NL
                        /\ \A j \in 1 .. Len(lines[i]) : Append(lines[i], NL)[j] = lines[i][j]
  BY <1>1
<1>3. ended \in Seq(Seq(X)) /\ Len(ended) = n  BY <1>1, <1>2
<1>4. \A i \in 1 .. n : ended[i] = Append(lines[i], NL)  BY <1>1
<1>5. Joined(lines) = FlattenSeq(ended)  BY DEF Joined
<1>. HIDE DEF ended, n
<1>6. PICK c : UpTo(c, ended, X) /\ FlattenSeq(ended) = c[n]  BY <1>3, FlattenIs
<1>7. /\ \A i \in 0 .. n : c[i] \in Seq(X) /\ Len(c[i]) \in Nat
      /\ Len(c[0]) = 0
      /\ \A i \in 1 .. n : Len(c[i]) = Len(c[i - 1]) + Len(ended[i])
  <2>1. ended \in Seq(Seq(X)) /\ UpTo(c, ended, X)  BY <1>3, <1>6
  <2>2. /\ \A i \in 0 .. Len(ended) : c[i] \in Seq(X) /\ Len(c[i]) \in Nat
        /\ Len(c[0]) = 0
        /\ \A i \in 1 .. Len(ended) : Len(c[i]) = Len(c[i - 1]) + Len(ended[i])
    BY <2>1, LengthUpTo
  <2>. QED  BY <1>3, <2>2
<1>. DEFINE at == [i \in 0 .. n |-> Len(c[i])]
<1>8. \A i \in 0 .. n : at[i] = Len(c[i])  OBVIOUS
<1>9. at \in [0 .. n -> Nat] /\ at[0] = 0  BY <1>1, <1>7
<1>. HIDE DEF at
<1>10. \A i \in 1 .. n : i - 1 \in 0 .. n /\ i \in 0 .. n  BY <1>1
<1>11. EndsAt(lines, at)
  <2>1. ASSUME NEW i \in 1 .. n PROVE at[i] = at[i - 1] + Len(lines[i]) + 1
    <3>1. at[i] = Len(c[i]) /\ at[i - 1] = Len(c[i - 1])  BY <1>8, <1>10
    <3>2. Len(c[i]) = Len(c[i - 1]) + Len(ended[i])  BY <1>7
    <3>3. PICK b \in Nat : b = Len(lines[i]) /\ Len(ended[i]) = b + 1  BY <1>2, <1>4
    <3>4. PICK a \in Nat : a = Len(c[i - 1])  BY <1>7, <1>10
    <3>5. at[i] = a + (b + 1) /\ at[i - 1] = a  BY <3>1, <3>2, <3>3, <3>4
    <3>. QED  BY <3>3, <3>5
  <2>. QED  BY <1>9, <2>1 DEF EndsAt, n
<1>12. n \in 0 .. n  BY <1>1
<1>13. c[n] \in Seq(X) /\ Len(c[n]) = at[n]  BY <1>7, <1>8, <1>12
<1>14. ASSUME NEW i \in 1 .. n PROVE LineAt(c[n], lines[i], at[i - 1])
  <2>1. Lies(ended[i], c[n], Len(c[i - 1]) + 1)  BY <1>3, <1>6, PartsLie
  <2>2. PICK p \in Nat : p = at[i - 1] /\ p = Len(c[i - 1])  BY <1>7, <1>8, <1>10
  <2>3. Len(ended[i]) = Len(lines[i]) + 1 /\ Len(lines[i]) \in Nat  BY <1>2, <1>4
  <2>4. ASSUME NEW j \in 1 .. Len(lines[i]) + 1 PROVE c[n][p + j] = ended[i][j]
    <3>1. c[n][(p + 1) + j - 1] = ended[i][j]  BY <2>1, <2>2, <2>3 DEF Lies
    <3>2. (p + 1) + j - 1 = p + j  BY <2>3
    <3>. QED  BY <3>1, <3>2
  <2>5. ASSUME NEW j \in 1 .. Len(lines[i]) PROVE c[n][p + j] = lines[i][j]
    <3>1. j \in 1 .. Len(lines[i]) + 1  BY <2>3
    <3>. QED  BY <1>2, <1>4, <2>4, <3>1
  <2>6. c[n][p + Len(lines[i]) + 1] = NL
    <3>1. PICK j : j = Len(lines[i]) + 1  OBVIOUS
    <3>2. j \in 1 .. Len(lines[i]) + 1 /\ p + j = p + Len(lines[i]) + 1  BY <2>3, <3>1
    <3>3. c[n][p + j] = ended[i][j]  BY <2>4, <3>2
    <3>4. ended[i][j] = NL  BY <1>2, <1>4, <3>1
    <3>. QED  BY <3>2, <3>3, <3>4
  <2>. QED  BY <2>2, <2>5, <2>6 DEF LineAt
<1>15. Begins(c[n], lines, at)
  <2>1. at[n] <= Len(c[n])  BY <1>7, <1>12, <1>13
  <2>. QED  BY <1>14, <2>1 DEF Begins, n
<1>16. ASSUME NEW k \in 0 .. n PROVE at[k] = Len(Joined(SubSeq(lines, 1, k)))
  <2>. DEFINE ms == SubSeq(lines, 1, k)
              ends == [i \in DOMAIN ms |-> Append(ms[i], NL)]
  <2>1. k \in Nat /\ DOMAIN ms = 1 .. k /\ \A i \in 1 .. k : ms[i] = lines[i]
    BY <1>1 DEF n
  <2>2. ends = SubSeq(ended, 1, k)
    <3>1. SubSeq(ended, 1, k) = [i \in 1 .. k |-> ended[i]]  BY <1>1, <1>3, <2>1
    <3>2. \A i \in 1 .. k : ended[i] = Append(ms[i], NL)  BY <1>1, <1>4, <2>1
    <3>. HIDE DEF ms
    <3>. QED  BY <2>1, <3>1, <3>2
  <2>3. FlattenSeq(SubSeq(ended, 1, k)) = c[k]  BY <1>3, <1>6, FlattenPrefix
  <2>. QED  BY <1>8, <2>2, <2>3 DEF Joined
<1>. QED  BY <1>5, <1>6, <1>11, <1>13, <1>15, <1>16 DEF n

(* The cuts of a text: a place before it, its newlines and one behind it *)
CutsOf(text, cuts) ==
    /\ cuts \in Seq(0 .. Len(text) + 1) /\ Len(cuts) >= 2
    /\ cuts[1] = 0
    /\ \A i, k \in 1 .. Len(cuts) : i < k => cuts[i] < cuts[k]
    /\ \A i \in 2 .. Len(cuts) - 1 : cuts[i] \in 1 .. Len(text) /\ text[cuts[i]] = NL
    /\ \A p \in 1 .. Len(text) : text[p] = NL => \E i \in 2 .. Len(cuts) - 1 : cuts[i] = p

(* split cuts at each newline, and nowhere else. *)
LEMMA SplitCuts ==
    ASSUME NEW text \in Seq(Characters)
    PROVE  \E cuts : /\ CutsOf(text, cuts)
                     /\ Split(text) = [i \in 1 .. Len(cuts) - 1 |->
                                          SubSeq(text, cuts[i] + 1, cuts[i + 1] - 1)]
<1>. DEFINE l == Len(text)
            S == {i \in DOMAIN text : text[i] = NL}
            m == Cardinality(S)
            o == Ordered(S)
            cuts == <<0>> \o o \o <<l + 1>>
<1>1. l \in Nat /\ DOMAIN text = 1 .. l  OBVIOUS
<1>2. S \subseteq 1 .. l /\ S \in SUBSET Nat  BY <1>1
<1>3. IsFiniteSet(S)
  <2>1. IsFiniteSet(1 .. l)  BY <1>1, FS_Interval
  <2>. QED  BY <1>2, <2>1, FS_Subset
<1>4. /\ m \in Nat /\ o \in [1 .. m -> S]
      /\ \A i, k \in 1 .. m : i < k => o[i] < o[k]
      /\ \A x \in S : \E k \in 1 .. m : o[k] = x
  <2>1. m \in Nat  BY <1>2, <1>3, RankBijection
  <2>. HIDE DEF S
  <2>. QED  BY <1>2, <1>3, <2>1, OrderedIs
<1>5. \A x \in S : x \in 1 .. l /\ text[x] = NL  BY <1>2
<1>6. \A x \in 1 .. l : text[x] = NL => x \in S  BY <1>1
<1>7. Split(text) = [i \in 1 .. Len(cuts) - 1 |-> SubSeq(text, cuts[i] + 1, cuts[i + 1] - 1)]
  BY DEF Split
<1>. HIDE DEF l, S, m, o
<1>8. o \in Seq(0 .. l + 1) /\ Len(o) = m
  <2>1. \A i \in 1 .. m : o[i] \in 0 .. l + 1  BY <1>1, <1>4, <1>5
  <2>2. m \in Nat /\ o \in [1 .. m -> 0 .. l + 1]  BY <1>4, <2>1
  <2>. QED  BY <2>2, MakesSeq
<1>9. cuts \in Seq(0 .. l + 1) /\ Len(cuts) = m + 2 /\ cuts[1] = 0 /\ cuts[m + 2] = l + 1
  <2>1. <<0>> \in Seq(0 .. l + 1) /\ <<l + 1>> \in Seq(0 .. l + 1)  BY <1>1
  <2>2. cuts \in Seq(0 .. l + 1)  BY <1>8, <2>1
  <2>. QED  BY <1>1, <1>4, <1>8, <2>1, <2>2
<1>10. ASSUME NEW i \in 2 .. m + 1 PROVE cuts[i] = o[i - 1]
  <2>1. (<<0>> \o o)[i] = o[i - 1]  BY <1>4, <1>8
  <2>2. <<0>> \o o \in Seq(0 .. l + 1) /\ Len(<<0>> \o o) = m + 1
    <3>1. <<0>> \in Seq(0 .. l + 1)  BY <1>1
    <3>. QED  BY <1>4, <1>8, <3>1
  <2>3. i \in 1 .. Len(<<0>> \o o)  BY <1>4, <2>2
  <2>. DEFINE p == <<0>> \o o
              q == <<l + 1>>
  <2>4. q \in Seq(0 .. l + 1)  BY <1>1
  <2>5. (p \o q)[i] = p[i]
    <3>. HIDE DEF p, q
    <3>. QED  BY <2>2, <2>3, <2>4 DEF p
  <2>. QED  BY <2>1, <2>5
<1>. HIDE DEF cuts
<1>11. \A i \in 2 .. m + 1 : i - 1 \in 1 .. m  BY <1>4
<1>12. ASSUME NEW i \in 2 .. m + 1 PROVE cuts[i] \in 1 .. l /\ text[cuts[i]] = NL
  <2>1. o[i - 1] \in S  BY <1>4, <1>11
  <2>. QED  BY <1>5, <1>10, <2>1
<1>13. ASSUME NEW i \in 1 .. m + 2, NEW k \in 1 .. m + 2, i < k PROVE cuts[i] < cuts[k]
  <2>1. CASE i = 1 /\ k = m + 2  BY <1>1, <1>9, <2>1
  <2>2. CASE i = 1 /\ k # m + 2
    <3>1. k \in 2 .. m + 1  BY <1>4, <1>13, <2>2
    <3>2. cuts[k] \in 1 .. l  BY <1>12, <3>1
    <3>. QED  BY <1>9, <2>2, <3>2
  <2>3. CASE i # 1 /\ k = m + 2
    <3>1. i \in 2 .. m + 1  BY <1>4, <1>13, <2>3
    <3>2. cuts[i] \in 1 .. l  BY <1>12, <3>1
    <3>. QED  BY <1>1, <1>9, <2>3, <3>2
  <2>4. CASE i # 1 /\ k # m + 2
    <3>1. i \in 2 .. m + 1 /\ k \in 2 .. m + 1  BY <1>4, <1>13, <2>4
    <3>2. i - 1 \in 1 .. m /\ k - 1 \in 1 .. m /\ i - 1 < k - 1  BY <1>11, <1>13, <3>1
    <3>3. o[i - 1] < o[k - 1]  BY <1>4, <3>2
    <3>. QED  BY <1>10, <3>1, <3>3
  <2>. QED  BY <2>1, <2>2, <2>3, <2>4
<1>14. ASSUME NEW p \in 1 .. l, text[p] = NL PROVE \E i \in 2 .. m + 1 : cuts[i] = p
  <2>1. PICK k \in 1 .. m : o[k] = p  BY <1>4, <1>6, <1>14
  <2>2. PICK i : i = k + 1  OBVIOUS
  <2>3. i \in 2 .. m + 1 /\ i - 1 = k  BY <1>4, <2>2
  <2>. QED  BY <1>10, <2>1, <2>3
<1>15. CutsOf(text, cuts)
  <2>1. Len(cuts) - 1 = m + 1 /\ Len(cuts) >= 2  BY <1>4, <1>9
  <2>. QED  BY <1>9, <1>12, <1>13, <1>14, <2>1 DEF CutsOf, l
<1>. QED  BY <1>7, <1>15

(* The lines a text begins with are the first that split makes, and what   *)
(* is in the others comes from behind them.                                *)
LEMMA SplitIs ==
    ASSUME NEW text \in Seq(Characters), NEW lines \in Seq(Texts), NEW at,
           EndsAt(lines, at), Begins(text, lines, at)
    PROVE  /\ Split(text) \in Seq(Texts) /\ Len(Split(text)) >= Len(lines) + 1
           /\ \A i \in 1 .. Len(lines) : Split(text)[i] = lines[i]
           /\ \A i \in Len(lines) + 1 .. Len(Split(text)) : \A j \in 1 .. Len(Split(text)[i]) :
                 \E p \in 1 .. Len(text) : p > at[Len(lines)] /\ Split(text)[i][j] = text[p]
<1>. DEFINE n == Len(lines)
            l == Len(text)
            s == Split(text)
<1>1. PICK cuts : /\ CutsOf(text, cuts)
                  /\ s = [i \in 1 .. Len(cuts) - 1 |-> SubSeq(text, cuts[i] + 1, cuts[i + 1] - 1)]
  BY SplitCuts
<1>. HIDE DEF s
<1>2. n \in Nat /\ l \in Nat /\ at \in [0 .. n -> Nat] /\ at[0] = 0 /\ at[n] <= l
  BY DEF EndsAt, Begins
<1>3. PICK m \in Nat : m = Len(cuts) - 1 /\ m >= 1
  <2>1. Len(cuts) \in Nat /\ Len(cuts) >= 2  BY <1>1 DEF CutsOf
  <2>2. Len(cuts) - 1 \in Nat /\ Len(cuts) - 1 >= 1  BY <2>1
  <2>. QED  BY <2>2
<1>4. Len(cuts) = m + 1  BY <1>1, <1>3 DEF CutsOf
<1>5. /\ \A i \in 1 .. m + 1 : cuts[i] \in 0 .. l + 1
      /\ cuts[1] = 0
      /\ \A i, k \in 1 .. m + 1 : i < k => cuts[i] < cuts[k]
      /\ \A i \in 2 .. m : cuts[i] \in 1 .. l /\ text[cuts[i]] = NL
      /\ \A p \in 1 .. l : text[p] = NL => \E i \in 2 .. m : cuts[i] = p
  <2>1. /\ \A i \in 1 .. Len(cuts) : cuts[i] \in 0 .. Len(text) + 1
        /\ cuts[1] = 0
        /\ \A i, k \in 1 .. Len(cuts) : i < k => cuts[i] < cuts[k]
        /\ \A i \in 2 .. Len(cuts) - 1 : cuts[i] \in 1 .. Len(text) /\ text[cuts[i]] = NL
        /\ \A p \in 1 .. Len(text) : text[p] = NL => \E i \in 2 .. Len(cuts) - 1 : cuts[i] = p
    BY <1>1 DEF CutsOf
  <2>. QED  BY <1>3, <1>4, <2>1
<1>6. s = [i \in 1 .. m |-> SubSeq(text, cuts[i] + 1, cuts[i + 1] - 1)]
  BY <1>1, <1>3
<1>7. \A i \in 0 .. n : at[i] \in Nat /\ at[i] <= l
  <2>1. \A i \in 0 .. n : at[i] <= at[n]
    <3>1. n \in 0 .. n  BY <1>2
    <3>2. lines \in Seq(Seq(LineText))  BY DEF Texts
    <3>3. \A k \in 0 .. n : \A i \in 0 .. k : at[i] <= at[k]  BY <3>2, EndsGrow
    <3>. QED  BY <3>1, <3>3
  <2>. QED  BY <1>2, <2>1
<1>8. \A i \in 1 .. n : /\ Len(lines[i]) \in Nat
                        /\ at[i] = at[i - 1] + Len(lines[i]) + 1
                        /\ at[i - 1] \in Nat
                        /\ text[at[i]] = NL
                        /\ \A j \in 1 .. Len(lines[i]) :
                              text[at[i - 1] + j] = lines[i][j] /\ lines[i][j] \in LineText
  <2>1. TAKE i \in 1 .. n
  <2>2. at[i] = at[i - 1] + Len(lines[i]) + 1  BY DEF EndsAt
  <2>3. i - 1 \in 0 .. n  BY <1>2
  <2>4. lines[i] \in Seq(LineText) /\ Len(lines[i]) \in Nat  BY <1>2 DEF Texts
  <2>5. LineAt(text, lines[i], at[i - 1])  BY DEF Begins
  <2>6. \A j \in 1 .. Len(lines[i]) : lines[i][j] \in LineText  BY <2>4
  <2>. QED  BY <1>7, <2>2, <2>3, <2>4, <2>5, <2>6 DEF LineAt
<1>. HIDE DEF n, l
<1>. DEFINE T == {i \in Nat : i + 1 <= m /\ cuts[i + 1] = at[i]}
<1>9. 0 \in T
  <2>1. 0 + 1 = 1  OBVIOUS
  <2>. QED  BY <1>2, <1>3, <1>5, <2>1
<1>10. ASSUME NEW i \in 1 .. n, i - 1 \in T PROVE i \in T
  <2>1. i \in Nat /\ i - 1 + 1 = i /\ i - 1 \in 0 .. n /\ i \in 0 .. n  BY <1>2
  <2>2. i <= m /\ cuts[i] = at[i - 1]  BY <1>10, <2>1
  <2>. HIDE DEF T
  <2>3. at[i] \in 1 .. l /\ text[at[i]] = NL /\ at[i - 1] < at[i]
    BY <1>7, <1>8, <2>1
  <2>4. PICK k \in 2 .. m : cuts[k] = at[i]  BY <1>5, <2>3
  <2>5. i < k
    <3>1. SUFFICES ASSUME k <= i PROVE FALSE
      BY <2>1
    <3>2. k = i \/ k < i  BY <2>1, <3>1
    <3>3. k \in 1 .. m + 1 /\ i \in 1 .. m + 1 /\ cuts[k] \in 0 .. l + 1 /\ cuts[i] \in 0 .. l + 1
      BY <1>3, <1>5, <2>1, <2>2
    <3>4. cuts[k] <= cuts[i]  BY <1>5, <3>2, <3>3
    <3>. QED  BY <2>2, <2>3, <2>4, <3>3, <3>4
  <2>6. PICK h : h = i + 1  OBVIOUS
  <2>7. h \in 2 .. m /\ h \in 1 .. m + 1 /\ i \in 1 .. m + 1 /\ k \in 1 .. m + 1 /\ i < h /\ h <= k
    BY <1>3, <2>1, <2>2, <2>5, <2>6
  <2>8. cuts[h] \in 1 .. l /\ text[cuts[h]] = NL /\ cuts[i] < cuts[h]
    BY <1>5, <2>7
  <2>9. cuts[h] <= at[i]
    <3>1. CASE h = k  BY <2>3, <2>4, <3>1
    <3>2. CASE h < k
      <4>1. cuts[h] < cuts[k]  BY <1>5, <2>7, <3>2
      <4>. QED  BY <2>3, <2>4, <2>8, <4>1
    <3>. QED  BY <2>7, <3>1, <3>2
  <2>10. cuts[h] = at[i]
    <3>1. SUFFICES ASSUME cuts[h] < at[i] PROVE FALSE
      BY <2>3, <2>8, <2>9
    <3>2. PICK a \in Nat : a = at[i - 1]  BY <1>8
    <3>3. PICK j : j = cuts[h] - a  OBVIOUS
    <3>4. j \in 1 .. Len(lines[i]) /\ a + j = cuts[h]
      <4>1. /\ Len(lines[i]) \in Nat /\ at[i] = a + Len(lines[i]) + 1
            /\ cuts[h] \in Nat /\ a < cuts[h]
        BY <1>8, <2>2, <2>8, <3>2
      <4>. QED  BY <3>1, <3>3, <4>1
    <3>5. text[a + j] = lines[i][j] /\ lines[i][j] \in LineText  BY <1>8, <3>2, <3>4
    <3>. QED  BY <2>8, <3>4, <3>5 DEF LineText
  <2>. QED  BY <2>1, <2>6, <2>7, <2>10 DEF T
<1>. HIDE DEF T
<1>11. \A i \in 0 .. n : i + 1 <= m /\ cuts[i + 1] = at[i]
  <2>1. \A i \in 0 .. n : i \in T  BY <1>2, <1>9, <1>10, InductionTo
  <2>. QED  BY <2>1 DEF T
<1>12. ASSUME NEW i \in 1 .. m, NEW p \in 1 .. l, cuts[i] < p, p < cuts[i + 1] PROVE text[p] # NL
  <2>1. SUFFICES ASSUME text[p] = NL PROVE FALSE
    OBVIOUS
  <2>2. PICK k \in 2 .. m : cuts[k] = p  BY <1>5, <2>1
  <2>3. PICK h : h = i + 1  OBVIOUS
  <2>4. k \in 1 .. m + 1 /\ i \in 1 .. m + 1 /\ h \in 1 .. m + 1 /\ (k = i \/ k < i \/ k = h \/ h < k)
    BY <1>3, <2>3
  <2>5. cuts[k] \in 0 .. l + 1 /\ cuts[i] \in 0 .. l + 1 /\ cuts[h] \in 0 .. l + 1  BY <1>5, <2>4
  <2>6. cuts[i] < cuts[k] /\ cuts[k] < cuts[h]  BY <1>12, <2>2, <2>3
  <2>7. CASE k < i
    <3>1. cuts[k] < cuts[i]  BY <1>5, <2>4, <2>7
    <3>. QED  BY <2>5, <2>6, <3>1
  <2>8. CASE h < k
    <3>1. cuts[h] < cuts[k]  BY <1>5, <2>4, <2>8
    <3>. QED  BY <2>5, <2>6, <3>1
  <2>9. CASE k = i \/ k = h  BY <2>5, <2>6, <2>9
  <2>. QED  BY <2>4, <2>7, <2>8, <2>9
<1>13. ASSUME NEW i \in 1 .. m
       PROVE  /\ s[i] \in Texts
              /\ cuts[i] \in Nat /\ cuts[i + 1] \in Nat
              /\ Len(s[i]) = cuts[i + 1] - cuts[i] - 1
              /\ \A j \in 1 .. Len(s[i]) : cuts[i] + j \in 1 .. l /\ s[i][j] = text[cuts[i] + j]
  <2>1. i \in 1 .. m + 1 /\ i + 1 \in 1 .. m + 1 /\ i < i + 1  BY <1>3
  <2>2. PICK a, b : a = cuts[i] /\ b = cuts[i + 1]  OBVIOUS
  <2>3. a \in 0 .. l + 1 /\ b \in 0 .. l + 1 /\ a < b  BY <1>5, <2>1, <2>2
  <2>4. a \in Nat /\ b \in Nat /\ b - 1 <= l /\ b - a - 1 \in Nat  BY <1>2, <2>3
  <2>5. s[i] = SubSeq(text, a + 1, b - 1)  BY <1>6, <2>2
  <2>. DEFINE t == SubSeq(text, a + 1, b - 1)
  <2>6. t \in Seq(Characters) /\ Len(t) = b - a - 1
        /\ \A j \in 1 .. b - a - 1 : t[j] = text[j + (a + 1) - 1]
    BY <1>2, <2>4 DEF l
  <2>. HIDE DEF t
  <2>7. ASSUME NEW j \in 1 .. b - a - 1
        PROVE  a + j \in 1 .. l /\ t[j] = text[a + j] /\ t[j] \in LineText
    <3>1. a + j \in 1 .. l /\ j + (a + 1) - 1 = a + j /\ a < a + j /\ a + j < b
      BY <1>2, <2>4
    <3>2. t[j] = text[a + j]  BY <2>6, <3>1
    <3>3. text[a + j] # NL  BY <1>12, <2>2, <3>1
    <3>4. text[a + j] \in Characters  BY <3>1 DEF l
    <3>. QED  BY <3>1, <3>2, <3>3, <3>4 DEF LineText
  <2>8. t \in Texts
    <3>1. b - a - 1 \in Nat /\ t \in [1 .. b - a - 1 -> LineText]  BY <2>4, <2>6, <2>7
    <3>2. t \in Seq(LineText)  BY <3>1, MakesSeq
    <3>. QED  BY <3>2 DEF Texts
  <2>. QED  BY <2>2, <2>4, <2>5, <2>6, <2>7, <2>8 DEF t
<1>14. s \in Seq(Texts) /\ Len(s) = m
  <2>1. s \in [1 .. m -> Texts]  BY <1>6, <1>13
  <2>. QED  BY <2>1
<1>15. Len(s) >= n + 1
  <2>1. n \in 0 .. n  BY <1>2
  <2>. QED  BY <1>2, <1>11, <1>14, <2>1
<1>16. ASSUME NEW i \in 1 .. n PROVE s[i] = lines[i]
  <2>1. i - 1 \in 0 .. n /\ i \in 0 .. n /\ i - 1 + 1 = i  BY <1>2
  <2>2. i \in 1 .. m /\ cuts[i] = at[i - 1] /\ cuts[i + 1] = at[i]  BY <1>2, <1>11, <2>1
  <2>3. PICK a \in Nat : a = at[i - 1]  BY <1>8
  <2>4. at[i] = a + Len(lines[i]) + 1 /\ Len(lines[i]) \in Nat  BY <1>8, <2>3
  <2>5. Len(s[i]) = cuts[i + 1] - cuts[i] - 1  BY <1>13, <2>2
  <2>6. Len(s[i]) = Len(lines[i])  BY <2>2, <2>3, <2>4, <2>5
  <2>7. ASSUME NEW j \in 1 .. Len(lines[i]) PROVE s[i][j] = lines[i][j]
    <3>1. text[a + j] = lines[i][j]  BY <1>8, <2>3
    <3>2. j \in 1 .. Len(s[i])  BY <2>6
    <3>3. s[i][j] = text[cuts[i] + j]  BY <1>13, <2>2, <3>2
    <3>. QED  BY <2>2, <2>3, <3>1, <3>3
  <2>8. s[i] \in Texts  BY <1>13, <2>2
  <2>9. lines[i] \in Texts  BY DEF n
  <2>10. \A j \in 1 .. Len(s[i]) : s[i][j] = lines[i][j]  BY <2>6, <2>7
  <2>. QED  BY <2>6, <2>8, <2>9, <2>10, SameSeq DEF Texts
<1>17. ASSUME NEW i \in n + 1 .. Len(s), NEW j \in 1 .. Len(s[i])
       PROVE  \E p \in 1 .. l : p > at[n] /\ s[i][j] = text[p]
  <2>1. i \in 1 .. m /\ i \in 1 .. m + 1 /\ n \in 0 .. n /\ n + 1 \in 1 .. m + 1 /\ n + 1 <= i
    BY <1>2, <1>3, <1>11, <1>14
  <2>2. cuts[n + 1] = at[n]  BY <1>11, <2>1
  <2>3. at[n] <= cuts[i]
    <3>1. n + 1 = i \/ n + 1 < i  BY <1>2, <2>1
    <3>2. cuts[i] \in Nat  BY <1>13, <2>1
    <3>3. CASE n + 1 = i  BY <2>2, <3>2, <3>3
    <3>4. CASE n + 1 < i
      <4>1. cuts[n + 1] < cuts[i]  BY <1>5, <2>1, <3>4
      <4>. QED  BY <1>7, <2>1, <2>2, <3>2, <4>1
    <3>. QED  BY <3>1, <3>3, <3>4
  <2>4. PICK a \in Nat : a = cuts[i]  BY <1>13, <2>1
  <2>5. a + j \in 1 .. l /\ s[i][j] = text[a + j]  BY <1>13, <2>1, <2>4
  <2>6. j \in Nat /\ j >= 1
    <3>1. s[i] \in Texts  BY <1>13, <2>1
    <3>2. Len(s[i]) \in Nat  BY <3>1 DEF Texts
    <3>. QED  BY <3>2
  <2>7. a + j > at[n]  BY <1>7, <2>1, <2>3, <2>4, <2>6
  <2>. QED  BY <2>5, <2>7
<1>. QED  BY <1>14, <1>15, <1>16, <1>17 DEF n, l, s

-----------------------------------------------------------------------------
(* The readers, line by line *)

(* A function that makes each value from the one before, as far as n *)
StepsTo(f, S, c, n, F) ==
    /\ f \in [0 .. n -> S]
    /\ f[0] = c
    /\ \A i \in 1 .. n : f[i] = F[i][f[i - 1]]

(* A recursive function on 0 .. n exists: the recursion of the readers. *)
LEMMA RecursionTo ==
    ASSUME NEW S, NEW c \in S, NEW n \in Nat, NEW F \in [1 .. n -> [S -> S]]
    PROVE  \E f : StepsTo(f, S, c, n, F)
<1>. DEFINE G == [k \in Nat |-> IF k + 1 \in 1 .. n THEN F[k + 1] ELSE [x \in S |-> x]]
<1>1. StepsIn(G, S)
  <2>1. ASSUME NEW k \in Nat PROVE G[k] \in [S -> S]
    <3>1. CASE k + 1 \in 1 .. n  BY <3>1
    <3>2. CASE k + 1 \notin 1 .. n  BY <3>2
    <3>. QED  BY <3>1, <3>2
  <2>2. G = [k \in Nat |-> G[k]]  OBVIOUS
  <2>. HIDE DEF G
  <2>. QED  BY <2>1, <2>2 DEF StepsIn
<1>2. PICK g : Recurses(g, S, c, G)
  <2>. HIDE DEF G
  <2>. QED  BY <1>1, Recursion
<1>. DEFINE f == [i \in 0 .. n |-> g[i]]
<1>3. f \in [0 .. n -> S] /\ f[0] = c  BY <1>2 DEF Recurses
<1>4. ASSUME NEW i \in 1 .. n PROVE f[i] = F[i][f[i - 1]]
  <2>1. PICK k \in Nat : k = i - 1  OBVIOUS
  <2>2. k + 1 = i /\ k + 1 \in 1 .. n /\ k \in 0 .. n /\ i \in 0 .. n  BY <2>1
  <2>3. g[k + 1] = G[k][g[k]]  BY <1>2, <2>1 DEF Recurses
  <2>4. G[k] = F[k + 1]  BY <2>1, <2>2
  <2>5. f[i] = g[i] /\ f[k] = g[k]  BY <2>2
  <2>. HIDE DEF G, f
  <2>6. g[i] = F[i][g[k]]  BY <2>2, <2>3, <2>4
  <2>. QED  BY <2>1, <2>5, <2>6
<1>. HIDE DEF f
<1>. QED  BY <1>3, <1>4 DEF StepsTo

(* Lines that are kept while none is skipped are the first of all lines. *)
KeepsLines(L, K, n, k, g) ==
    /\ L \in [0 .. n -> Seq(Texts)] /\ L[0] = <<>>
    /\ K \in [0 .. n -> BOOLEAN] /\ ~K[0]
    /\ \A i \in 1 .. n : L[i] = L[i - 1] \/ \E x \in Texts : L[i] = Append(L[i - 1], x)
    /\ \A i \in 1 .. k : ~K[i - 1] => ~K[i] /\ L[i] = Append(L[i - 1], g[i])

(* Of lines of which the first k are kept and not skipped, the first k of  *)
(* all that is kept are these.                                             *)
LEMMA LinesAreKept ==
    ASSUME NEW L, NEW K, NEW n \in Nat, NEW k \in 0 .. n, NEW g \in [1 .. k -> Texts],
           KeepsLines(L, K, n, k, g)
    PROVE  /\ \A i \in 0 .. k : ~K[i] /\ Len(L[i]) = i
           /\ Len(L[n]) >= k
           /\ \A j \in 1 .. k : L[n][j] = g[j]
<1>1. \A i \in 0 .. n : L[i] \in Seq(Texts) /\ Len(L[i]) \in Nat
  BY DEF KeepsLines
<1>. DEFINE Kept1(i) == ~K[i] /\ Len(L[i]) = i /\ \A j \in 1 .. i : L[i][j] = g[j]
            T == {i \in Nat : Kept1(i)}
<1>2. 0 \in T
  <2>1. L[0] = <<>> /\ ~K[0]  BY DEF KeepsLines
  <2>. QED  BY <2>1
<1>3. ASSUME NEW i \in 1 .. k, i - 1 \in T PROVE i \in T
  <2>1. i - 1 \in 0 .. n /\ i \in Nat /\ i - 1 \in Nat  OBVIOUS
  <2>2. Kept1(i - 1)  BY <1>3
  <2>3. ~K[i] /\ L[i] = Append(L[i - 1], g[i])  BY <2>2 DEF KeepsLines
  <2>. HIDE DEF T
  <2>4. PICK s \in Seq(Texts) : s = L[i - 1]  BY <1>1, <2>1
  <2>5. PICK x \in Texts : x = g[i]  OBVIOUS
  <2>6. L[i] = Append(s, x)  BY <2>3, <2>4, <2>5
  <2>7. Len(s) = i - 1  BY <2>2, <2>4
  <2>8. Len(L[i]) = i /\ L[i][i] = x /\ \A j \in 1 .. i - 1 : L[i][j] = s[j]
    BY <2>1, <2>6, <2>7
  <2>9. ASSUME NEW j \in 1 .. i PROVE L[i][j] = g[j]
    <3>1. CASE j = i  BY <2>5, <2>8, <3>1
    <3>2. CASE j # i
      <4>1. j \in 1 .. i - 1  BY <2>1, <3>2
      <4>2. L[i - 1][j] = g[j]  BY <2>2, <4>1
      <4>. QED  BY <2>4, <2>8, <4>1, <4>2
    <3>. QED  BY <3>1, <3>2
  <2>. QED  BY <2>1, <2>3, <2>8, <2>9 DEF T
<1>. HIDE DEF T
<1>4. \A i \in 0 .. k : i \in T
  <2>1. k \in Nat  OBVIOUS
  <2>2. \A i \in 1 .. k : i - 1 \in T => i \in T  BY <1>3
  <2>. QED  BY <1>2, <2>1, <2>2, InductionTo
<1>5. \A i \in 0 .. k : Kept1(i)  BY <1>4 DEF T
<1>6. k \in 0 .. k  OBVIOUS
<1>. DEFINE Kept2(i) == Len(L[i]) >= k /\ \A j \in 1 .. k : L[i][j] = g[j]
            U == {i \in Nat : i >= k => Kept2(i)}
<1>7. 0 \in U
  <2>1. Kept1(k)  BY <1>5, <1>6
  <2>2. SUFFICES ASSUME 0 >= k PROVE Kept2(0)
    OBVIOUS
  <2>3. k = 0  BY <2>2
  <2>. QED  BY <2>1, <2>3
<1>8. ASSUME NEW i \in 1 .. n, i - 1 \in U PROVE i \in U
  <2>1. i - 1 \in 0 .. n /\ i \in Nat /\ i - 1 \in Nat /\ i \in 0 .. n  OBVIOUS
  <2>2. SUFFICES ASSUME i >= k PROVE Kept2(i)
    BY <2>1
  <2>3. CASE i = k
    <3>1. Kept1(k)  BY <1>5, <1>6
    <3>. QED  BY <2>3, <3>1
  <2>4. CASE i # k
    <3>1. Kept2(i - 1)
      <4>1. i - 1 >= k  BY <2>1, <2>2, <2>4
      <4>. QED  BY <1>8, <4>1
    <3>. HIDE DEF U
    <3>2. PICK s \in Seq(Texts) : s = L[i - 1]  BY <1>1, <2>1
    <3>3. Len(s) >= k /\ \A j \in 1 .. k : s[j] = g[j]  BY <3>1, <3>2
    <3>4. L[i] = s \/ \E x \in Texts : L[i] = Append(s, x)
      <4>1. L[i] = L[i - 1] \/ \E x \in Texts : L[i] = Append(L[i - 1], x)  BY DEF KeepsLines
      <4>. QED  BY <3>2, <4>1
    <3>5. CASE L[i] = s  BY <3>3, <3>5
    <3>6. CASE \E x \in Texts : L[i] = Append(s, x)
      <4>1. PICK x \in Texts : L[i] = Append(s, x)  BY <3>6
      <4>2. Len(L[i]) = Len(s) + 1 /\ Len(s) \in Nat /\ \A j \in 1 .. Len(s) : L[i][j] = s[j]
        BY <4>1
      <4>3. \A j \in 1 .. k : j \in 1 .. Len(s)  BY <3>3, <4>2
      <4>. QED  BY <3>3, <4>2, <4>3
    <3>. QED  BY <3>4, <3>5, <3>6
  <2>. QED  BY <2>3, <2>4
<1>. HIDE DEF U
<1>9. n \in U
  <2>1. \A i \in 0 .. n : i \in U  BY <1>7, <1>8, InductionTo
  <2>. QED  BY <2>1
<1>10. Kept2(n)  BY <1>9 DEF U
<1>. QED  BY <1>5, <1>10

(* What is before and after a character is text of the same kind. *)
LEMMA PartsAreSeqs ==
    ASSUME NEW X, NEW s \in Seq(X), NEW c
    PROVE  Before(s, c) \in Seq(X) /\ After(s, c) \in Seq(X)
<1>1. CASE \A j \in 1 .. Len(s) : s[j] # c
  BY <1>1, NothingToCut
<1>2. CASE ~(\A j \in 1 .. Len(s) : s[j] # c)
  <2>. DEFINE J == {j \in 1 .. Len(s) : s[j] = c}
  <2>1. J \in SUBSET Nat /\ J # {}  BY <1>2
  <2>2. PICK i \in J : \A k \in J : i <= k
    <3>. HIDE DEF J
    <3>. QED  BY <2>1, LeastElement
  <2>3. i \in 1 .. Len(s) /\ s[i] = c /\ \A j \in 1 .. i - 1 : s[j] # c  BY <2>2
  <2>. HIDE DEF J
  <2>4. Before(s, c) = SubSeq(s, 1, i - 1) /\ After(s, c) = SubSeq(s, i + 1, Len(s))
    BY <2>3, CutAtFirst
  <2>. QED  BY <2>3, <2>4
<1>. QED  BY <1>1, <1>2

(* What a reader has read so far *)
Reads == [lines : Seq(Texts), skip : BOOLEAN]

(* One line of a map of bgparse: it keeps what is behind the id, or it     *)
(* passes over a line that is too short.                                   *)
LEMMA ReadLineIs ==
    ASSUME NEW acc \in Reads, NEW line \in Texts
    PROVE  LET next == ReadLine(acc, line)
           IN /\ next \in Reads
              /\ \/ next.lines = acc.lines
                 \/ \E x \in Texts : next.lines = Append(acc.lines, x)
              /\ ~acc.skip /\ Len(line) >= 2 =>
                    ~next.skip /\ next.lines = Append(acc.lines, After(line, Space))
<1>. DEFINE next == ReadLine(acc, line)
<1>1. acc.lines \in Seq(Texts) /\ acc.skip \in BOOLEAN  BY DEF Reads
<1>2. After(line, Space) \in Texts /\ Len(line) \in Nat  BY PartsAreSeqs DEF Texts
<1>3. \A x \in Texts : Append(acc.lines, x) \in Seq(Texts)  BY <1>1
<1>4. CASE acc.skip
  <2>1. next = [lines |-> Append(acc.lines, line), skip |-> FALSE]  BY <1>4 DEF ReadLine
  <2>2. next.lines = Append(acc.lines, line)  BY <2>1
  <2>3. next \in Reads  BY <1>3, <2>1 DEF Reads
  <2>. QED  BY <1>4, <2>2, <2>3
<1>5. CASE ~acc.skip /\ Len(line) <= 1
  <2>1. next = [acc EXCEPT !.skip = TRUE]  BY <1>5 DEF ReadLine
  <2>2. next.lines = acc.lines /\ next \in Reads  BY <2>1 DEF Reads
  <2>. QED  BY <1>2, <1>5, <2>2
<1>6. CASE ~acc.skip /\ ~(Len(line) <= 1)
  <2>. DEFINE l == Append(acc.lines, After(line, Space))
  <2>1. next = [acc EXCEPT !.lines = l]  BY <1>6 DEF ReadLine
  <2>2. l \in Seq(Texts)  BY <1>2, <1>3
  <2>. HIDE DEF l
  <2>3. next.lines = l /\ next.skip = acc.skip /\ next \in Reads
    <3>1. acc \in [lines : Seq(Texts), skip : BOOLEAN]  BY DEF Reads
    <3>. QED  BY <2>1, <2>2, <3>1 DEF Reads
  <2>4. next.lines = Append(acc.lines, After(line, Space))  BY <2>3 DEF l
  <2>. QED  BY <1>2, <1>6, <2>3, <2>4
<1>. QED  BY <1>1, <1>4, <1>5, <1>6

(* One line of a map of bgdump, which keeps the line as it is *)
LEMMA ListLineIs ==
    ASSUME NEW acc \in Reads, NEW line \in Texts
    PROVE  LET next == ListLine(acc, line)
           IN /\ next \in Reads
              /\ \/ next.lines = acc.lines
                 \/ \E x \in Texts : next.lines = Append(acc.lines, x)
              /\ ~acc.skip /\ Len(line) >= 2 =>
                    ~next.skip /\ next.lines = Append(acc.lines, line)
<1>. DEFINE next == ListLine(acc, line)
<1>1. acc.lines \in Seq(Texts) /\ acc.skip \in BOOLEAN  BY DEF Reads
<1>2. Len(line) \in Nat  BY DEF Texts
<1>3. Append(acc.lines, line) \in Seq(Texts)  BY <1>1
<1>4. CASE acc.skip
  <2>1. next = [acc EXCEPT !.skip = FALSE]  BY <1>4 DEF ListLine
  <2>2. next.lines = acc.lines /\ next \in Reads  BY <2>1 DEF Reads
  <2>. QED  BY <1>4, <2>2
<1>5. CASE ~acc.skip /\ Len(line) <= 1
  <2>1. next = [lines |-> Append(acc.lines, line), skip |-> TRUE]  BY <1>5 DEF ListLine
  <2>2. next.lines = Append(acc.lines, line)  BY <2>1
  <2>3. next \in Reads  BY <1>3, <2>1 DEF Reads
  <2>. QED  BY <1>2, <1>5, <2>2, <2>3
<1>6. CASE ~acc.skip /\ ~(Len(line) <= 1)
  <2>. DEFINE l == Append(acc.lines, line)
  <2>1. next = [acc EXCEPT !.lines = l]  BY <1>6 DEF ListLine
  <2>. HIDE DEF l
  <2>2. next.lines = l /\ next.skip = acc.skip /\ next \in Reads
    <3>1. acc \in [lines : Seq(Texts), skip : BOOLEAN]  BY DEF Reads
    <3>. QED  BY <1>3, <2>1, <3>1 DEF Reads, l
  <2>. QED  BY <1>6, <2>2 DEF l
<1>. QED  BY <1>1, <1>4, <1>5, <1>6

(* What the two readers read of lines that start with k whole ones *)
LEMMA FilesAre ==
    ASSUME NEW text, Split(text) \in Seq(Texts), NEW k \in Nat, k <= Len(Split(text)),
           \A i \in 1 .. k : Len(Split(text)[i]) >= 2
    PROVE  /\ Len(FilesOf(text)) >= k /\ Len(FilesOf(text)) \in Nat
           /\ \A i \in 1 .. k : FilesOf(text)[i] = After(Split(text)[i], Space)
<1>. DEFINE s == Split(text)
            n == Len(s)
            Body(f) == [i \in 0 .. n |->
                          IF i = 0 THEN [lines |-> <<>>, skip |-> FALSE] ELSE ReadLine(f[i - 1], s[i])]
            read == CHOOSE f : f = Body(f)
            c == [lines |-> <<>>, skip |-> FALSE]
            F == [i \in 1 .. n |-> [a \in Reads |-> ReadLine(a, s[i])]]
<1>1. FilesOf(text) = read[n].lines  BY DEF FilesOf
<1>2. s \in Seq(Texts) /\ n \in Nat /\ \A i \in 1 .. n : s[i] \in Texts  OBVIOUS
<1>. HIDE DEF s
<1>3. c \in Reads
  <2>1. <<>> \in Seq(Texts)  OBVIOUS
  <2>. QED  BY <2>1 DEF Reads
<1>4. \A a \in Reads, i \in 1 .. n : ReadLine(a, s[i]) \in Reads  BY <1>2, ReadLineIs
<1>5. F \in [1 .. n -> [Reads -> Reads]]  BY <1>4
<1>6. PICK f : StepsTo(f, Reads, c, n, F)
  <2>. HIDE DEF F, c, n
  <2>. QED  BY <1>2, <1>3, <1>5, RecursionTo DEF n
<1>7. f \in [0 .. n -> Reads] /\ f[0] = c /\ \A i \in 1 .. n : f[i] = F[i][f[i - 1]]
  BY <1>6 DEF StepsTo
<1>8. \A i \in 1 .. n : i - 1 \in 0 .. n /\ f[i - 1] \in Reads
  <2>1. \A i \in 1 .. n : i - 1 \in 0 .. n  BY <1>2
  <2>2. \A i \in 0 .. n : f[i] \in Reads  BY <1>7
  <2>. QED  BY <2>1, <2>2
<1>9. \A i \in 1 .. n : f[i] = ReadLine(f[i - 1], s[i])
  <2>1. \A i \in 1 .. n, a \in Reads : F[i][a] = ReadLine(a, s[i])  OBVIOUS
  <2>. HIDE DEF F
  <2>. QED  BY <1>7, <1>8, <2>1
<1>10. f = Body(f)  BY <1>2, <1>7, <1>9
<1>11. read = Body(read)  BY <1>10
<1>. HIDE DEF read, F
<1>12. \A i \in 0 .. n : read[i] = IF i = 0 THEN c ELSE ReadLine(read[i - 1], s[i])  BY <1>11
<1>. HIDE DEF Body, c
<1>. DEFINE T == {i \in Nat : read[i] = f[i]}
<1>13. 0 \in T
  <2>1. 0 \in 0 .. n  BY <1>2
  <2>2. read[0] = c  BY <1>12, <2>1
  <2>. QED  BY <1>7, <2>2
<1>14. ASSUME NEW i \in 1 .. n, i - 1 \in T PROVE i \in T
  <2>1. i \in 0 .. n /\ i # 0 /\ i \in Nat  BY <1>2
  <2>2. read[i] = ReadLine(read[i - 1], s[i])  BY <1>12, <2>1
  <2>3. read[i - 1] = f[i - 1]  BY <1>14
  <2>. QED  BY <1>9, <2>1, <2>2, <2>3
<1>15. read[n] = f[n]
  <2>1. \A i \in 0 .. n : i \in T
    <3>. HIDE DEF T, n
    <3>. QED  BY <1>2, <1>13, <1>14, InductionTo DEF n
  <2>2. n \in 0 .. n  BY <1>2
  <2>. QED  BY <2>1, <2>2
<1>. HIDE DEF T
<1>. DEFINE L == [i \in 0 .. n |-> f[i].lines]
            K == [i \in 0 .. n |-> f[i].skip]
            g == [i \in 1 .. k |-> After(s[i], Space)]
<1>16. k \in 0 .. n /\ g \in [1 .. k -> Texts]
  <2>1. k \in 0 .. n  BY <1>2 DEF s
  <2>2. \A i \in 1 .. k : After(s[i], Space) \in Texts
    <3>1. \A x \in Texts : After(x, Space) \in Texts  BY PartsAreSeqs DEF Texts
    <3>. QED  BY <1>2, <2>1, <3>1
  <2>. QED  BY <2>1, <2>2
<1>17. KeepsLines(L, K, n, k, g)
  <2>1. \A i \in 0 .. n : L[i] = f[i].lines /\ K[i] = f[i].skip /\ f[i] \in Reads
    BY <1>7
  <2>2. L \in [0 .. n -> Seq(Texts)] /\ K \in [0 .. n -> BOOLEAN]
    BY <2>1 DEF Reads
  <2>3. L[0] = <<>> /\ ~K[0]
    <3>1. 0 \in 0 .. n  BY <1>2
    <3>. QED  BY <1>7, <2>1, <3>1 DEF c
  <2>4. ASSUME NEW i \in 1 .. n
        PROVE  /\ L[i] = L[i - 1] \/ \E x \in Texts : L[i] = Append(L[i - 1], x)
               /\ ~K[i - 1] /\ Len(s[i]) >= 2 => ~K[i] /\ L[i] = Append(L[i - 1], After(s[i], Space))
    <3>1. i \in 0 .. n /\ i - 1 \in 0 .. n  BY <1>2
    <3>2. PICK a \in Reads : a = f[i - 1] /\ a.lines = L[i - 1] /\ a.skip = K[i - 1]  BY <2>1, <3>1
    <3>3. PICK line \in Texts : line = s[i] /\ f[i] = ReadLine(a, line)  BY <1>2, <1>9, <3>2
    <3>4. L[i] = ReadLine(a, line).lines /\ K[i] = ReadLine(a, line).skip  BY <2>1, <3>1, <3>3
    <3>. HIDE DEF L, K
    <3>5. /\ \/ L[i] = a.lines
             \/ \E x \in Texts : L[i] = Append(a.lines, x)
          /\ ~a.skip /\ Len(line) >= 2 => ~K[i] /\ L[i] = Append(a.lines, After(line, Space))
      BY <3>4, ReadLineIs
    <3>. QED  BY <3>2, <3>3, <3>5
  <2>5. \A i \in 1 .. k : i \in 1 .. n /\ Len(s[i]) >= 2 /\ g[i] = After(s[i], Space)
    BY <1>16 DEF s
  <2>. HIDE DEF L, K, g
  <2>. QED  BY <2>2, <2>3, <2>4, <2>5 DEF KeepsLines
<1>18. Len(L[n]) >= k /\ \A j \in 1 .. k : L[n][j] = g[j]
  <2>. HIDE DEF L, K, g, n
  <2>1. n \in Nat /\ k \in 0 .. n /\ g \in [1 .. k -> Texts]  BY <1>2, <1>16
  <2>. QED  BY <1>17, <2>1, LinesAreKept
<1>19. L[n] = FilesOf(text) /\ L[n] \in Seq(Texts)
  <2>1. n \in 0 .. n  BY <1>2
  <2>2. L[n] = f[n].lines /\ f[n] \in Reads  BY <1>7, <2>1
  <2>3. f[n].lines \in Seq(Texts)  BY <2>2 DEF Reads
  <2>. HIDE DEF L
  <2>. QED  BY <1>1, <1>15, <2>2, <2>3
<1>20. \A i \in 1 .. k : g[i] = After(s[i], Space)  OBVIOUS
<1>. HIDE DEF L, K, g
<1>21. Len(L[n]) \in Nat  BY <1>19
<1>22. \A i \in 1 .. k : L[n][i] = After(s[i], Space)  BY <1>18, <1>20
<1>. QED  BY <1>18, <1>19, <1>21, <1>22 DEF s

(* The same of bgdump: the k lines are listed as they are. *)
LEMMA ListIs ==
    ASSUME NEW text, Split(text) \in Seq(Texts), NEW k \in Nat, k <= Len(Split(text)),
           \A i \in 1 .. k : Len(Split(text)[i]) >= 2
    PROVE  /\ Len(FileList(text)) >= k /\ Len(FileList(text)) \in Nat
           /\ \A i \in 1 .. k : FileList(text)[i] = Split(text)[i]
<1>. DEFINE s == Split(text)
            n == Len(s)
            Body(f) == [i \in 0 .. n |->
                          IF i = 0 THEN [lines |-> <<>>, skip |-> FALSE] ELSE ListLine(f[i - 1], s[i])]
            read == CHOOSE f : f = Body(f)
            c == [lines |-> <<>>, skip |-> FALSE]
            F == [i \in 1 .. n |-> [a \in Reads |-> ListLine(a, s[i])]]
<1>1. FileList(text) = read[n].lines  BY DEF FileList
<1>2. s \in Seq(Texts) /\ n \in Nat /\ \A i \in 1 .. n : s[i] \in Texts  OBVIOUS
<1>. HIDE DEF s
<1>3. c \in Reads
  <2>1. <<>> \in Seq(Texts)  OBVIOUS
  <2>. QED  BY <2>1 DEF Reads
<1>4. \A a \in Reads, i \in 1 .. n : ListLine(a, s[i]) \in Reads  BY <1>2, ListLineIs
<1>5. F \in [1 .. n -> [Reads -> Reads]]  BY <1>4
<1>6. PICK f : StepsTo(f, Reads, c, n, F)
  <2>. HIDE DEF F, c, n
  <2>. QED  BY <1>2, <1>3, <1>5, RecursionTo DEF n
<1>7. f \in [0 .. n -> Reads] /\ f[0] = c /\ \A i \in 1 .. n : f[i] = F[i][f[i - 1]]
  BY <1>6 DEF StepsTo
<1>8. \A i \in 1 .. n : i - 1 \in 0 .. n /\ f[i - 1] \in Reads
  <2>1. \A i \in 1 .. n : i - 1 \in 0 .. n  BY <1>2
  <2>2. \A i \in 0 .. n : f[i] \in Reads  BY <1>7
  <2>. QED  BY <2>1, <2>2
<1>9. \A i \in 1 .. n : f[i] = ListLine(f[i - 1], s[i])
  <2>1. \A i \in 1 .. n, a \in Reads : F[i][a] = ListLine(a, s[i])  OBVIOUS
  <2>. HIDE DEF F
  <2>. QED  BY <1>7, <1>8, <2>1
<1>10. f = Body(f)  BY <1>2, <1>7, <1>9
<1>11. read = Body(read)  BY <1>10
<1>. HIDE DEF read, F
<1>12. \A i \in 0 .. n : read[i] = IF i = 0 THEN c ELSE ListLine(read[i - 1], s[i])  BY <1>11
<1>. HIDE DEF Body, c
<1>. DEFINE T == {i \in Nat : read[i] = f[i]}
<1>13. 0 \in T
  <2>1. 0 \in 0 .. n  BY <1>2
  <2>2. read[0] = c  BY <1>12, <2>1
  <2>. QED  BY <1>7, <2>2
<1>14. ASSUME NEW i \in 1 .. n, i - 1 \in T PROVE i \in T
  <2>1. i \in 0 .. n /\ i # 0 /\ i \in Nat  BY <1>2
  <2>2. read[i] = ListLine(read[i - 1], s[i])  BY <1>12, <2>1
  <2>3. read[i - 1] = f[i - 1]  BY <1>14
  <2>. QED  BY <1>9, <2>1, <2>2, <2>3
<1>15. read[n] = f[n]
  <2>1. \A i \in 0 .. n : i \in T
    <3>. HIDE DEF T, n
    <3>. QED  BY <1>2, <1>13, <1>14, InductionTo DEF n
  <2>2. n \in 0 .. n  BY <1>2
  <2>. QED  BY <2>1, <2>2
<1>. HIDE DEF T
<1>. DEFINE L == [i \in 0 .. n |-> f[i].lines]
            K == [i \in 0 .. n |-> f[i].skip]
            g == [i \in 1 .. k |-> s[i]]
<1>16. k \in 0 .. n /\ g \in [1 .. k -> Texts]
  <2>1. k \in 0 .. n  BY <1>2 DEF s
  <2>2. \A i \in 1 .. k : s[i] \in Texts  BY <1>2, <2>1
  <2>. QED  BY <2>1, <2>2
<1>17. KeepsLines(L, K, n, k, g)
  <2>1. \A i \in 0 .. n : L[i] = f[i].lines /\ K[i] = f[i].skip /\ f[i] \in Reads
    BY <1>7
  <2>2. L \in [0 .. n -> Seq(Texts)] /\ K \in [0 .. n -> BOOLEAN]
    BY <2>1 DEF Reads
  <2>3. L[0] = <<>> /\ ~K[0]
    <3>1. 0 \in 0 .. n  BY <1>2
    <3>. QED  BY <1>7, <2>1, <3>1 DEF c
  <2>4. ASSUME NEW i \in 1 .. n
        PROVE  /\ L[i] = L[i - 1] \/ \E x \in Texts : L[i] = Append(L[i - 1], x)
               /\ ~K[i - 1] /\ Len(s[i]) >= 2 => ~K[i] /\ L[i] = Append(L[i - 1], s[i])
    <3>1. i \in 0 .. n /\ i - 1 \in 0 .. n  BY <1>2
    <3>2. PICK a \in Reads : a = f[i - 1] /\ a.lines = L[i - 1] /\ a.skip = K[i - 1]  BY <2>1, <3>1
    <3>3. PICK line \in Texts : line = s[i] /\ f[i] = ListLine(a, line)  BY <1>2, <1>9, <3>2
    <3>4. L[i] = ListLine(a, line).lines /\ K[i] = ListLine(a, line).skip  BY <2>1, <3>1, <3>3
    <3>. HIDE DEF L, K
    <3>5. /\ \/ L[i] = a.lines
             \/ \E x \in Texts : L[i] = Append(a.lines, x)
          /\ ~a.skip /\ Len(line) >= 2 => ~K[i] /\ L[i] = Append(a.lines, line)
      BY <3>4, ListLineIs
    <3>. QED  BY <3>2, <3>3, <3>5
  <2>5. \A i \in 1 .. k : i \in 1 .. n /\ Len(s[i]) >= 2 /\ g[i] = s[i]
    BY <1>16 DEF s
  <2>. HIDE DEF L, K, g
  <2>. QED  BY <2>2, <2>3, <2>4, <2>5 DEF KeepsLines
<1>18. Len(L[n]) >= k /\ \A j \in 1 .. k : L[n][j] = g[j]
  <2>. HIDE DEF L, K, g, n
  <2>1. n \in Nat /\ k \in 0 .. n /\ g \in [1 .. k -> Texts]  BY <1>2, <1>16
  <2>. QED  BY <1>17, <2>1, LinesAreKept
<1>19. L[n] = FileList(text) /\ L[n] \in Seq(Texts)
  <2>1. n \in 0 .. n  BY <1>2
  <2>2. L[n] = f[n].lines /\ f[n] \in Reads  BY <1>7, <2>1
  <2>3. f[n].lines \in Seq(Texts)  BY <2>2 DEF Reads
  <2>. HIDE DEF L
  <2>. QED  BY <1>1, <1>15, <2>2, <2>3
<1>20. \A i \in 1 .. k : g[i] = s[i]  OBVIOUS
<1>. HIDE DEF L, K, g
<1>21. Len(L[n]) \in Nat  BY <1>19
<1>22. \A i \in 1 .. k : L[n][i] = s[i]  BY <1>18, <1>20
<1>. QED  BY <1>18, <1>19, <1>21, <1>22 DEF s

-----------------------------------------------------------------------------
(* The scan of bgextractfile, line by line *)

(* What bgextractfile has scanned so far *)
Scans == [lines : Seq(Texts), found : Nat, removed : Int, skip : BOOLEAN]

(* The name that bgextractfile finds in a line, and the line it makes of it *)
NameIn(line) == Before(After(line, Space), Comma)
NewLine(line, str) == Append(Before(line, Space), Space) \o str

(* Both are text of a line. *)
LEMMA NewLineIs ==
    ASSUME NEW line \in Texts, NEW str \in Texts
    PROVE  /\ NewLine(line, str) \in Texts /\ Len(NewLine(line, str)) \in Nat
           /\ Len(line) \in Nat /\ NameIn(line) \in Texts
<1>1. Space \in LineText  BY DEF LineText, Characters, Space, NL
<1>2. PICK p \in Seq(LineText) : p = Before(line, Space)
  <2>1. line \in Seq(LineText)  BY DEF Texts
  <2>2. Before(line, Space) \in Seq(LineText)  BY <2>1, PartsAreSeqs
  <2>. QED  BY <2>2
<1>8. Append(p, Space) \in Seq(LineText)  BY <1>1
<1>3. PICK q \in Seq(LineText) : q = Append(p, Space)  BY <1>8
<1>4. q \o str \in Seq(LineText) /\ Len(q \o str) \in Nat  BY DEF Texts
<1>5. After(line, Space) \in Seq(LineText)  BY PartsAreSeqs DEF Texts
<1>6. NameIn(line) \in Seq(LineText)  BY <1>5, PartsAreSeqs DEF NameIn
<1>7. Len(line) \in Nat  BY DEF Texts
<1>. QED  BY <1>2, <1>3, <1>4, <1>6, <1>7 DEF NewLine, Texts

(* What is asked for are names, and at least one is to be found. *)
LEMMA RequestsAre ==
    ASSUME NEW request \in Requests
    PROVE  request.names \subseteq Paths /\ request.limit \in Nat \ {0}
  BY DEF Requests

(* What one line does to the scan *)
LEMMA ScanLineIs ==
    ASSUME NEW acc \in Scans, NEW line \in Texts, NEW request \in Requests, NEW str \in Texts
    PROVE  LET next == ScanLine(acc, line, request, str)
           IN /\ next \in Scans
              /\ \/ next.lines = acc.lines
                 \/ \E x \in Texts : next.lines = Append(acc.lines, x)
              /\ acc.found = request.limit \/ acc.skip =>
                    /\ next.lines = Append(acc.lines, line) /\ next.found = acc.found
                    /\ next.removed = acc.removed /\ ~next.skip
              /\ ~(acc.found = request.limit \/ acc.skip) /\ Len(line) <= 1 =>
                    /\ next.lines = acc.lines /\ next.found = acc.found
                    /\ next.removed = acc.removed + 1 /\ next.skip
              /\ ~(acc.found = request.limit \/ acc.skip) /\ Len(line) >= 2 =>
                    /\ ~next.skip
                    /\ NameIn(line) \notin request.names =>
                          /\ next.lines = Append(acc.lines, line) /\ next.found = acc.found
                          /\ next.removed = acc.removed
                    /\ NameIn(line) \in request.names =>
                          /\ next.lines = Append(acc.lines, NewLine(line, str))
                          /\ next.found = acc.found + 1
                          /\ next.removed =
                                acc.removed + Len(line) + 2 - Len(NewLine(line, str))
<1>. DEFINE next == ScanLine(acc, line, request, str)
            new == NewLine(line, str)
<1>1. /\ acc.lines \in Seq(Texts) /\ acc.found \in Nat /\ acc.removed \in Int
      /\ acc.skip \in BOOLEAN
      /\ acc = [lines |-> acc.lines, found |-> acc.found, removed |-> acc.removed,
                skip |-> acc.skip]
  BY DEF Scans
<1>2. new \in Texts /\ Len(new) \in Nat /\ Len(line) \in Nat  BY NewLineIs
<1>3. \A x \in Texts : Append(acc.lines, x) \in Seq(Texts)  BY <1>1
<1>4. next = IF acc.found = request.limit \/ acc.skip
             THEN [acc EXCEPT !.lines = Append(@, line), !.skip = FALSE]
             ELSE IF Len(line) <= 1
             THEN [acc EXCEPT !.removed = @ + 1, !.skip = TRUE]
             ELSE IF NameIn(line) \in request.names
             THEN [acc EXCEPT !.lines = Append(@, new), !.found = @ + 1,
                              !.removed = @ + (Len(line) + 1) - (Len(new) - 1)]
             ELSE [acc EXCEPT !.lines = Append(@, line)]
  BY DEF ScanLine, NameIn, NewLine
<1>. HIDE DEF next, new
<1>5. CASE acc.found = request.limit \/ acc.skip
  <2>. DEFINE l == Append(acc.lines, line)
  <2>1. l \in Seq(Texts)  BY <1>3
  <2>2. next = [acc EXCEPT !.lines = l, !.skip = FALSE]  BY <1>4, <1>5
  <2>. HIDE DEF l
  <2>3. next = [lines |-> l, found |-> acc.found, removed |-> acc.removed, skip |-> FALSE]
    BY <1>1, <2>2
  <2>4. /\ next.lines = l /\ next.found = acc.found /\ next.removed = acc.removed /\ ~next.skip
        /\ next \in Scans
    BY <1>1, <2>1, <2>3 DEF Scans
  <2>. QED  BY <1>5, <2>4 DEF l, next
<1>6. CASE ~(acc.found = request.limit \/ acc.skip) /\ Len(line) <= 1
  <2>1. next = [acc EXCEPT !.removed = @ + 1, !.skip = TRUE]  BY <1>4, <1>6
  <2>2. next = [lines |-> acc.lines, found |-> acc.found, removed |-> acc.removed + 1,
                skip |-> TRUE]
    BY <1>1, <2>1
  <2>3. /\ next.lines = acc.lines /\ next.found = acc.found /\ next.removed = acc.removed + 1
        /\ next.skip /\ next \in Scans
    BY <1>1, <2>2 DEF Scans
  <2>. QED  BY <1>2, <1>6, <2>3 DEF next
<1>7. CASE ~(acc.found = request.limit \/ acc.skip) /\ ~(Len(line) <= 1)
           /\ NameIn(line) \in request.names
  <2>. DEFINE l == Append(acc.lines, new)
              r == acc.removed + (Len(line) + 1) - (Len(new) - 1)
  <2>1. l \in Seq(Texts)  BY <1>2, <1>3
  <2>2. r \in Int /\ r = acc.removed + Len(line) + 2 - Len(new)  BY <1>1, <1>2
  <2>3. next = [acc EXCEPT !.lines = l, !.found = @ + 1, !.removed = r]  BY <1>4, <1>7
  <2>. HIDE DEF l, r
  <2>4. next = [lines |-> l, found |-> acc.found + 1, removed |-> r, skip |-> acc.skip]
    BY <1>1, <2>3
  <2>5. next.lines = l /\ next.found = acc.found + 1 /\ next.removed = r /\ next.skip = acc.skip
    BY <2>4
  <2>6. next \in Scans  BY <1>1, <2>1, <2>2, <2>4 DEF Scans
  <2>. QED  BY <1>2, <1>7, <2>2, <2>5, <2>6 DEF l, next, new
<1>8. CASE ~(acc.found = request.limit \/ acc.skip) /\ ~(Len(line) <= 1)
           /\ NameIn(line) \notin request.names
  <2>. DEFINE l == Append(acc.lines, line)
  <2>1. l \in Seq(Texts)  BY <1>3
  <2>2. next = [acc EXCEPT !.lines = l]  BY <1>4, <1>8
  <2>. HIDE DEF l
  <2>3. next = [lines |-> l, found |-> acc.found, removed |-> acc.removed, skip |-> acc.skip]
    BY <1>1, <2>2
  <2>4. next.lines = l /\ next.found = acc.found /\ next.removed = acc.removed
        /\ next.skip = acc.skip /\ next \in Scans
    BY <1>1, <2>1, <2>3 DEF Scans
  <2>. QED  BY <1>8, <2>4 DEF l, next
<1>. QED  BY <1>5, <1>6, <1>7, <1>8

-----------------------------------------------------------------------------
(* Maps: the text of all lines, with no name behind it *)

(* The lines of these names, and where they end *)
LinesOf(ns) == [id \in Ids |-> LineOf(ns[id])]
Ends(ns) == [id \in 0 .. NumFiles |-> EndOf(ns, id)]
Named == [Ids -> WellFormed]

(* There is a line for each file id. *)
LEMMA LinesOfNames ==
    ASSUME NEW ns \in Named
    PROVE  /\ LinesOf(ns) \in Seq(Texts) /\ Len(LinesOf(ns)) = NumFiles
           /\ \A id \in Ids : LinesOf(ns)[id] = LineOf(ns[id]) /\ Len(LinesOf(ns)[id]) >= 2
<1>1. \A id \in Ids : LineOf(ns[id]) \in Texts /\ Len(LineOf(ns[id])) >= 2
  <2>1. TAKE id \in Ids
  <2>2. ns[id] \in WellFormed  BY DEF Named
  <2>3. LineOf(ns[id]) \in Texts /\ Len(LineOf(ns[id])) = Len(Text(ns[id])) + 2
        /\ Len(Text(ns[id])) \in Nat
    BY <2>2, LineOfIs
  <2>. QED  BY <2>3
<1>2. LinesOf(ns) \in [1 .. NumFiles -> Texts] /\ NumFiles \in Nat
  BY <1>1, NumFilesAssumption DEF LinesOf, Ids
<1>3. LinesOf(ns) \in Seq(Texts) /\ Len(LinesOf(ns)) = NumFiles  BY <1>2, MakesSeq
<1>4. \A id \in Ids : LinesOf(ns)[id] = LineOf(ns[id])  BY DEF LinesOf
<1>. QED  BY <1>1, <1>3, <1>4

(* Joined, they are a text that begins with them. *)
LEMMA EndsOfNames ==
    ASSUME NEW ns \in Named
    PROVE  /\ EndsAt(LinesOf(ns), Ends(ns))
           /\ Joined(LinesOf(ns)) \in Seq(Characters)
           /\ Len(Joined(LinesOf(ns))) = EndOf(ns, NumFiles)
           /\ Begins(Joined(LinesOf(ns)), LinesOf(ns), Ends(ns))
<1>. DEFINE lines == LinesOf(ns)
<1>1. lines \in Seq(Texts) /\ Len(lines) = NumFiles /\ NumFiles \in Nat
  BY LinesOfNames, NumFilesAssumption
<1>. HIDE DEF lines
<1>2. lines \in Seq(Seq(Characters)) /\ NL \in Characters
  <2>1. Texts \subseteq Seq(Characters)  BY DEF Texts, LineText
  <2>. QED  BY <1>1, <2>1 DEF Characters
<1>3. PICK at : /\ EndsAt(lines, at)
                /\ Joined(lines) \in Seq(Characters)
                /\ Len(Joined(lines)) = at[Len(lines)]
                /\ Begins(Joined(lines), lines, at)
                /\ \A k \in 0 .. Len(lines) : at[k] = Len(Joined(SubSeq(lines, 1, k)))
  BY <1>2, JoinedBegins
<1>4. ASSUME NEW k \in 0 .. NumFiles PROVE EndOf(ns, k) = at[k]
  <2>1. SubSeq(lines, 1, k) = [i \in 1 .. k |-> LineOf(ns[i])]
    <3>1. k \in Nat /\ 1 .. k \subseteq 1 .. NumFiles  BY <1>1
    <3>2. SubSeq(lines, 1, k) = [i \in 1 .. k |-> lines[i]]  BY <1>1, <3>1
    <3>3. \A i \in 1 .. k : lines[i] = LineOf(ns[i])  BY <3>1 DEF lines, LinesOf, Ids
    <3>. QED  BY <3>2, <3>3
  <2>2. at[k] = Len(Joined(SubSeq(lines, 1, k)))  BY <1>1, <1>3
  <2>. QED  BY <2>1, <2>2 DEF EndOf
<1>5. at = Ends(ns)
  <2>1. at \in [0 .. NumFiles -> Nat]  BY <1>1, <1>3 DEF EndsAt
  <2>. QED  BY <1>4, <2>1 DEF Ends
<1>6. NumFiles \in 0 .. NumFiles  BY <1>1
<1>7. at[NumFiles] = EndOf(ns, NumFiles)  BY <1>4, <1>6
<1>. QED  BY <1>1, <1>3, <1>5, <1>7 DEF lines

(* A line ends its own length and a newline behind the one before it. *)
LEMMA EndStep ==
    ASSUME NEW ns \in Named
    PROVE  /\ EndOf(ns, 0) = 0
           /\ \A id \in 0 .. NumFiles : EndOf(ns, id) \in Nat /\ Ends(ns)[id] = EndOf(ns, id)
           /\ \A id \in Ids : /\ EndOf(ns, id) = EndOf(ns, id - 1) + Len(LineOf(ns[id])) + 1
                              /\ id - 1 \in 0 .. NumFiles /\ id \in 0 .. NumFiles
                              /\ Len(LineOf(ns[id])) \in Nat
           /\ \A k \in 0 .. NumFiles : \A i \in 0 .. k : EndOf(ns, i) <= EndOf(ns, k)
<1>. DEFINE at == Ends(ns)
            lines == LinesOf(ns)
<1>1. NumFiles \in Nat /\ 0 \in 0 .. NumFiles  BY NumFilesAssumption
<1>2. EndsAt(lines, at) /\ lines \in Seq(Texts) /\ Len(lines) = NumFiles
  BY EndsOfNames, LinesOfNames
<1>3. \A id \in 0 .. NumFiles : at[id] = EndOf(ns, id)  BY DEF Ends
<1>4. \A id \in Ids : lines[id] = LineOf(ns[id])  BY LinesOfNames
<1>. HIDE DEF at, lines
<1>5. at \in [0 .. NumFiles -> Nat] /\ at[0] = 0
      /\ \A id \in Ids : at[id] = at[id - 1] + Len(lines[id]) + 1
  BY <1>2 DEF EndsAt, Ids
<1>6. \A id \in Ids : id - 1 \in 0 .. NumFiles /\ id \in 0 .. NumFiles  BY <1>1 DEF Ids
<1>7. \A id \in Ids : Len(lines[id]) \in Nat
  <2>1. TAKE id \in Ids
  <2>2. lines[id] \in Seq(LineText)  BY <1>2 DEF Texts, Ids
  <2>. QED  BY <2>2
<1>8. \A k \in 0 .. NumFiles : \A i \in 0 .. k : at[i] <= at[k]
  <2>1. lines \in Seq(Seq(LineText))  BY <1>2 DEF Texts
  <2>. QED  BY <1>2, <2>1, EndsGrow
<1>9. \A id \in Ids : EndOf(ns, id) = EndOf(ns, id - 1) + Len(LineOf(ns[id])) + 1
  BY <1>3, <1>4, <1>5, <1>6
<1>10. \A k \in 0 .. NumFiles : \A i \in 0 .. k : EndOf(ns, i) <= EndOf(ns, k)
  <2>1. \A k \in 0 .. NumFiles : \A i \in 0 .. k : i \in 0 .. NumFiles  BY <1>1
  <2>. QED  BY <1>3, <1>8, <2>1
<1>11. EndOf(ns, 0) = 0  BY <1>1, <1>3, <1>5
<1>12. \A id \in 0 .. NumFiles : EndOf(ns, id) \in Nat  BY <1>3, <1>5
<1>. QED  BY <1>3, <1>4, <1>6, <1>7, <1>9, <1>10, <1>11, <1>12 DEF at

-----------------------------------------------------------------------------
(* Who is asked for *)

(* The ids with a name that is asked for, and how many there are up to i *)
Asked(request) == {id \in Ids : names[id].file \in request.names}
CountTo(request, i) == Cardinality({j \in Asked(request) : j <= i})

(* Each id that is asked for counts one more. *)
LEMMA CountStep ==
    ASSUME NEW request
    PROVE  /\ CountTo(request, 0) = 0
           /\ \A i \in 0 .. NumFiles : CountTo(request, i) \in Nat
           /\ \A i \in Ids : CountTo(request, i) = IF i \in Asked(request)
                                                    THEN CountTo(request, i - 1) + 1
                                                    ELSE CountTo(request, i - 1)
<1>. DEFINE A == Asked(request)
            U(i) == {j \in A : j <= i}
<1>1. A \subseteq Ids /\ NumFiles \in Nat  BY NumFilesAssumption DEF Asked
<1>2. IsFiniteSet(Ids)  BY <1>1, FS_Interval DEF Ids
<1>. HIDE DEF A
<1>3. \A i : IsFiniteSet(U(i))
  <2>1. \A i : U(i) \subseteq Ids  BY <1>1
  <2>. HIDE DEF U
  <2>. QED  BY <1>2, <2>1, FS_Subset
<1>4. \A i : Cardinality(U(i)) \in Nat  BY <1>3, FS_CardinalityType
<1>8. \A j \in Ids : j \in Nat /\ j >= 1  BY <1>1 DEF Ids
<1>9. \A j \in A : j \in Nat /\ j >= 1  BY <1>1, <1>8
<1>5. U(0) = {}  BY <1>9
<1>6. Cardinality(U(0)) = 0  BY <1>5, FS_EmptySet
<1>7. ASSUME NEW i \in Ids
      PROVE  Cardinality(U(i)) = IF i \in A THEN Cardinality(U(i - 1)) + 1
                                 ELSE Cardinality(U(i - 1))
  <2>1. CASE i \in A
    <3>1. U(i) = U(i - 1) \cup {i} /\ i \notin U(i - 1)  BY <1>9, <2>1
    <3>2. IsFiniteSet(U(i - 1))  BY <1>3
    <3>. HIDE DEF U
    <3>3. Cardinality(U(i - 1) \cup {i}) = Cardinality(U(i - 1)) + 1
      BY <3>1, <3>2, FS_AddElement
    <3>. QED  BY <2>1, <3>1, <3>3
  <2>2. CASE i \notin A
    <3>1. U(i) = U(i - 1)  BY <1>8, <1>9, <2>2
    <3>. QED  BY <2>2, <3>1
  <2>. QED  BY <2>1, <2>2
<1>. QED  BY <1>4, <1>6, <1>7 DEF CountTo, A

(* The renaming, by that count: the first limit ids get the new string. *)
LEMMA RenamingIs ==
    ASSUME names \in Names, NEW request \in Requests, NEW str \in Replacements
    PROVE  /\ Renaming(request, str) \in Names
           /\ \A id \in Ids : Renaming(request, str)[id] =
                 IF id \in Asked(request) /\ CountTo(request, id) <= request.limit
                 THEN Candidate(str) ELSE names[id]
<1>. DEFINE R == Renaming(request, str)
            first == {id \in Asked(request) : CountTo(request, id) <= request.limit}
<1>1. R = [id \in Ids |-> IF id \in first THEN Candidate(str) ELSE names[id]]
  BY DEF Renaming, Asked, CountTo
<1>. HIDE DEF R
<1>2. \A id \in Ids : R[id] = IF id \in first THEN Candidate(str) ELSE names[id]  BY <1>1
<1>3. \A id \in Ids : R[id] \in Entries \cup {Candidate(s) : s \in Replacements}
  BY <1>2 DEF Names
<1>4. R \in Names  BY <1>1, <1>3 DEF Names
<1>5. ASSUME NEW id \in Ids
      PROVE  R[id] = IF id \in Asked(request) /\ CountTo(request, id) <= request.limit
                     THEN Candidate(str) ELSE names[id]
  BY <1>2
<1>. QED  BY <1>4, <1>5 DEF R

(* The text begins with the lines of the first k file ids. *)
BeginsTo(text, ns, k) ==
    /\ EndOf(ns, k) <= Len(text)
    /\ \A id \in 1 .. k : LineAt(text, LineOf(ns[id]), EndOf(ns, id - 1))

(* The text is the map of these names: behind their lines no name follows. *)
IsMap(text, ns) ==
    /\ Len(text) >= EndOf(ns, NumFiles)
    /\ \A i \in 1 .. Len(text) :
          IF i <= EndOf(ns, NumFiles) THEN text[i] = Joined(LinesOf(ns))[i]
          ELSE text[i] \in {NL, NUL}

(* Of a text that begins with the lines of k names, split makes these      *)
(* lines first.                                                            *)
LEMMA SplitBegins ==
    ASSUME NEW ns \in Named, NEW text \in Seq(Characters), NEW k \in 0 .. NumFiles,
           BeginsTo(text, ns, k)
    PROVE  /\ Split(text) \in Seq(Texts) /\ Len(Split(text)) >= k + 1
           /\ \A i \in 1 .. k : Split(text)[i] = LineOf(ns[i])
           /\ \A i \in k + 1 .. Len(Split(text)) : \A j \in 1 .. Len(Split(text)[i]) :
                 \E p \in 1 .. Len(text) : p > EndOf(ns, k) /\ Split(text)[i][j] = text[p]
<1>. DEFINE lines == [i \in 1 .. k |-> LineOf(ns[i])]
            at == [i \in 0 .. k |-> EndOf(ns, i)]
<1>1. k \in Nat /\ 1 .. k \subseteq Ids /\ 0 .. k \subseteq 0 .. NumFiles /\ k \in 0 .. k
  BY NumFilesAssumption DEF Ids
<1>2. \A i \in 1 .. k : LineOf(ns[i]) \in Texts
  <2>1. \A id \in Ids : LineOf(ns[id]) \in Texts
    <3>1. \A id \in Ids : ns[id] \in WellFormed  BY DEF Named
    <3>. QED  BY <3>1, LineOfIs
  <2>. QED  BY <1>1, <2>1
<1>3. lines \in Seq(Texts) /\ Len(lines) = k
  <2>1. lines \in [1 .. k -> Texts]  BY <1>2
  <2>. HIDE DEF lines
  <2>. QED  BY <1>1, <2>1, MakesSeq
<1>4. \A i \in 1 .. k : lines[i] = LineOf(ns[i])  OBVIOUS
<1>5. \A i \in 0 .. k : at[i] = EndOf(ns, i) /\ EndOf(ns, i) \in Nat
  BY <1>1, EndStep
<1>6. at \in [0 .. k -> Nat] /\ at[0] = 0
  <2>1. 0 \in 0 .. k  BY <1>1
  <2>2. at[0] = 0  BY <1>5, <2>1, EndStep
  <2>. QED  BY <1>5, <2>2
<1>. HIDE DEF lines, at
<1>7. \A i \in 1 .. k : i - 1 \in 0 .. k /\ i \in 0 .. k  BY <1>1
<1>8. \A i \in 1 .. k : EndOf(ns, i) = EndOf(ns, i - 1) + Len(LineOf(ns[i])) + 1
  BY <1>1, EndStep
<1>9. EndsAt(lines, at)  BY <1>3, <1>4, <1>5, <1>6, <1>7, <1>8 DEF EndsAt
<1>10. Begins(text, lines, at)
  <2>1. at[k] <= Len(text)  BY <1>1, <1>5 DEF BeginsTo
  <2>2. \A i \in 1 .. k : LineAt(text, lines[i], at[i - 1])
    BY <1>4, <1>5, <1>7 DEF BeginsTo
  <2>. QED  BY <1>3, <2>1, <2>2 DEF Begins
<1>11. at[k] = EndOf(ns, k)  BY <1>1, <1>5
<1>12. /\ Split(text) \in Seq(Texts) /\ Len(Split(text)) >= Len(lines) + 1
       /\ \A i \in 1 .. Len(lines) : Split(text)[i] = lines[i]
       /\ \A i \in Len(lines) + 1 .. Len(Split(text)) : \A j \in 1 .. Len(Split(text)[i]) :
                 \E p \in 1 .. Len(text) : p > at[Len(lines)] /\ Split(text)[i][j] = text[p]
  BY <1>3, <1>9, <1>10, SplitIs
<1>13. Len(lines) = k /\ at[Len(lines)] = EndOf(ns, k)  BY <1>3, <1>11
<1>. QED  BY <1>4, <1>12, <1>13

(* Whoever reads it finds the first k names. *)
LEMMA ReadIs ==
    ASSUME NEW ns \in Named, NEW text \in Seq(Characters), NEW k \in 0 .. NumFiles,
           BeginsTo(text, ns, k)
    PROVE  /\ Len(FilesOf(text)) >= k /\ Len(FilesOf(text)) \in Nat
           /\ \A id \in 1 .. k : /\ Candidate(FilesOf(text)[id]) = ns[id]
                                 /\ FileList(text)[id] = LineOf(ns[id])
<1>1. /\ Split(text) \in Seq(Texts) /\ Len(Split(text)) >= k + 1
      /\ \A i \in 1 .. k : Split(text)[i] = LineOf(ns[i])
  BY SplitBegins
<1>2. k \in Nat /\ k <= Len(Split(text)) /\ 1 .. k \subseteq Ids
  <2>1. Len(Split(text)) \in Nat  BY <1>1
  <2>. QED  BY <1>1, <2>1, NumFilesAssumption DEF Ids
<1>3. \A i \in Ids : ns[i] \in WellFormed  BY DEF Named
<1>4. \A i \in 1 .. k : /\ Len(LineOf(ns[i])) >= 2 /\ After(LineOf(ns[i]), Space) = Text(ns[i])
                        /\ Candidate(Text(ns[i])) = ns[i]
  <2>1. TAKE i \in 1 .. k
  <2>2. ns[i] \in WellFormed  BY <1>2, <1>3
  <2>3. /\ Len(LineOf(ns[i])) = Len(Text(ns[i])) + 2 /\ Len(Text(ns[i])) \in Nat
        /\ After(LineOf(ns[i]), Space) = Text(ns[i])
    BY <2>2, LineOfIs
  <2>4. Candidate(Text(ns[i])) = ns[i]  BY <2>2, TextIs
  <2>. QED  BY <2>3, <2>4
<1>5. \A i \in 1 .. k : Len(Split(text)[i]) >= 2  BY <1>1, <1>4
<1>6. /\ Len(FilesOf(text)) >= k /\ Len(FilesOf(text)) \in Nat
      /\ \A i \in 1 .. k : FilesOf(text)[i] = After(Split(text)[i], Space)
  BY <1>1, <1>2, <1>5, FilesAre
<1>7. \A i \in 1 .. k : FileList(text)[i] = Split(text)[i]
  BY <1>1, <1>2, <1>5, ListIs
<1>. QED  BY <1>1, <1>4, <1>6, <1>7

(* A map begins with all its lines. *)
LEMMA MapBegins ==
    ASSUME NEW ns \in Named, NEW text \in Seq(Characters), IsMap(text, ns)
    PROVE  BeginsTo(text, ns, NumFiles)
<1>. DEFINE J == Joined(LinesOf(ns))
            e == EndOf(ns, NumFiles)
<1>1. NumFiles \in Nat /\ NumFiles \in 0 .. NumFiles  BY NumFilesAssumption
<1>2. e \in Nat /\ e <= Len(text) /\ Len(text) \in Nat  BY <1>1, EndStep DEF IsMap
<1>3. \A i \in 1 .. e : text[i] = J[i]
  <2>1. \A i \in 1 .. e : i \in 1 .. Len(text) /\ i <= e  BY <1>2
  <2>. QED  BY <2>1 DEF IsMap
<1>4. Begins(J, LinesOf(ns), Ends(ns)) /\ Len(LinesOf(ns)) = NumFiles
      /\ \A id \in Ids : LinesOf(ns)[id] = LineOf(ns[id])
  BY EndsOfNames, LinesOfNames
<1>. HIDE DEF J
<1>5. ASSUME NEW id \in 1 .. NumFiles PROVE LineAt(text, LineOf(ns[id]), EndOf(ns, id - 1))
  <2>1. id \in Ids /\ id - 1 \in 0 .. NumFiles /\ id \in 0 .. NumFiles  BY <1>1 DEF Ids
  <2>2. LineAt(J, LinesOf(ns)[id], Ends(ns)[id - 1])  BY <1>4 DEF Begins
  <2>3. PICK p \in Nat : p = EndOf(ns, id - 1) /\ Ends(ns)[id - 1] = p  BY <2>1, EndStep
  <2>4. PICK line : line = LineOf(ns[id]) /\ Len(line) \in Nat /\ p + Len(line) + 1 = EndOf(ns, id)
    BY <2>1, <2>3, EndStep
  <2>5. EndOf(ns, id) <= e  BY <1>1, <2>1, EndStep
  <2>6. LineAt(J, line, p)  BY <1>4, <2>1, <2>2, <2>3, <2>4
  <2>7. ASSUME NEW j \in 1 .. Len(line) PROVE text[p + j] = line[j]
    <3>1. p + j \in 1 .. e  BY <1>2, <2>4, <2>5
    <3>2. J[p + j] = line[j]  BY <2>6 DEF LineAt
    <3>. QED  BY <1>3, <3>1, <3>2
  <2>8. text[p + Len(line) + 1] = NL
    <3>1. p + Len(line) + 1 \in 1 .. e  BY <1>2, <2>4, <2>5
    <3>2. J[p + Len(line) + 1] = NL  BY <2>6 DEF LineAt
    <3>. QED  BY <1>3, <3>1, <3>2
  <2>. QED  BY <2>3, <2>4, <2>7, <2>8 DEF LineAt
<1>. QED  BY <1>2, <1>5 DEF BeginsTo

(* A text that begins with them and has no name behind them is a map. *)
LEMMA BeginsMap ==
    ASSUME NEW ns \in Named, NEW text \in Seq(Characters), BeginsTo(text, ns, NumFiles),
           \A i \in 1 .. Len(text) : i > EndOf(ns, NumFiles) => text[i] \in {NL, NUL}
    PROVE  IsMap(text, ns)
<1>. DEFINE J == Joined(LinesOf(ns))
            e == EndOf(ns, NumFiles)
<1>1. NumFiles \in Nat /\ NumFiles \in 0 .. NumFiles  BY NumFilesAssumption
<1>2. e \in Nat /\ e <= Len(text) /\ Len(text) \in Nat  BY <1>1, EndStep DEF BeginsTo
<1>3. Begins(J, LinesOf(ns), Ends(ns)) /\ Len(LinesOf(ns)) = NumFiles
      /\ \A id \in Ids : LinesOf(ns)[id] = LineOf(ns[id])
  BY EndsOfNames, LinesOfNames
<1>. HIDE DEF J
<1>4. ASSUME NEW i \in 1 .. e PROVE text[i] = J[i]
  <2>. DEFINE at == Ends(ns)
  <2>1. at \in [0 .. NumFiles -> Nat] /\ at[0] = 0 /\ at[NumFiles] = e
    BY <1>1, EndStep DEF Ends
  <2>. HIDE DEF at
  <2>2. PICK id \in 1 .. NumFiles : at[id - 1] < i /\ i <= at[id]
    BY <1>1, <2>1, InWhich
  <2>3. id \in Ids /\ id - 1 \in 0 .. NumFiles /\ id \in 0 .. NumFiles  BY <1>1 DEF Ids
  <2>4. PICK p \in Nat : p = EndOf(ns, id - 1) /\ at[id - 1] = p  BY <2>3, EndStep DEF at
  <2>5. PICK line : line = LineOf(ns[id]) /\ Len(line) \in Nat /\ p + Len(line) + 1 = at[id]
    BY <2>3, <2>4, EndStep DEF at
  <2>6. LineAt(J, line, p)
    <3>1. LineAt(J, LinesOf(ns)[id], Ends(ns)[id - 1])  BY <1>3 DEF Begins
    <3>. QED  BY <1>3, <2>3, <2>4, <2>5, <3>1 DEF at
  <2>7. LineAt(text, line, p)  BY <2>4, <2>5 DEF BeginsTo
  <2>8. PICK j \in Nat : j = i - p /\ i = p + j /\ j >= 1 /\ j <= Len(line) + 1
    <3>1. i \in Nat /\ p < i /\ i <= p + Len(line) + 1  BY <1>2, <2>2, <2>4, <2>5
    <3>. QED  BY <2>5, <3>1
  <2>9. CASE j <= Len(line)
    <3>1. j \in 1 .. Len(line)  BY <2>5, <2>8, <2>9
    <3>. QED  BY <2>6, <2>7, <2>8, <3>1 DEF LineAt
  <2>10. CASE j > Len(line)
    <3>1. j = Len(line) + 1  BY <2>5, <2>8, <2>10
    <3>2. i = p + Len(line) + 1  BY <2>5, <2>8, <3>1
    <3>. QED  BY <2>6, <2>7, <3>2 DEF LineAt
  <2>. QED  BY <2>5, <2>8, <2>9, <2>10
<1>5. \A i \in 1 .. Len(text) : i <= e => i \in 1 .. e  BY <1>2
<1>6. \A i \in 1 .. Len(text) : ~(i <= e) => i > e  BY <1>2
<1>. QED  BY <1>2, <1>4, <1>5, <1>6 DEF IsMap, J

(* What split makes of a map: the lines, and then NULs *)
LEMMA SplitMap ==
    ASSUME NEW ns \in Named, NEW text \in Seq(Characters), IsMap(text, ns)
    PROVE  /\ Split(text) \in Seq(Texts) /\ Len(Split(text)) >= NumFiles + 1
           /\ \A i \in 1 .. NumFiles : Split(text)[i] = LineOf(ns[i])
           /\ \A i \in NumFiles + 1 .. Len(Split(text)) :
                 \A j \in 1 .. Len(Split(text)[i]) : Split(text)[i][j] = NUL
<1>. DEFINE s == Split(text)
<1>1. NumFiles \in 0 .. NumFiles /\ NumFiles \in Nat  BY NumFilesAssumption
<1>2. BeginsTo(text, ns, NumFiles)  BY MapBegins
<1>3. /\ s \in Seq(Texts) /\ Len(s) >= NumFiles + 1
      /\ \A i \in 1 .. NumFiles : s[i] = LineOf(ns[i])
      /\ \A i \in NumFiles + 1 .. Len(s) : \A j \in 1 .. Len(s[i]) :
                 \E p \in 1 .. Len(text) : p > EndOf(ns, NumFiles) /\ s[i][j] = text[p]
  BY <1>1, <1>2, SplitBegins
<1>. HIDE DEF s
<1>4. ASSUME NEW i \in NumFiles + 1 .. Len(s), NEW j \in 1 .. Len(s[i]) PROVE s[i][j] = NUL
  <2>1. PICK p \in 1 .. Len(text) : p > EndOf(ns, NumFiles) /\ s[i][j] = text[p]  BY <1>3
  <2>2. text[p] \in {NL, NUL}
    <3>1. ~(p <= EndOf(ns, NumFiles))
      <4>1. EndOf(ns, NumFiles) \in Nat  BY <1>1, EndStep
      <4>. QED  BY <2>1, <4>1
    <3>. QED  BY <3>1 DEF IsMap
  <2>3. s[i][j] \in LineText
    <3>1. i \in 1 .. Len(s)  BY <1>1, <1>3
    <3>2. s[i] \in Seq(LineText)  BY <1>3, <3>1 DEF Texts
    <3>. QED  BY <3>2
  <2>. QED  BY <2>1, <2>2, <2>3 DEF LineText
<1>. QED  BY <1>3, <1>4 DEF s

(* The scan, line by line *)
LEMMA ScanSteps ==
    ASSUME Split(region) \in Seq(Texts), NEW request \in Requests, NEW str \in Texts
    PROVE  \E f : /\ f \in [0 .. Len(Split(region)) -> Scans]
                  /\ f[0] = [lines |-> <<>>, found |-> 0, removed |-> 0, skip |-> FALSE]
                  /\ \A i \in 1 .. Len(Split(region)) :
                        f[i] = ScanLine(f[i - 1], Split(region)[i], request, str)
                  /\ Scan(request, str) = f[Len(Split(region))]
<1>. DEFINE s == Split(region)
            n == Len(s)
            c == [lines |-> <<>>, found |-> 0, removed |-> 0, skip |-> FALSE]
            Body(f) == [i \in 0 .. n |-> IF i = 0 THEN c ELSE ScanLine(f[i - 1], s[i], request, str)]
            scanned == CHOOSE f : f = Body(f)
            F == [i \in 1 .. n |-> [a \in Scans |-> ScanLine(a, s[i], request, str)]]
<1>1. Scan(request, str) = scanned[n]  BY DEF Scan
<1>2. s \in Seq(Texts) /\ n \in Nat /\ \A i \in 1 .. n : s[i] \in Texts  OBVIOUS
<1>. HIDE DEF s
<1>3. c \in Scans
  <2>1. <<>> \in Seq(Texts)  OBVIOUS
  <2>. QED  BY <2>1 DEF Scans
<1>4. \A a \in Scans, i \in 1 .. n : ScanLine(a, s[i], request, str) \in Scans
  BY <1>2, ScanLineIs
<1>5. F \in [1 .. n -> [Scans -> Scans]]  BY <1>4
<1>6. PICK f : StepsTo(f, Scans, c, n, F)
  <2>. HIDE DEF F, c, n
  <2>. QED  BY <1>2, <1>3, <1>5, RecursionTo DEF n
<1>. HIDE DEF c
<1>7. f \in [0 .. n -> Scans] /\ f[0] = c /\ \A i \in 1 .. n : f[i] = F[i][f[i - 1]]
  BY <1>6 DEF StepsTo
<1>8. \A i \in 1 .. n : i - 1 \in 0 .. n /\ f[i - 1] \in Scans
  <2>1. \A i \in 1 .. n : i - 1 \in 0 .. n  BY <1>2
  <2>2. \A i \in 0 .. n : f[i] \in Scans  BY <1>7
  <2>. QED  BY <2>1, <2>2
<1>9. \A i \in 1 .. n : f[i] = ScanLine(f[i - 1], s[i], request, str)
  <2>1. \A i \in 1 .. n, a \in Scans : F[i][a] = ScanLine(a, s[i], request, str)  OBVIOUS
  <2>. HIDE DEF F
  <2>. QED  BY <1>7, <1>8, <2>1
<1>10. f = Body(f)  BY <1>2, <1>7, <1>9
<1>11. scanned = Body(scanned)  BY <1>10
<1>. HIDE DEF scanned, F
<1>12. \A i \in 0 .. n :
          scanned[i] = IF i = 0 THEN c ELSE ScanLine(scanned[i - 1], s[i], request, str)
  BY <1>11
<1>. HIDE DEF Body
<1>. DEFINE T == {i \in Nat : scanned[i] = f[i]}
<1>13. 0 \in T
  <2>1. 0 \in 0 .. n  BY <1>2
  <2>2. scanned[0] = c  BY <1>12, <2>1
  <2>. QED  BY <1>7, <2>2
<1>14. ASSUME NEW i \in 1 .. n, i - 1 \in T PROVE i \in T
  <2>1. i \in 0 .. n /\ i # 0 /\ i \in Nat  BY <1>2
  <2>2. scanned[i] = ScanLine(scanned[i - 1], s[i], request, str)  BY <1>12, <2>1
  <2>3. scanned[i - 1] = f[i - 1]  BY <1>14
  <2>. QED  BY <1>9, <2>1, <2>2, <2>3
<1>15. scanned[n] = f[n]
  <2>1. \A i \in 0 .. n : i \in T
    <3>. HIDE DEF T, n
    <3>. QED  BY <1>2, <1>13, <1>14, InductionTo DEF n
  <2>2. n \in 0 .. n  BY <1>2
  <2>. QED  BY <2>1, <2>2
<1>. QED  BY <1>1, <1>7, <1>9, <1>15 DEF c, s

(* The line of a file: the name it has, and the line it gets *)
LEMMA NameInLine ==
    ASSUME NEW e \in WellFormed, NEW str \in Texts
    PROVE  NameIn(LineOf(e)) = e.file /\ NewLine(LineOf(e), str) = LineOf(Candidate(str))
<1>1. After(LineOf(e), Space) = Text(e)
      /\ Append(Before(LineOf(e), Space), Space) = <<Id, Space>>
  BY LineOfIs
<1>2. Before(Text(e), Comma) = e.file  BY TextIs
<1>3. Text(Candidate(str)) = str  BY CandidateIs
<1>. QED  BY <1>1, <1>2, <1>3 DEF NameIn, NewLine, LineOf

(* A line of NULs is no name that is asked for. *)
LEMMA NoNameInNULs ==
    ASSUME NEW line \in Texts, \A j \in 1 .. Len(line) : line[j] = NUL, Len(line) >= 2,
           NEW request \in Requests
    PROVE  NameIn(line) \notin request.names
<1>1. line \in Seq(LineText) /\ Len(line) \in Nat  BY DEF Texts
<1>2. \A j \in 1 .. Len(line) : line[j] # Space /\ line[j] # Comma
  BY DEF NUL, Space, Comma
<1>3. NameIn(line) = line  BY <1>1, <1>2, NothingToCut DEF NameIn
<1>4. SUFFICES ASSUME line \in Paths PROVE FALSE
  BY <1>3, RequestsAre
<1>5. 1 \in 1 .. Len(line)  BY <1>1
<1>6. line[1] # NUL  BY <1>4, <1>5, LettersLie
<1>. QED  BY <1>5, <1>6

(* found never passes the number of files to find. *)
Least(a, b) == IF a <= b THEN a ELSE b

(* One file: c files were asked for before it, d with it, and r is its new entry. *)
LEMMA ScanFile ==
    ASSUME NEW a \in Scans, NEW e \in WellFormed, NEW request \in Requests, NEW str \in Texts,
           NEW c \in Nat, NEW d, NEW r,
           ~a.skip, a.found = Least(c, request.limit),
           d = IF e.file \in request.names THEN c + 1 ELSE c,
           r = IF e.file \in request.names /\ d <= request.limit THEN Candidate(str) ELSE e
    PROVE  LET next == ScanLine(a, LineOf(e), request, str)
           IN /\ ~next.skip
              /\ next.lines = Append(a.lines, LineOf(r))
              /\ next.found = Least(d, request.limit)
              /\ next.removed = a.removed + Len(LineOf(e)) - Len(LineOf(r))
                                   + 2 * (next.found - a.found)
<1>. DEFINE line == LineOf(e)
            next == ScanLine(a, line, request, str)
            limit == request.limit
            x == Len(line)
            y == Len(LineOf(Candidate(str)))
<1>1. limit \in Nat \ {0}  BY RequestsAre
<1>2. line \in Texts /\ x \in Nat /\ x >= 2
  <2>1. line \in Texts /\ x = Len(Text(e)) + 2 /\ Len(Text(e)) \in Nat  BY LineOfIs
  <2>. QED  BY <2>1
<1>3. NameIn(line) = e.file /\ NewLine(line, str) = LineOf(Candidate(str))  BY NameInLine
<1>4. y \in Nat
  <2>1. Candidate(str) \in WellFormed  BY CandidateIs
  <2>2. y = Len(Text(Candidate(str))) + 2 /\ Len(Text(Candidate(str))) \in Nat  BY <2>1, LineOfIs
  <2>. QED  BY <2>2
<1>5. a.removed \in Int /\ a.found \in Nat /\ ~(a.skip)  BY DEF Scans
<1>6. /\ a.found = limit =>
            /\ next.lines = Append(a.lines, line) /\ next.found = a.found
            /\ next.removed = a.removed /\ ~next.skip
      /\ a.found # limit =>
            /\ ~next.skip
            /\ e.file \notin request.names =>
                  /\ next.lines = Append(a.lines, line) /\ next.found = a.found
                  /\ next.removed = a.removed
            /\ e.file \in request.names =>
                  /\ next.lines = Append(a.lines, LineOf(Candidate(str)))
                  /\ next.found = a.found + 1
                  /\ next.removed = a.removed + x + 2 - y
  <2>1. /\ a.found = limit \/ a.skip =>
              /\ next.lines = Append(a.lines, line) /\ next.found = a.found
              /\ next.removed = a.removed /\ ~next.skip
        /\ ~(a.found = limit \/ a.skip) /\ Len(line) >= 2 =>
              /\ ~next.skip
              /\ NameIn(line) \notin request.names =>
                    /\ next.lines = Append(a.lines, line) /\ next.found = a.found
                    /\ next.removed = a.removed
              /\ NameIn(line) \in request.names =>
                    /\ next.lines = Append(a.lines, NewLine(line, str))
                    /\ next.found = a.found + 1
                    /\ next.removed = a.removed + Len(line) + 2 - Len(NewLine(line, str))
    <3>. HIDE DEF line
    <3>. QED  BY <1>2, ScanLineIs
  <2>. HIDE DEF next, line, limit
  <2>. QED  BY <1>2, <1>3, <1>5, <2>1
<1>. HIDE DEF line, next, limit, x, y
<1>7. CASE a.found = limit
  <2>1. c >= limit  BY <1>1, <1>7 DEF Least, limit
  <2>2. e.file \in request.names => d > limit  BY <1>1, <2>1
  <2>3. r = e  BY <1>1, <2>2 DEF limit
  <2>4. Least(d, limit) = limit  BY <1>1, <2>1 DEF Least
  <2>5. next.found = Least(d, limit) /\ next.removed = a.removed /\ ~next.skip
        /\ next.lines = Append(a.lines, LineOf(r))
    BY <1>6, <1>7, <2>3, <2>4 DEF line
  <2>6. next.removed = a.removed + x - x + 2 * (next.found - a.found)
    <3>1. next.found - a.found = 0  BY <1>5, <1>6, <1>7
    <3>. QED  BY <1>2, <1>5, <2>5, <3>1
  <2>. QED  BY <2>3, <2>5, <2>6 DEF line, next, limit, x
<1>8. CASE a.found # limit /\ e.file \notin request.names
  <2>1. d = c /\ r = e  BY <1>8
  <2>2. next.found = Least(d, limit) /\ next.removed = a.removed /\ ~next.skip
        /\ next.lines = Append(a.lines, LineOf(r))
    BY <1>6, <1>8, <2>1 DEF line, limit
  <2>3. next.removed = a.removed + x - x + 2 * (next.found - a.found)
    <3>1. next.found - a.found = 0  BY <1>5, <1>6, <1>8
    <3>. QED  BY <1>2, <1>5, <2>2, <3>1
  <2>. QED  BY <2>1, <2>2, <2>3 DEF line, next, limit, x
<1>9. CASE a.found # limit /\ e.file \in request.names
  <2>1. c < limit /\ a.found = c  BY <1>1, <1>9 DEF Least, limit
  <2>2. d = c + 1 /\ d <= limit  BY <1>1, <1>9, <2>1
  <2>3. r = Candidate(str)  BY <1>9, <2>2 DEF limit
  <2>4. Least(d, limit) = d  BY <2>2 DEF Least
  <2>5. /\ ~next.skip /\ next.lines = Append(a.lines, LineOf(r))
        /\ next.found = a.found + 1 /\ next.removed = a.removed + x + 2 - y
    BY <1>6, <1>9, <2>3
  <2>6. next.found = Least(d, limit)  BY <2>1, <2>2, <2>4, <2>5
  <2>7. next.removed = a.removed + x - y + 2 * (next.found - a.found)
    <3>1. PICK z \in Int : z = a.removed  BY <1>5
    <3>2. PICK w \in Int : w = next.found - a.found /\ w = 1  BY <1>5, <2>5
    <3>3. next.removed = z + x + 2 - y  BY <2>5, <3>1
    <3>. QED  BY <1>2, <1>4, <3>1, <3>2, <3>3
  <2>. QED  BY <2>3, <2>5, <2>6, <2>7 DEF line, next, limit, x, y
<1>. QED  BY <1>7, <1>8, <1>9

(* A line of NULs alone, which the padding makes *)
OnlyNULs(line) == \A j \in 1 .. Len(line) : line[j] = NUL

(* A line behind the names changes nothing but the bytes to pad. *)
LEMMA ScanNULs ==
    ASSUME NEW a \in Scans, NEW line \in Texts, OnlyNULs(line), NEW request \in Requests,
           NEW str \in Texts
    PROVE  LET next == ScanLine(a, line, request, str)
           IN /\ next.lines = a.lines \/ next.lines = Append(a.lines, line)
              /\ next.removed >= a.removed
<1>. DEFINE next == ScanLine(a, line, request, str)
<1>1. a.removed \in Int /\ Len(line) \in Nat  BY DEF Scans, Texts
<1>2. Len(line) >= 2 => NameIn(line) \notin request.names  BY NoNameInNULs DEF OnlyNULs
<1>3. /\ a.found = request.limit \/ a.skip =>
            next.lines = Append(a.lines, line) /\ next.removed = a.removed
      /\ ~(a.found = request.limit \/ a.skip) /\ Len(line) <= 1 =>
            next.lines = a.lines /\ next.removed = a.removed + 1
      /\ ~(a.found = request.limit \/ a.skip) /\ Len(line) >= 2 =>
            next.lines = Append(a.lines, line) /\ next.removed = a.removed
  <2>. HIDE DEF next
  <2>. QED  BY <1>2, ScanLineIs DEF next
<1>. HIDE DEF next
<1>4. Len(line) <= 1 \/ Len(line) >= 2  BY <1>1
<1>5. next.lines = a.lines \/ next.lines = Append(a.lines, line)  BY <1>3, <1>4
<1>6. next.removed = a.removed \/ next.removed = a.removed + 1  BY <1>3, <1>4
<1>7. next.removed >= a.removed  BY <1>1, <1>6
<1>. QED  BY <1>5, <1>7 DEF next

(* What bgextractfile makes of a map: the lines of the names asked for,    *)
(* then lines of NULs, and as many bytes to pad as the old lines need.     *)
LEMMA ScanIs ==
    ASSUME names \in Names, region \in Seq(Characters), IsMap(region, names),
           NEW request \in Requests, NEW str \in Replacements
    PROVE  LET scan == Scan(request, str)
               R == Renaming(request, str)
           IN /\ scan \in Scans /\ Len(scan.lines) >= NumFiles
              /\ \A id \in Ids : scan.lines[id] = LineOf(R[id])
              /\ \A i \in NumFiles + 1 .. Len(scan.lines) : OnlyNULs(scan.lines[i])
              /\ EndOf(names, NumFiles) <= EndOf(R, NumFiles) + scan.removed
<1>. DEFINE s == Split(region)
            n == Len(s)
            R == Renaming(request, str)
            cnt(i) == CountTo(request, i)
            limit == request.limit
<1>1. NumFiles \in Nat /\ str \in Texts /\ names \in Named /\ NumFiles \in 0 .. NumFiles
  BY NumFilesAssumption, LettersLie, NamesAre DEF Named
<1>2. R \in Named /\ \A id \in Ids : R[id] = IF id \in Asked(request) /\ cnt(id) <= limit
                                             THEN Candidate(str) ELSE names[id]
  <2>1. R \in Names  BY RenamingIs
  <2>2. R \in Named  BY <2>1, NamesAre DEF Named
  <2>. HIDE DEF R
  <2>. QED  BY <2>2, RenamingIs DEF R
<1>3. /\ s \in Seq(Texts) /\ n >= NumFiles + 1
      /\ \A i \in Ids : s[i] = LineOf(names[i])
      /\ \A i \in NumFiles + 1 .. n : OnlyNULs(s[i])
  BY <1>1, SplitMap DEF OnlyNULs, Ids
<1>4. n \in Nat /\ (\A i \in 1 .. n : s[i] \in Texts) /\ NumFiles \in 0 .. n /\ Ids \subseteq 1 .. n
  BY <1>1, <1>3 DEF Ids
<1>5. PICK f : /\ f \in [0 .. n -> Scans]
               /\ f[0] = [lines |-> <<>>, found |-> 0, removed |-> 0, skip |-> FALSE]
               /\ \A i \in 1 .. n : f[i] = ScanLine(f[i - 1], s[i], request, str)
               /\ Scan(request, str) = f[n]
  BY <1>1, <1>3, ScanSteps
<1>6. limit \in Nat \ {0}  BY RequestsAre
<1>7. /\ cnt(0) = 0
      /\ \A i \in 0 .. NumFiles : cnt(i) \in Nat
      /\ \A i \in Ids : cnt(i) = IF i \in Asked(request) THEN cnt(i - 1) + 1 ELSE cnt(i - 1)
  BY CountStep
<1>. HIDE DEF s, n, R, cnt, limit
<1>8. \A i \in 0 .. n : f[i] \in Scans  BY <1>5
<1>9. \A i \in Ids : i - 1 \in 0 .. n /\ i \in 0 .. n /\ i - 1 \in 0 .. NumFiles /\ i \in Nat
  BY <1>1, <1>4 DEF Ids
<1>. DEFINE P(i) == /\ ~f[i].skip
                    /\ f[i].found = Least(cnt(i), limit)
                    /\ f[i].removed = EndOf(names, i) - EndOf(R, i) + 2 * f[i].found
            T == {i \in Nat : P(i)}
<1>10. 0 \in T
  <2>1. f[0].found = 0 /\ f[0].removed = 0 /\ ~f[0].skip  BY <1>5
  <2>2. EndOf(names, 0) = 0 /\ EndOf(R, 0) = 0  BY <1>1, <1>2, EndStep
  <2>3. Least(cnt(0), limit) = 0  BY <1>6, <1>7 DEF Least
  <2>4. P(0)  BY <2>1, <2>2, <2>3
  <2>. QED  BY <2>4
<1>11. ASSUME NEW i \in Ids, P(i - 1)
       PROVE  P(i) /\ f[i].lines = Append(f[i - 1].lines, LineOf(R[i]))
  <2>1. PICK a \in Scans : a = f[i - 1]  BY <1>8, <1>9
  <2>2. PICK e \in WellFormed : e = names[i]  BY <1>1 DEF Named
  <2>3. PICK c \in Nat : c = cnt(i - 1)  BY <1>7, <1>9
  <2>4. PICK d : d = cnt(i)  OBVIOUS
  <2>5. PICK r : r = R[i]  OBVIOUS
  <2>6. i \in Asked(request) <=> e.file \in request.names  BY <2>2 DEF Asked
  <2>7. d = IF e.file \in request.names THEN c + 1 ELSE c  BY <1>7, <2>3, <2>4, <2>6
  <2>8. r = IF e.file \in request.names /\ d <= request.limit THEN Candidate(str) ELSE e
    BY <1>2, <2>2, <2>4, <2>5, <2>6 DEF limit
  <2>9. ~a.skip /\ a.found = Least(c, request.limit)
        /\ a.removed = EndOf(names, i - 1) - EndOf(R, i - 1) + 2 * a.found
    BY <1>11, <2>1, <2>3 DEF limit
  <2>10. f[i] = ScanLine(a, LineOf(e), request, str)
    <3>1. i \in 1 .. n  BY <1>4
    <3>. QED  BY <1>3, <1>5, <2>1, <2>2, <3>1
  <2>. HIDE DEF P
  <2>11. /\ ~f[i].skip
         /\ f[i].lines = Append(a.lines, LineOf(r))
         /\ f[i].found = Least(d, request.limit)
         /\ f[i].removed = a.removed + Len(LineOf(e)) - Len(LineOf(r)) + 2 * (f[i].found - a.found)
    BY <1>1, <2>7, <2>8, <2>9, <2>10, ScanFile
  <2>12. f[i].removed = EndOf(names, i) - EndOf(R, i) + 2 * f[i].found
    <3>1. PICK p \in Nat, q \in Nat, u \in Nat, v \in Nat :
             /\ p = EndOf(names, i - 1) /\ q = EndOf(R, i - 1)
             /\ u = Len(LineOf(e)) /\ v = Len(LineOf(r))
             /\ EndOf(names, i) = p + u + 1 /\ EndOf(R, i) = q + v + 1
      <4>1. i - 1 \in 0 .. NumFiles  BY <1>9
      <4>2. /\ EndOf(names, i - 1) \in Nat /\ Len(LineOf(names[i])) \in Nat
            /\ EndOf(names, i) = EndOf(names, i - 1) + Len(LineOf(names[i])) + 1
        BY <1>1, <4>1, EndStep
      <4>3. /\ EndOf(R, i - 1) \in Nat /\ Len(LineOf(R[i])) \in Nat
            /\ EndOf(R, i) = EndOf(R, i - 1) + Len(LineOf(R[i])) + 1
        BY <1>2, <4>1, EndStep
      <4>. QED  BY <2>2, <2>5, <4>2, <4>3
    <3>2. a.removed = p - q + 2 * a.found  BY <2>9, <3>1
    <3>3. f[i].removed = a.removed + u - v + 2 * (f[i].found - a.found)  BY <2>11, <3>1
    <3>4. a.found \in Nat /\ f[i].found \in Nat  BY <1>8, <1>9 DEF Scans
    <3>5. PICK x \in Nat, y \in Nat : x = a.found /\ y = f[i].found  BY <3>4
    <3>6. PICK z \in Int : z = a.removed  BY <2>1 DEF Scans
    <3>7. z = p - q + 2 * x  BY <3>2, <3>5, <3>6
    <3>8. f[i].removed = z + u - v + 2 * (y - x)  BY <3>3, <3>5, <3>6
    <3>9. f[i].removed = (p + u + 1) - (q + v + 1) + 2 * y  BY <3>7, <3>8
    <3>. QED  BY <3>1, <3>5, <3>9
  <2>. QED  BY <2>1, <2>4, <2>5, <2>11, <2>12 DEF P, limit
<1>12. \A i \in 0 .. NumFiles : P(i)
  <2>1. ASSUME NEW i \in 1 .. NumFiles, i - 1 \in T PROVE i \in T
    <3>1. P(i - 1) /\ i \in Ids /\ i \in Nat  BY <1>9, <2>1 DEF Ids
    <3>. HIDE DEF P
    <3>2. P(i)  BY <1>11, <3>1
    <3>. QED  BY <3>1, <3>2
  <2>. HIDE DEF T
  <2>2. \A i \in 0 .. NumFiles : i \in T  BY <1>1, <1>10, <2>1, InductionTo
  <2>. QED  BY <2>2 DEF T
<1>. HIDE DEF T
<1>. DEFINE L == [i \in 0 .. n |-> f[i].lines]
            K == [i \in 0 .. n |-> f[i].skip]
            g == [i \in 1 .. NumFiles |-> LineOf(R[i])]
<1>13. g \in [1 .. NumFiles -> Texts]
  <2>1. \A i \in Ids : R[i] \in WellFormed  BY <1>2 DEF Named
  <2>2. \A i \in Ids : LineOf(R[i]) \in Texts  BY <2>1, LineOfIs
  <2>. QED  BY <2>2 DEF Ids
<1>14. \A i \in 0 .. n : L[i] = f[i].lines /\ K[i] = f[i].skip  OBVIOUS
<1>15. \A i \in Ids : g[i] = LineOf(R[i])  BY DEF Ids
<1>16. L \in [0 .. n -> Seq(Texts)] /\ K \in [0 .. n -> BOOLEAN]
  BY <1>8 DEF Scans
<1>. HIDE DEF L, K, g
<1>17. KeepsLines(L, K, n, NumFiles, g)
  <2>1. L[0] = <<>> /\ ~K[0]
    <3>1. 0 \in 0 .. n  BY <1>4
    <3>. QED  BY <1>5, <1>14, <3>1
  <2>2. ASSUME NEW i \in 1 .. n
        PROVE  L[i] = L[i - 1] \/ \E x \in Texts : L[i] = Append(L[i - 1], x)
    <3>1. i \in 0 .. n /\ i - 1 \in 0 .. n  BY <1>4
    <3>2. PICK a \in Scans : a = f[i - 1] /\ a.lines = L[i - 1]  BY <1>8, <1>14, <3>1
    <3>3. PICK line \in Texts : line = s[i] /\ f[i] = ScanLine(a, line, request, str)
      BY <1>4, <1>5, <3>2
    <3>4. L[i] = ScanLine(a, line, request, str).lines  BY <1>14, <3>1, <3>3
    <3>5. \/ L[i] = a.lines
          \/ \E x \in Texts : L[i] = Append(a.lines, x)
      BY <1>1, <3>4, ScanLineIs
    <3>. QED  BY <3>2, <3>5
  <2>3. ASSUME NEW i \in 1 .. NumFiles PROVE ~K[i] /\ L[i] = Append(L[i - 1], g[i])
    <3>1. i \in Ids /\ i \in 0 .. n /\ i - 1 \in 0 .. n /\ i - 1 \in 0 .. NumFiles
          /\ i \in 0 .. NumFiles
      BY <1>1, <1>9 DEF Ids
    <3>2. P(i - 1) /\ P(i)  BY <1>12, <3>1
    <3>3. ~f[i].skip  BY <3>2
    <3>. HIDE DEF P
    <3>4. f[i].lines = Append(f[i - 1].lines, LineOf(R[i]))  BY <1>11, <3>1, <3>2
    <3>. QED  BY <1>14, <1>15, <3>1, <3>3, <3>4
  <2>. QED  BY <1>16, <2>1, <2>2, <2>3 DEF KeepsLines
<1>. HIDE DEF P
<1>18. /\ \A i \in 0 .. NumFiles : ~K[i] /\ Len(L[i]) = i
       /\ Len(L[n]) >= NumFiles
       /\ \A j \in 1 .. NumFiles : L[n][j] = g[j]
  <2>1. PICK k \in 0 .. n : k = NumFiles  BY <1>4
  <2>2. g \in [1 .. k -> Texts] /\ KeepsLines(L, K, n, k, g)  BY <1>13, <1>17, <2>1
  <2>3. /\ \A i \in 0 .. k : ~K[i] /\ Len(L[i]) = i
        /\ Len(L[n]) >= k
        /\ \A j \in 1 .. k : L[n][j] = g[j]
    BY <1>4, <2>2, LinesAreKept
  <2>. QED  BY <2>1, <2>3
<1>. DEFINE Q(i) == /\ \A j \in NumFiles + 1 .. Len(L[i]) : OnlyNULs(L[i][j])
                    /\ f[i].removed >= f[NumFiles].removed
            U == {i \in Nat : i >= NumFiles => Q(i)}
<1>19. 0 \in U
  <2>1. ~(0 >= NumFiles)  BY NumFilesAssumption
  <2>. QED  BY <2>1
<1>20. ASSUME NEW i \in 1 .. n, i - 1 \in U PROVE i \in U
  <2>1. i \in 0 .. n /\ i - 1 \in 0 .. n /\ i \in Nat /\ i - 1 \in Nat  BY <1>4
  <2>2. SUFFICES ASSUME i >= NumFiles PROVE Q(i)
    BY <2>1
  <2>3. CASE i = NumFiles
    <3>1. Len(L[i]) = NumFiles  BY <1>1, <1>18, <2>3
    <3>2. \A j \in NumFiles + 1 .. Len(L[i]) : FALSE  BY <1>1, <3>1
    <3>3. f[i].removed \in Int  BY <1>8, <2>1 DEF Scans
    <3>4. f[i].removed >= f[NumFiles].removed  BY <2>3, <3>3
    <3>. QED  BY <3>2, <3>4
  <2>4. CASE i # NumFiles
    <3>1. Q(i - 1) /\ i \in NumFiles + 1 .. n
      <4>1. i - 1 >= NumFiles /\ i >= NumFiles + 1  BY <1>1, <2>1, <2>2, <2>4
      <4>. QED  BY <1>1, <1>4, <1>20, <2>1, <4>1
    <3>. HIDE DEF U
    <3>2. PICK a \in Scans : a = f[i - 1] /\ a.lines = L[i - 1]  BY <1>8, <1>14, <2>1
    <3>3. PICK line \in Texts : line = s[i] /\ f[i] = ScanLine(a, line, request, str)
      BY <1>4, <1>5, <3>2
    <3>4. OnlyNULs(line)  BY <1>3, <3>1, <3>3
    <3>5. /\ f[i].lines = a.lines \/ f[i].lines = Append(a.lines, line)
          /\ f[i].removed >= a.removed
      BY <1>1, <3>3, <3>4, ScanNULs
    <3>6. f[i].removed >= f[NumFiles].removed
      <4>1. f[i].removed \in Int /\ a.removed \in Int /\ f[NumFiles].removed \in Int
        BY <1>4, <1>8, <2>1 DEF Scans
      <4>2. a.removed >= f[NumFiles].removed  BY <3>1, <3>2
      <4>. QED  BY <3>5, <4>1, <4>2
    <3>7. PICK ls \in Seq(Texts) : ls = a.lines  BY DEF Scans
    <3>8. \A j \in NumFiles + 1 .. Len(ls) : OnlyNULs(ls[j])  BY <3>1, <3>2, <3>7
    <3>9. L[i] = ls \/ L[i] = Append(ls, line)  BY <1>14, <2>1, <3>5, <3>7
    <3>10. CASE L[i] = ls  BY <3>6, <3>8, <3>10
    <3>11. CASE L[i] = Append(ls, line)
      <4>1. Len(L[i]) = Len(ls) + 1 /\ Len(ls) \in Nat /\ L[i][Len(ls) + 1] = line
            /\ \A j \in 1 .. Len(ls) : L[i][j] = ls[j]
        BY <3>11
      <4>2. ASSUME NEW j \in NumFiles + 1 .. Len(L[i]) PROVE OnlyNULs(L[i][j])
        <5>1. j \in Nat /\ j >= NumFiles + 1 /\ (j = Len(ls) + 1 \/ j \in 1 .. Len(ls))
          BY <1>1, <4>1
        <5>2. CASE j = Len(ls) + 1  BY <3>4, <4>1, <5>2
        <5>3. CASE j \in 1 .. Len(ls)
          <6>1. j \in NumFiles + 1 .. Len(ls)  BY <1>1, <5>1, <5>3
          <6>2. L[i][j] = ls[j]  BY <4>1, <5>3
          <6>. QED  BY <3>8, <6>1, <6>2
        <5>. QED  BY <5>1, <5>2, <5>3
      <4>. QED  BY <3>6, <4>2
    <3>. QED  BY <3>9, <3>10, <3>11
  <2>. QED  BY <2>3, <2>4
<1>21. Q(n)
  <2>. HIDE DEF U, Q
  <2>1. \A i \in 0 .. n : i \in U  BY <1>4, <1>19, <1>20, InductionTo
  <2>2. n \in 0 .. n /\ n >= NumFiles  BY <1>4
  <2>. QED  BY <2>1, <2>2 DEF U
<1>. HIDE DEF U
<1>22. n \in 0 .. n /\ L[n] = f[n].lines  BY <1>4, <1>14
<1>23. \A id \in Ids : f[n].lines[id] = LineOf(R[id])
  BY <1>15, <1>18, <1>22 DEF Ids
<1>24. EndOf(names, NumFiles) <= EndOf(R, NumFiles) + f[n].removed
  <2>1. P(NumFiles)  BY <1>1, <1>12
  <2>2. f[NumFiles].removed = EndOf(names, NumFiles) - EndOf(R, NumFiles) + 2 * f[NumFiles].found
    BY <2>1 DEF P
  <2>3. f[n].removed \in Int /\ f[NumFiles].removed \in Int /\ f[NumFiles].found \in Nat
    BY <1>4, <1>8, <1>22 DEF Scans
  <2>4. EndOf(names, NumFiles) \in Nat /\ EndOf(R, NumFiles) \in Nat
    BY <1>1, <1>2, EndStep
  <2>. QED  BY <1>21, <2>2, <2>3, <2>4, SMTT(30)
<1>. HIDE DEF Q
<1>25. /\ f[n] \in Scans /\ Len(f[n].lines) >= NumFiles
       /\ \A i \in NumFiles + 1 .. Len(f[n].lines) : OnlyNULs(f[n].lines[i])
  BY <1>8, <1>18, <1>21, <1>22 DEF Q
<1>. QED  BY <1>5, <1>23, <1>24, <1>25 DEF R

-----------------------------------------------------------------------------
(* The writes *)

(* The places of a part, and the parts behind the k-th *)
LEMMA PartAt ==
    ASSUME NEW X, NEW s \in Seq(Seq(X)), NEW c, UpTo(c, s, X), NEW i \in 1 .. Len(s),
           NEW p \in Nat, p = Len(c[i - 1]), NEW j \in 1 .. Len(s[i])
    PROVE  c[Len(s)][p + j] = s[i][j]
<1>1. Lies(s[i], c[Len(s)], Len(c[i - 1]) + 1)  BY PartsLie
<1>2. c[Len(s)][(p + 1) + j - 1] = s[i][j]  BY <1>1 DEF Lies
<1>3. j \in Nat
  <2>1. s[i] \in Seq(X)  OBVIOUS
  <2>. QED  BY <2>1
<1>4. (p + 1) + j - 1 = p + j  BY <1>3
<1>. QED  BY <1>2, <1>4

(* The parts grow one behind the other, and what every element of the later *)
(* parts is, is what every place behind the k-th is.                        *)
LEMMA PartsBehind ==
    ASSUME NEW X, NEW s \in Seq(Seq(X)), NEW c, UpTo(c, s, X), NEW k \in 0 .. Len(s), NEW T,
           \A i \in k + 1 .. Len(s) : \A j \in 1 .. Len(s[i]) : s[i][j] \in T
    PROVE  /\ \A m \in 0 .. Len(s) : \A i \in 0 .. m : Len(c[i]) <= Len(c[m])
           /\ \A p \in 1 .. Len(c[Len(s)]) : p > Len(c[k]) => c[Len(s)][p] \in T
<1>. DEFINE n == Len(s)
            at == [i \in 0 .. n |-> Len(c[i])]
<1>1. n \in Nat /\ n \in 0 .. n /\ k \in Nat  OBVIOUS
<1>2. /\ \A i \in 0 .. n : Len(c[i]) \in Nat
      /\ Len(c[0]) = 0
      /\ \A i \in 1 .. n : Len(c[i]) = Len(c[i - 1]) + Len(s[i])
  BY LengthUpTo
<1>. HIDE DEF n
<1>3. \A i \in 0 .. n : at[i] = Len(c[i])  OBVIOUS
<1>4. at \in [0 .. n -> Nat] /\ at[0] = 0  BY <1>1, <1>2
<1>. HIDE DEF at
<1>5. \A i \in 1 .. n : i - 1 \in 0 .. n /\ i \in 0 .. n  BY <1>1
<1>6. ASSUME NEW i \in 1 .. n PROVE at[i] = at[i - 1] + Len(s[i]) /\ Len(s[i]) \in Nat
  <2>1. s[i] \in Seq(X)  BY DEF n
  <2>2. Len(s[i]) \in Nat  BY <2>1
  <2>. QED  BY <1>2, <1>3, <1>5, <2>2
<1>7. \A i \in 1 .. n : at[i - 1] <= at[i]
  <2>1. TAKE i \in 1 .. n
  <2>2. at[i - 1] \in Nat  BY <1>4, <1>5
  <2>. QED  BY <1>6, <2>2
<1>8. \A m \in 0 .. n : \A i \in 0 .. m : at[i] <= at[m]  BY <1>1, <1>4, <1>7, LengthsGrow
<1>9. \A m \in 0 .. n : \A i \in 0 .. m : Len(c[i]) <= Len(c[m])
  <2>1. \A m \in 0 .. n : \A i \in 0 .. m : i \in 0 .. n  BY <1>1
  <2>. QED  BY <1>3, <1>8, <2>1
<1>10. ASSUME NEW p \in 1 .. Len(c[n]), p > Len(c[k]) PROVE c[n][p] \in T
  <2>1. p \in 1 .. at[n]  BY <1>1, <1>3
  <2>2. PICK i \in 1 .. n : at[i - 1] < p /\ p <= at[i]  BY <1>1, <1>4, <2>1, InWhich
  <2>3. i \in k + 1 .. n
    <3>1. SUFFICES ASSUME i <= k PROVE FALSE
      BY <1>1
    <3>2. i \in 0 .. k /\ k \in 0 .. n  BY <1>1, <3>1 DEF n
    <3>3. at[i] <= at[k] /\ at[k] = Len(c[k]) /\ at[i] \in Nat /\ at[k] \in Nat
      BY <1>3, <1>4, <1>5, <1>8, <3>2
    <3>. QED  BY <1>1, <1>10, <2>2, <3>3
  <2>4. PICK b \in Nat : b = Len(c[i - 1]) /\ b = at[i - 1]  BY <1>3, <1>4, <1>5
  <2>5. PICK j \in 1 .. Len(s[i]) : p = b + j
    <3>1. PICK q \in Nat : q = Len(s[i]) /\ at[i] = b + q  BY <1>6, <2>4
    <3>2. p \in Nat /\ b < p /\ p <= b + q  BY <2>1, <2>2, <2>4, <3>1
    <3>3. p - b \in 1 .. q /\ p = b + (p - b)  BY <3>2
    <3>. QED  BY <3>1, <3>3
  <2>6. i \in 1 .. Len(s) /\ i \in k + 1 .. Len(s)  BY <2>3 DEF n
  <2>7. c[Len(s)][b + j] = s[i][j]
    <3>1. b = Len(c[i - 1]) /\ i \in 1 .. Len(s)  BY <2>4, <2>6
    <3>. HIDE DEF n
    <3>2. \A h \in 1 .. Len(s[i]) : c[Len(s)][b + h] = s[i][h]  BY <3>1, PartAt
    <3>. QED  BY <3>2
  <2>8. s[i][j] \in T  BY <2>6
  <2>. QED  BY <2>5, <2>7, <2>8 DEF n
<1>. QED  BY <1>9, <1>10 DEF n

(* The lines of these names and lines of NULs are a map. *)
LEMMA JoinedMap ==
    ASSUME NEW ns \in Named, NEW lines \in Seq(Texts), Len(lines) >= NumFiles,
           \A id \in Ids : lines[id] = LineOf(ns[id]),
           \A i \in NumFiles + 1 .. Len(lines) : OnlyNULs(lines[i])
    PROVE  Joined(lines) \in Seq(Characters) /\ IsMap(Joined(lines), ns)
<1>. DEFINE n == Len(lines)
            text == Joined(lines)
<1>1. NumFiles \in Nat /\ n \in Nat /\ n >= NumFiles /\ NumFiles \in 0 .. n
      /\ NumFiles \in 0 .. NumFiles /\ n \in 0 .. n
  BY NumFilesAssumption
<1>2. lines \in Seq(Seq(Characters)) /\ NL \in Characters
  <2>1. Texts \subseteq Seq(Characters)  BY DEF Texts, LineText
  <2>. QED  BY <2>1 DEF Characters
<1>3. PICK at : /\ EndsAt(lines, at)
                /\ text \in Seq(Characters)
                /\ Len(text) = at[n]
                /\ Begins(text, lines, at)
  BY <1>2, JoinedBegins
<1>. HIDE DEF text, n
<1>4. EndsAt(LinesOf(ns), Ends(ns)) /\ Len(LinesOf(ns)) = NumFiles
      /\ \A id \in Ids : LinesOf(ns)[id] = LineOf(ns[id])
  BY EndsOfNames, LinesOfNames
<1>5. \A i \in 0 .. NumFiles : at[i] = EndOf(ns, i)
  <2>1. \A i \in 1 .. NumFiles : Len(lines[i]) = Len(LinesOf(ns)[i])  BY <1>4 DEF Ids
  <2>2. PICK bt : bt = Ends(ns)  OBVIOUS
  <2>3. PICK ms : ms = LinesOf(ns)  OBVIOUS
  <2>4. \A i \in 0 .. NumFiles : at[i] = bt[i]
    <3>1. EndsAt(lines, at) /\ EndsAt(ms, bt)  BY <1>3, <1>4, <2>2, <2>3
    <3>2. Len(ms) = NumFiles /\ NumFiles \in Nat /\ NumFiles <= Len(lines) /\ Len(lines) \in Nat
      BY <1>1, <1>4, <2>3 DEF n
    <3>3. NumFiles <= Len(ms) /\ Len(ms) \in Nat  BY <3>2
    <3>4. \A i \in 1 .. NumFiles : Len(lines[i]) = Len(ms[i])  BY <2>1, <2>3
    <3>. QED  BY <3>1, <3>2, <3>3, <3>4, EndsSame, SMTT(30)
  <2>. QED  BY <2>2, <2>4, EndStep
<1>6. at \in [0 .. n -> Nat] /\ at[0] = 0  BY <1>3 DEF EndsAt, n
<1>7. \A m \in 0 .. n : \A i \in 0 .. m : at[i] <= at[m]  BY <1>2, <1>3, EndsGrow DEF n
<1>8. at[NumFiles] = EndOf(ns, NumFiles)  BY <1>1, <1>5
<1>9. BeginsTo(text, ns, NumFiles)
  <2>1. EndOf(ns, NumFiles) <= Len(text)
    <3>1. at[NumFiles] <= at[n]  BY <1>1, <1>7
    <3>. QED  BY <1>3, <1>8, <3>1
  <2>2. ASSUME NEW id \in 1 .. NumFiles PROVE LineAt(text, LineOf(ns[id]), EndOf(ns, id - 1))
    <3>1. id \in Ids /\ id \in 1 .. n /\ id - 1 \in 0 .. NumFiles  BY <1>1 DEF Ids
    <3>2. LineAt(text, lines[id], at[id - 1])  BY <1>3, <3>1 DEF Begins, n
    <3>3. at[id - 1] = EndOf(ns, id - 1)  BY <1>5, <3>1
    <3>4. lines[id] = LineOf(ns[id])  BY <3>1
    <3>. QED  BY <3>2, <3>3, <3>4
  <2>. QED  BY <2>1, <2>2 DEF BeginsTo
<1>10. ASSUME NEW p \in 1 .. Len(text), p > EndOf(ns, NumFiles) PROVE text[p] \in {NL, NUL}
  <2>1. PICK i \in 1 .. n : at[i - 1] < p /\ p <= at[i]  BY <1>1, <1>3, <1>6, InWhich
  <2>2. i \in NumFiles + 1 .. n
    <3>1. SUFFICES ASSUME i <= NumFiles PROVE FALSE
      BY <1>1
    <3>2. i \in 0 .. NumFiles /\ i \in 0 .. n  BY <1>1, <3>1
    <3>3. at[i] <= at[NumFiles] /\ at[i] \in Nat /\ at[NumFiles] \in Nat
      BY <1>1, <1>6, <1>7, <3>2
    <3>. QED  BY <1>8, <1>10, <2>1, <3>3
  <2>3. OnlyNULs(lines[i])  BY <2>2 DEF n
  <2>4. PICK b \in Nat : b = at[i - 1]
    <3>1. i - 1 \in 0 .. n  BY <1>1
    <3>. QED  BY <1>6, <3>1
  <2>5. PICK line \in Texts : line = lines[i] /\ Len(line) \in Nat
    <3>1. lines[i] \in Texts  BY DEF n
    <3>2. Len(lines[i]) \in Nat  BY <3>1 DEF Texts
    <3>. QED  BY <3>1, <3>2
  <2>6. at[i] = b + Len(line) + 1  BY <1>3, <2>4, <2>5 DEF EndsAt, n
  <2>7. LineAt(text, line, b)  BY <1>3, <2>4, <2>5 DEF Begins, n
  <2>8. PICK j \in Nat : p = b + j /\ j >= 1 /\ j <= Len(line) + 1
    <3>1. p - b \in Nat /\ p = b + (p - b) /\ p - b >= 1 /\ p - b <= Len(line) + 1
      BY <2>1, <2>4, <2>5, <2>6, SMTT(30)
    <3>. QED  BY <3>1
  <2>9. CASE j <= Len(line)
    <3>1. j \in 1 .. Len(line)  BY <2>5, <2>8, <2>9
    <3>2. text[b + j] = line[j]  BY <2>7, <3>1 DEF LineAt
    <3>3. line[j] = NUL  BY <2>3, <2>5, <3>1 DEF OnlyNULs
    <3>. QED  BY <2>8, <3>2, <3>3
  <2>10. CASE j > Len(line)
    <3>1. p = b + Len(line) + 1  BY <2>5, <2>8, <2>10
    <3>. QED  BY <2>7, <3>1 DEF LineAt
  <2>. QED  BY <2>5, <2>8, <2>9, <2>10
<1>11. IsMap(text, ns)  BY <1>3, <1>9, <1>10, BeginsMap
<1>. QED  BY <1>3, <1>11 DEF text

(* p is within the line of an id, neither before it nor at its newline. *)
InLine(ns, id, p) == EndOf(ns, id - 1) < p /\ p < EndOf(ns, id) - 1

(* Each line has two writes: an odd one and an even one. *)
LEMMA EvenOrOdd == \A m \in Nat : \E i \in Nat : m = 2 * i \/ m = 2 * i + 1
<1>1. \A m \in Nat : m \div 2 \in Nat /\ (m = 2 * (m \div 2) \/ m = 2 * (m \div 2) + 1)
  OBVIOUS
<1>. QED  BY <1>1

(* The end of a line, its newline and what is behind the lines are within  *)
(* no line.                                                                *)
LEMMA NotInLine ==
    ASSUME NEW ns \in Named, NEW p \in Nat, NEW i \in 0 .. NumFiles, NEW id \in Ids,
           p = EndOf(ns, i) \/ (i # 0 /\ p = EndOf(ns, i) - 1)
              \/ (i = NumFiles /\ p >= EndOf(ns, i))
    PROVE  ~InLine(ns, id, p)
<1>1. NumFiles \in Nat /\ id \in Nat /\ i \in Nat /\ id \in 0 .. NumFiles /\ id - 1 \in 0 .. NumFiles
      /\ NumFiles \in 0 .. NumFiles
  BY NumFilesAssumption DEF Ids
<1>2. PICK b \in Nat, e \in Nat, x \in Nat :
         b = EndOf(ns, id - 1) /\ e = EndOf(ns, id) /\ x = EndOf(ns, i)
  BY <1>1, EndStep
<1>3. CASE i <= id - 1
  <2>1. i \in 0 .. id - 1  BY <1>1, <1>3
  <2>2. x <= b  BY <1>1, <1>2, <2>1, EndStep
  <2>3. i # NumFiles  BY <1>1, <1>3
  <2>4. p <= x  BY <1>2, <2>3
  <2>. QED  BY <1>2, <2>2, <2>4 DEF InLine
<1>4. CASE i >= id
  <2>1. id \in 0 .. i  BY <1>1, <1>4
  <2>2. e <= x  BY <1>1, <1>2, <2>1, EndStep
  <2>3. p >= x - 1  BY <1>2
  <2>. QED  BY <1>2, <2>2, <2>3 DEF InLine
<1>. QED  BY <1>1, <1>3, <1>4

(* Parts that are not empty make it longer. *)
LEMMA PartsAddUp ==
    ASSUME NEW X, NEW s \in Seq(Seq(X)), NEW c, UpTo(c, s, X), NEW k \in 0 .. Len(s),
           \A i \in k + 1 .. Len(s) : Len(s[i]) >= 1
    PROVE  Len(c[Len(s)]) >= Len(c[k]) + (Len(s) - k)
<1>. DEFINE T == {i \in Nat : i >= k => Len(c[i]) >= Len(c[k]) + (i - k)}
<1>1. PICK n \in Nat : n = Len(s) /\ k \in 0 .. n /\ k \in Nat  OBVIOUS
<1>2. /\ \A i \in 0 .. n : Len(c[i]) \in Nat
      /\ \A i \in 1 .. n : Len(c[i]) = Len(c[i - 1]) + Len(s[i])
  BY <1>1, LengthUpTo
<1>3. 0 \in T
  <2>1. SUFFICES ASSUME 0 >= k PROVE Len(c[0]) >= Len(c[k]) + (0 - k)
    OBVIOUS
  <2>2. k = 0 /\ 0 - k = 0 /\ Len(c[0]) \in Nat  BY <1>1, <1>2, <2>1
  <2>. QED  BY <2>2
<1>4. ASSUME NEW i \in 1 .. n, i - 1 \in T PROVE i \in T
  <2>1. SUFFICES ASSUME i >= k PROVE Len(c[i]) >= Len(c[k]) + (i - k)
    BY <1>1
  <2>2. PICK a \in Nat, b \in Nat, d \in Nat : a = Len(c[k]) /\ b = Len(c[i]) /\ d = Len(c[i - 1])
    <3>1. i \in 0 .. n /\ i - 1 \in 0 .. n  BY <1>1
    <3>. QED  BY <1>1, <1>2, <3>1
  <2>3. CASE i = k
    <3>1. i - k = 0 /\ a = b  BY <1>1, <2>2, <2>3
    <3>. QED  BY <2>2, <3>1
  <2>4. CASE i # k
    <3>1. i - 1 >= k /\ i \in k + 1 .. n /\ i - 1 \in Nat  BY <1>1, <2>1, <2>4
    <3>2. d >= a + ((i - 1) - k)  BY <1>4, <2>2, <3>1
    <3>3. PICK e \in Nat : e = Len(s[i]) /\ e >= 1
      <4>1. s[i] \in Seq(X)  BY <1>1
      <4>2. Len(s[i]) \in Nat  BY <4>1
      <4>. QED  BY <1>1, <3>1, <4>2
    <3>4. b = d + e  BY <1>2, <2>2, <3>3
    <3>5. PICK h \in Nat : h = k  BY <1>1
    <3>6. i \in Nat /\ d >= a + ((i - 1) - h)  BY <1>1, <3>2, <3>5
    <3>7. b >= a + (i - h)  BY <3>3, <3>4, <3>6
    <3>. QED  BY <2>2, <3>5, <3>7
  <2>. QED  BY <2>3, <2>4
<1>. HIDE DEF T
<1>5. n \in T
  <2>1. \A i \in 0 .. n : i \in T  BY <1>1, <1>3, <1>4, InductionTo
  <2>. QED  BY <1>1, <2>1
<1>. QED  BY <1>1, <1>5 DEF T

(* A write for each line and one for each newline *)
LEMMA WritesMap ==
    ASSUME NEW ns \in Named, NEW W \in Seq(Seq(Characters)), Len(W) >= 2 * NumFiles,
           \A id \in Ids : W[2 * id - 1] = LineOf(ns[id]) /\ W[2 * id] = <<NL>>,
           \A i \in 2 * NumFiles + 1 .. Len(W) : \A j \in 1 .. Len(W[i]) : W[i][j] \in {NL, NUL},
           NEW k \in 2 * NumFiles .. Len(W), \A i \in k + 1 .. Len(W) : Len(W[i]) >= 1
    PROVE  /\ FlattenSeq(W) \in Seq(Characters) /\ IsMap(FlattenSeq(W), ns)
           /\ Len(FlattenSeq(W)) >= EndOf(ns, NumFiles) + (Len(W) - k)
           /\ \A m \in 0 .. Len(W), id \in Ids : ~InLine(ns, id, Len(FlattenSeq(SubSeq(W, 1, m))))
<1>. DEFINE n == Len(W)
<1>1. PICK c : UpTo(c, W, Characters) /\ FlattenSeq(W) = c[n]  BY FlattenIs
<1>2. PICK N \in Nat, z \in Nat : N = NumFiles /\ N # 0 /\ z = 2 * N /\ n \in Nat /\ z <= n
  BY NumFilesAssumption
<1>3. /\ \A i \in 0 .. n : c[i] \in Seq(Characters) /\ Len(c[i]) \in Nat
      /\ Len(c[0]) = 0
      /\ \A i \in 1 .. n : Len(c[i]) = Len(c[i - 1]) + Len(W[i])
  <2>1. UpTo(c, W, Characters)  BY <1>1
  <2>. HIDE DEF n
  <2>. QED  BY <2>1, LengthUpTo DEF n
<1>. HIDE DEF n
<1>4. n \in 0 .. n /\ z \in 0 .. n /\ z \in Nat  BY <1>2
<1>5. /\ \A m \in 0 .. n : \A i \in 0 .. m : Len(c[i]) <= Len(c[m])
      /\ \A p \in 1 .. Len(c[n]) : p > Len(c[z]) => c[n][p] \in {NL, NUL}
  <2>1. PICK T : T = {NL, NUL}  OBVIOUS
  <2>2. \A i \in z + 1 .. Len(W) : \A j \in 1 .. Len(W[i]) : W[i][j] \in T  BY <1>2, <2>1
  <2>3. z \in 0 .. Len(W)  BY <1>4 DEF n
  <2>4. /\ \A m \in 0 .. Len(W) : \A i \in 0 .. m : Len(c[i]) <= Len(c[m])
        /\ \A p \in 1 .. Len(c[Len(W)]) : p > Len(c[z]) => c[Len(W)][p] \in T
    BY <1>1, <2>2, <2>3, PartsBehind
  <2>. QED  BY <2>1, <2>4 DEF n
<1>6. ASSUME NEW i \in 1 .. N
      PROVE  /\ 2 * i \in 1 .. n /\ 2 * i - 1 \in 1 .. n /\ (2 * i) - 1 = 2 * i - 1
             /\ (2 * i - 1) - 1 = 2 * (i - 1) /\ i \in Ids /\ i - 1 \in 0 .. N /\ i \in 0 .. N
             /\ 2 * (i - 1) \in 0 .. n /\ 2 * i - 1 \in 0 .. n /\ 2 * i \in 0 .. n
  BY <1>2 DEF Ids
<1>7. ASSUME NEW i \in 1 .. N, Len(c[2 * (i - 1)]) = EndOf(ns, i - 1)
      PROVE  Len(c[2 * i - 1]) = EndOf(ns, i) - 1 /\ Len(c[2 * i]) = EndOf(ns, i)
  <2>1. PICK a, b, d : a = 2 * (i - 1) /\ b = 2 * i - 1 /\ d = 2 * i  OBVIOUS
  <2>2. b \in 1 .. n /\ d \in 1 .. n /\ b - 1 = a /\ d - 1 = b /\ i \in Ids  BY <1>6, <2>1
  <2>3. Len(c[b]) = Len(c[a]) + Len(W[b]) /\ Len(c[d]) = Len(c[b]) + Len(W[d])  BY <1>3, <2>2
  <2>4. W[b] = LineOf(ns[i]) /\ W[d] = <<NL>>  BY <2>1, <2>2
  <2>5. Len(W[d]) = 1  BY <2>4
  <2>6. PICK e \in Nat, x \in Nat : /\ e = EndOf(ns, i - 1) /\ x = Len(LineOf(ns[i]))
                                    /\ EndOf(ns, i) = e + x + 1
    BY <1>2, <1>6, EndStep
  <2>7. Len(c[b]) = e + x  BY <1>7, <2>1, <2>3, <2>4, <2>6
  <2>8. Len(c[d]) = e + x + 1  BY <2>3, <2>5, <2>6, <2>7
  <2>9. e + x = (e + x + 1) - 1  BY <2>6
  <2>. QED  BY <2>1, <2>6, <2>7, <2>8, <2>9
<1>. DEFINE T == {i \in Nat : Len(c[2 * i]) = EndOf(ns, i)}
<1>8. \A i \in 0 .. N : Len(c[2 * i]) = EndOf(ns, i)
  <2>1. 0 \in T
    <3>1. 2 * 0 = 0  OBVIOUS
    <3>2. Len(c[2 * 0]) = 0 /\ EndOf(ns, 0) = 0  BY <1>3, <3>1, EndStep
    <3>. QED  BY <3>2
  <2>2. ASSUME NEW i \in 1 .. N, i - 1 \in T PROVE i \in T
    <3>1. Len(c[2 * (i - 1)]) = EndOf(ns, i - 1) /\ i \in Nat  BY <2>2
    <3>2. Len(c[2 * i]) = EndOf(ns, i)  BY <1>7, <3>1
    <3>. QED  BY <3>1, <3>2
  <2>. HIDE DEF T
  <2>3. \A i \in 0 .. N : i \in T  BY <1>2, <2>1, <2>2, InductionTo
  <2>. QED  BY <2>3 DEF T
<1>. HIDE DEF T
<1>9. \A i \in 1 .. N : Len(c[2 * i - 1]) = EndOf(ns, i) - 1
  <2>1. TAKE i \in 1 .. N
  <2>2. Len(c[2 * (i - 1)]) = EndOf(ns, i - 1)  BY <1>6, <1>8
  <2>. QED  BY <1>7, <2>2
<1>10. N \in 0 .. N /\ Len(c[z]) = EndOf(ns, N)  BY <1>2, <1>8
<1>11. c[n] \in Seq(Characters) /\ Len(c[n]) \in Nat  BY <1>3, <1>4
<1>12. BeginsTo(c[n], ns, N)
  <2>1. EndOf(ns, N) <= Len(c[n])
    <3>1. z \in 0 .. n  BY <1>4
    <3>. QED  BY <1>4, <1>5, <1>10, <3>1
  <2>2. ASSUME NEW id \in 1 .. N PROVE LineAt(c[n], LineOf(ns[id]), EndOf(ns, id - 1))
    <3>1. PICK a, b, d : a = 2 * (id - 1) /\ b = 2 * id - 1 /\ d = 2 * id  OBVIOUS
    <3>2. b \in 1 .. n /\ d \in 1 .. n /\ b - 1 = a /\ d - 1 = b /\ id \in Ids /\ id - 1 \in 0 .. N
      BY <1>6, <3>1
    <3>3. W[b] = LineOf(ns[id]) /\ W[d] = <<NL>>  BY <3>1, <3>2
    <3>4. PICK e \in Nat, x \in Nat : /\ e = EndOf(ns, id - 1) /\ x = Len(LineOf(ns[id]))
                                      /\ EndOf(ns, id) = e + x + 1
      BY <1>2, <1>6, EndStep
    <3>5. Len(c[a]) = e /\ Len(c[b]) = e + x
      <4>1. Len(c[b]) = EndOf(ns, id) - 1  BY <1>9, <3>1
      <4>2. Len(c[a]) = EndOf(ns, id - 1)  BY <1>8, <3>1, <3>2
      <4>. QED  BY <3>4, <4>1, <4>2
    <3>6. ASSUME NEW j \in 1 .. Len(LineOf(ns[id])) PROVE c[n][e + j] = LineOf(ns[id])[j]
      <4>1. e = Len(c[b - 1]) /\ b \in 1 .. Len(W) /\ j \in 1 .. Len(W[b])
        BY <3>2, <3>3, <3>5 DEF n
      <4>2. c[Len(W)][e + j] = W[b][j]
        <5>1. /\ e \in Nat /\ e = Len(c[b - 1]) /\ UpTo(c, W, Characters)
              /\ b \in 1 .. Len(W) /\ j \in 1 .. Len(W[b])
          BY <1>1, <3>4, <4>1
        <5>. QED  BY <5>1, PartAt, SMTT(30)
      <4>. QED  BY <3>3, <4>2 DEF n
    <3>7. c[n][e + x + 1] = NL
      <4>1. PICK y \in Nat : y = e + x  BY <3>4
      <4>2. y = Len(c[d - 1]) /\ d \in 1 .. Len(W) /\ 1 \in 1 .. Len(W[d])
        BY <3>2, <3>3, <3>5, <4>1 DEF n
      <4>3. c[Len(W)][y + 1] = W[d][1]  BY <1>1, <4>2, PartAt
      <4>4. W[d][1] = NL  BY <3>3
      <4>. QED  BY <4>1, <4>3, <4>4 DEF n
    <3>. QED  BY <3>4, <3>6, <3>7 DEF LineAt
  <2>. QED  BY <2>1, <2>2 DEF BeginsTo
<1>13. IsMap(c[n], ns)
  <2>1. \A p \in 1 .. Len(c[n]) : p > EndOf(ns, NumFiles) => c[n][p] \in {NL, NUL}
    BY <1>2, <1>5, <1>10
  <2>2. BeginsTo(c[n], ns, NumFiles)  BY <1>2, <1>12
  <2>. QED  BY <1>11, <2>1, <2>2, BeginsMap
<1>14. ASSUME NEW m \in 0 .. n, NEW id \in Ids
       PROVE  ~InLine(ns, id, Len(FlattenSeq(SubSeq(W, 1, m))))
  <2>1. FlattenSeq(SubSeq(W, 1, m)) = c[m]  BY <1>1, FlattenPrefix DEF n
  <2>2. PICK p \in Nat : p = Len(c[m])  BY <1>3
  <2>3. PICK i \in 0 .. NumFiles : \/ p = EndOf(ns, i)
                                   \/ i # 0 /\ p = EndOf(ns, i) - 1
                                   \/ i = NumFiles /\ p >= EndOf(ns, i)
    <3>1. CASE m >= z
      <4>1. z \in 0 .. m  BY <1>4, <3>1
      <4>2. Len(c[z]) <= Len(c[m])  BY <1>5, <4>1
      <4>3. p >= EndOf(ns, N)
        <5>1. EndOf(ns, N) \in Nat  BY <1>2, <1>10, EndStep
        <5>. QED  BY <1>10, <2>2, <4>2, <5>1
      <4>. QED  BY <1>2, <1>10, <4>3
    <3>2. CASE m < z
      <4>1. PICK h \in Nat : m = 2 * h \/ m = 2 * h + 1
        <5>1. m \in Nat  BY <1>2
        <5>. QED  BY <5>1, EvenOrOdd
      <4>2. CASE m = 2 * h
        <5>1. h \in 0 .. N  BY <1>2, <3>2, <4>2
        <5>2. p = EndOf(ns, h)  BY <1>8, <2>2, <4>2, <5>1
        <5>. QED  BY <1>2, <5>1, <5>2
      <4>3. CASE m = 2 * h + 1
        <5>1. PICK i \in 1 .. N : i = h + 1 /\ m = 2 * i - 1  BY <1>2, <3>2, <4>3
        <5>2. p = EndOf(ns, i) - 1  BY <1>9, <2>2, <5>1
        <5>3. i \in 0 .. N /\ i # 0  BY <1>2
        <5>. QED  BY <1>2, <5>2, <5>3
      <4>. QED  BY <4>1, <4>2, <4>3
    <3>. QED  BY <1>2, <3>1, <3>2
  <2>4. ~InLine(ns, id, p)  BY <2>3, NotInLine
  <2>. QED  BY <2>1, <2>2, <2>4
<1>15. Len(c[n]) >= EndOf(ns, NumFiles) + (n - k)
  <2>1. k \in 0 .. Len(W) /\ k \in 0 .. n /\ z \in 0 .. k /\ k \in Nat  BY <1>2 DEF n
  <2>2. Len(c[Len(W)]) >= Len(c[k]) + (Len(W) - k)  BY <1>1, <2>1, PartsAddUp
  <2>3. PICK a \in Nat, b \in Nat, e \in Nat : a = Len(c[z]) /\ b = Len(c[k]) /\ e = Len(c[n])
    BY <1>3, <1>4, <2>1
  <2>4. a <= b  BY <1>5, <2>1, <2>3
  <2>5. e >= b + (n - k)  BY <2>2, <2>3 DEF n
  <2>6. e >= a + (n - k)
    <3>1. n \in Nat /\ k \in Nat  BY <1>2, <2>1
    <3>. QED  BY <2>3, <2>4, <2>5, <3>1
  <2>7. a = EndOf(ns, NumFiles)  BY <1>2, <1>10, <2>3
  <2>. QED  BY <2>3, <2>6, <2>7
<1>. QED  BY <1>1, <1>11, <1>13, <1>14, <1>15 DEF n

(* The writes of bgextractfile *)
LEMMA WritesAre ==
    ASSUME NEW scan \in Scans, NEW n \in Nat, n = Len(scan.lines)
    PROVE  /\ Writes(scan) \in Seq(Seq(Characters))
           /\ Len(Writes(scan)) >= 2 * n /\ Len(Writes(scan)) >= 2 * n + scan.removed
           /\ \A i \in 1 .. n : /\ Writes(scan)[2 * i - 1] = scan.lines[i]
                                /\ Writes(scan)[2 * i] = <<NL>>
           /\ \A i \in 2 * n + 1 .. Len(Writes(scan)) : Writes(scan)[i] = <<NUL>>
<1>. DEFINE lines == scan.lines
            S == Seq(Characters)
            P == [i \in DOMAIN lines |-> <<lines[i], <<NL>>>>]
<1>1. lines \in Seq(Texts) /\ DOMAIN lines = 1 .. n  BY DEF Scans
<1>2. \A i \in 1 .. n : lines[i] \in S
  <2>1. \A i \in 1 .. n : lines[i] \in Texts  BY <1>1
  <2>2. Texts \subseteq S  BY DEF Texts, LineText
  <2>. QED  BY <2>1, <2>2
<1>3. <<NL>> \in S /\ <<NUL>> \in S  BY DEF Characters
<1>4. Writes(scan) = FlattenSeq(P) \o Padding(scan.removed)  BY DEF Writes
<1>. HIDE DEF lines, S
<1>5. \A i \in 1 .. n : P[i] = <<lines[i], <<NL>>>>  BY <1>1
<1>6. \A i \in 1 .. n : P[i] \in Seq(S) /\ Len(P[i]) = 2
  <2>1. TAKE i \in 1 .. n
  <2>2. P[i] = <<lines[i], <<NL>>>>  BY <1>5
  <2>. HIDE DEF P
  <2>. QED  BY <1>2, <1>3, <2>2
<1>7. P \in Seq(Seq(S)) /\ Len(P) = n
  <2>1. P \in [1 .. n -> Seq(S)]
    <3>1. P = [i \in 1 .. n |-> P[i]]  BY <1>1
    <3>. HIDE DEF P
    <3>. QED  BY <1>6, <3>1
  <2>. HIDE DEF P
  <2>. QED  BY <2>1, MakesSeq
<1>. HIDE DEF P
<1>8. PICK c : UpTo(c, P, S) /\ FlattenSeq(P) = c[n]  BY <1>7, FlattenIs
<1>9. /\ \A i \in 0 .. n : c[i] \in Seq(S) /\ Len(c[i]) \in Nat
      /\ Len(c[0]) = 0
      /\ \A i \in 1 .. n : Len(c[i]) = Len(c[i - 1]) + Len(P[i])
  <2>1. /\ \A i \in 0 .. Len(P) : c[i] \in Seq(S) /\ Len(c[i]) \in Nat
        /\ Len(c[0]) = 0
        /\ \A i \in 1 .. Len(P) : Len(c[i]) = Len(c[i - 1]) + Len(P[i])
    BY <1>7, <1>8, LengthUpTo
  <2>. QED  BY <1>7, <2>1
<1>10. \A i \in 0 .. n : Len(c[i]) = 2 * i
  <2>. DEFINE T == {i \in Nat : Len(c[i]) = 2 * i}
  <2>1. 0 \in T
    <3>1. 2 * 0 = 0  OBVIOUS
    <3>. QED  BY <1>9, <3>1
  <2>2. ASSUME NEW i \in 1 .. n, i - 1 \in T PROVE i \in T
    <3>1. Len(c[i - 1]) = 2 * (i - 1) /\ i \in Nat  BY <2>2
    <3>2. Len(c[i]) = Len(c[i - 1]) + 2  BY <1>6, <1>9
    <3>3. Len(c[i]) = 2 * i  BY <3>1, <3>2
    <3>. QED  BY <3>1, <3>3
  <2>. HIDE DEF T
  <2>3. \A i \in 0 .. n : i \in T  BY <2>1, <2>2, InductionTo
  <2>. QED  BY <2>3 DEF T
<1>11. PICK G \in Seq(S) : G = c[n] /\ Len(G) = 2 * n
  <2>1. n \in 0 .. n  OBVIOUS
  <2>2. c[n] \in Seq(S) /\ Len(c[n]) = 2 * n  BY <1>9, <1>10, <2>1
  <2>. QED  BY <2>2
<1>12. ASSUME NEW i \in 1 .. n
       PROVE  G[2 * i - 1] = lines[i] /\ G[2 * i] = <<NL>>
  <2>1. PICK a \in Nat : a = 2 * (i - 1) /\ a + 1 = 2 * i - 1 /\ a + 2 = 2 * i
    <3>1. 2 * (i - 1) \in Nat /\ 2 * (i - 1) + 1 = 2 * i - 1 /\ 2 * (i - 1) + 2 = 2 * i
      OBVIOUS
    <3>. QED  BY <3>1
  <2>2. a = Len(c[i - 1])
    <3>1. i - 1 \in 0 .. n  OBVIOUS
    <3>. QED  BY <1>10, <2>1, <3>1
  <2>3. i \in 1 .. Len(P)  BY <1>7
  <2>7. Len(P[i]) = 2  BY <1>6
  <2>8. 1 \in 1 .. Len(P[i]) /\ 2 \in 1 .. Len(P[i])  BY <2>7
  <2>4. \A h \in 1 .. Len(P[i]) : c[Len(P)][a + h] = P[i][h]
    <3>1. P \in Seq(Seq(S)) /\ UpTo(c, P, S)  BY <1>7, <1>8
    <3>. QED  BY <2>2, <2>3, <3>1, PartAt
  <2>5. G[a + 1] = P[i][1] /\ G[a + 2] = P[i][2]  BY <1>7, <1>11, <2>8, <2>4
  <2>6. P[i][1] = lines[i] /\ P[i][2] = <<NL>>  BY <1>5
  <2>. QED  BY <2>1, <2>5, <2>6
<1>13. PICK m \in Nat : /\ m >= scan.removed /\ Padding(scan.removed) \in Seq(S)
                        /\ Len(Padding(scan.removed)) = m
                        /\ \A j \in 1 .. m : Padding(scan.removed)[j] = <<NUL>>
  <2>1. PICK r \in Int : r = scan.removed  BY DEF Scans
  <2>2. PICK m \in Nat : m >= r /\ 1 .. r = 1 .. m
    <3>1. CASE r >= 0  BY <3>1
    <3>2. CASE r < 0
      <4>1. 1 .. r = 1 .. 0  BY <3>2
      <4>. QED  BY <3>2, <4>1
    <3>. QED  BY <3>1, <3>2
  <2>3. Padding(r) \in [1 .. m -> S]  BY <1>3, <2>2 DEF Padding
  <2>4. Padding(r) \in Seq(S) /\ Len(Padding(r)) = m  BY <2>3, MakesSeq
  <2>5. \A j \in 1 .. m : Padding(r)[j] = <<NUL>>  BY <2>2 DEF Padding
  <2>. QED  BY <2>1, <2>2, <2>4, <2>5
<1>14. PICK q \in Seq(S) : q = Padding(scan.removed)  BY <1>13
<1>15. PICK W : W = G \o q /\ Writes(scan) = W  BY <1>4, <1>8, <1>11, <1>14
<1>16. PICK z \in Nat : z = 2 * n  OBVIOUS
<1>17. /\ W \in Seq(S) /\ Len(W) = z + m /\ Len(G) = z /\ Len(q) = m
       /\ \A i \in 1 .. z : W[i] = G[i]
       /\ \A j \in 1 .. m : W[z + j] = q[j]
  <2>1. Len(G) = z /\ Len(q) = m  BY <1>11, <1>13, <1>14, <1>16
  <2>2. /\ W \in Seq(S) /\ Len(W) = Len(G) + Len(q)
        /\ \A i \in 1 .. Len(G) : W[i] = G[i]
        /\ \A j \in 1 .. Len(q) : W[Len(G) + j] = q[j]
    BY <1>15
  <2>. QED  BY <2>1, <2>2
<1>18. Len(W) >= z /\ Len(W) >= z + scan.removed
  <2>1. scan.removed \in Int  BY DEF Scans
  <2>. QED  BY <1>13, <1>17, <2>1
<1>19. ASSUME NEW i \in 1 .. n PROVE W[2 * i - 1] = lines[i] /\ W[2 * i] = <<NL>>
  <2>1. PICK a \in 1 .. z, b \in 1 .. z : a = 2 * i - 1 /\ b = 2 * i
    <3>1. 2 * i - 1 \in 1 .. z /\ 2 * i \in 1 .. z  BY <1>16
    <3>. QED  BY <3>1
  <2>2. W[a] = G[a] /\ W[b] = G[b]  BY <1>17
  <2>. QED  BY <1>12, <2>1, <2>2
<1>20. ASSUME NEW i \in z + 1 .. Len(W) PROVE W[i] = <<NUL>>
  <2>1. PICK j \in 1 .. m : i = z + j
    <3>1. i - z \in 1 .. m /\ i = z + (i - z)  BY <1>17
    <3>. QED  BY <3>1
  <2>2. W[z + j] = q[j]  BY <1>17
  <2>. QED  BY <1>13, <1>14, <2>1, <2>2
<1>. QED  BY <1>15, <1>16, <1>17, <1>18, <1>19, <1>20 DEF lines, S

(* What bgextractfile writes over a map is the map of the new names. *)
LEMMA ExtractIs ==
    ASSUME names \in Names, region \in Seq(Characters), IsMap(region, names),
           NEW request \in Requests, NEW str \in Replacements
    PROVE  LET scan == Scan(request, str)
               R == Renaming(request, str)
               W == Writes(scan)
           IN /\ R \in Names
              /\ Joined(scan.lines) \in Seq(Characters) /\ IsMap(Joined(scan.lines), R)
              /\ W \in Seq(Seq(Characters))
              /\ FlattenSeq(W) \in Seq(Characters) /\ IsMap(FlattenSeq(W), R)
              /\ Len(FlattenSeq(W)) >= EndOf(names, NumFiles)
              /\ \A m \in 0 .. Len(W), id \in Ids :
                    ~InLine(R, id, Len(FlattenSeq(SubSeq(W, 1, m))))
<1>. DEFINE scan == Scan(request, str)
            R == Renaming(request, str)
            W == Writes(scan)
            e == EndOf(R, NumFiles)
<1>1. /\ scan \in Scans /\ Len(scan.lines) >= NumFiles
      /\ \A id \in Ids : scan.lines[id] = LineOf(R[id])
      /\ \A i \in NumFiles + 1 .. Len(scan.lines) : OnlyNULs(scan.lines[i])
      /\ EndOf(names, NumFiles) <= e + scan.removed
  BY ScanIs
<1>2. R \in Names  BY RenamingIs
<1>3. R \in Named /\ names \in Named  BY <1>2, NamesAre DEF Named
<1>. HIDE DEF scan, R
<1>4. scan.lines \in Seq(Texts) /\ scan.removed \in Int  BY <1>1 DEF Scans
<1>5. PICK n \in Nat : n = Len(scan.lines) /\ n >= NumFiles  BY <1>1, <1>4
<1>6. Joined(scan.lines) \in Seq(Characters) /\ IsMap(Joined(scan.lines), R)
  BY <1>1, <1>3, <1>4, JoinedMap
<1>7. /\ W \in Seq(Seq(Characters))
      /\ Len(W) >= 2 * n /\ Len(W) >= 2 * n + scan.removed
      /\ \A i \in 1 .. n : W[2 * i - 1] = scan.lines[i] /\ W[2 * i] = <<NL>>
      /\ \A i \in 2 * n + 1 .. Len(W) : W[i] = <<NUL>>
  BY <1>1, <1>5, WritesAre
<1>. HIDE DEF W
<1>8. PICK N \in Nat, z \in Nat, l \in Nat :
         N = NumFiles /\ z = 2 * n /\ l = Len(W) /\ z <= l /\ 2 * N <= z /\ N <= n
  BY <1>5, <1>7, NumFilesAssumption
<1>9. \A id \in Ids : W[2 * id - 1] = LineOf(R[id]) /\ W[2 * id] = <<NL>>
  <2>1. Ids \subseteq 1 .. n  BY <1>8 DEF Ids
  <2>. QED  BY <1>1, <1>7, <2>1
<1>10. ASSUME NEW i \in 2 * NumFiles + 1 .. Len(W), NEW j \in 1 .. Len(W[i])
       PROVE  W[i][j] \in {NL, NUL}
  <2>1. i \in Nat /\ i >= 2 * N + 1 /\ i <= l  BY <1>8
  <2>2. CASE i > z
    <3>1. W[i] = <<NUL>>
      <4>1. i \in z + 1 .. l  BY <1>8, <2>1, <2>2
      <4>. QED  BY <1>7, <1>8, <4>1
    <3>. QED  BY <3>1
  <2>3. CASE i <= z
    <3>1. PICK h \in Nat : i = 2 * h \/ i = 2 * h + 1  BY <2>1, EvenOrOdd
    <3>2. CASE i = 2 * h
      <4>1. h \in 1 .. n  BY <1>8, <2>1, <2>3, <3>2
      <4>2. W[i] = <<NL>>  BY <1>7, <3>2, <4>1
      <4>. QED  BY <4>2
    <3>3. CASE i = 2 * h + 1
      <4>1. PICK k \in N + 1 .. n : k = h + 1 /\ i = 2 * k - 1
        <5>1. h + 1 \in N + 1 .. n /\ i = 2 * (h + 1) - 1  BY <1>8, <2>1, <2>3, <3>3
        <5>. QED  BY <5>1
      <4>2. k \in 1 .. n /\ k \in NumFiles + 1 .. Len(scan.lines)  BY <1>5, <1>8
      <4>3. W[i] = scan.lines[k]  BY <1>7, <4>1, <4>2
      <4>4. OnlyNULs(scan.lines[k])  BY <1>1, <4>2
      <4>. QED  BY <4>3, <4>4 DEF OnlyNULs
    <3>. QED  BY <3>1, <3>2, <3>3
  <2>. QED  BY <1>8, <2>1, <2>2, <2>3
<1>11. z \in 2 * NumFiles .. Len(W) /\ Len(W) >= 2 * NumFiles  BY <1>8
<1>12. \A i \in z + 1 .. Len(W) : Len(W[i]) >= 1
  <2>1. \A i \in z + 1 .. Len(W) : W[i] = <<NUL>>  BY <1>7, <1>8
  <2>2. PICK x : x = <<NUL>>  OBVIOUS
  <2>3. Len(x) >= 1  BY <2>2
  <2>4. \A i \in z + 1 .. Len(W) : W[i] = x  BY <2>1, <2>2
  <2>. QED  BY <2>3, <2>4
<1>13. /\ FlattenSeq(W) \in Seq(Characters) /\ IsMap(FlattenSeq(W), R)
       /\ Len(FlattenSeq(W)) >= e + (Len(W) - z)
       /\ \A m \in 0 .. Len(W), id \in Ids : ~InLine(R, id, Len(FlattenSeq(SubSeq(W, 1, m))))
  BY <1>3, <1>7, <1>9, <1>10, <1>11, <1>12, WritesMap
<1>14. Len(FlattenSeq(W)) >= EndOf(names, NumFiles)
  <2>1. NumFiles \in 0 .. NumFiles  BY NumFilesAssumption
  <2>2. e \in Nat /\ EndOf(names, NumFiles) \in Nat  BY <1>3, <2>1, EndStep
  <2>3. Len(FlattenSeq(W)) \in Nat  BY <1>13
  <2>4. Len(W) - z >= scan.removed  BY <1>4, <1>7, <1>8
  <2>. HIDE DEF e
  <2>. QED  BY <1>1, <1>4, <1>8, <1>13, <2>2, <2>3, <2>4
<1>. QED  BY <1>2, <1>6, <1>7, <1>13, <1>14 DEF W, R, scan

(* The lines of the text file are those of some names. *)
AreLinesOf(lines, ns) == \A id \in Ids : lines[id] = LineOf(ns[id])

(* The lines that the script writes back *)
LEMMA ReplaceIs ==
    ASSUME NEW lines \in Seq(Texts), Len(lines) = NumFiles, NEW ns \in Names, AreLinesOf(lines, ns)
    PROVE  LET W == [i \in DOMAIN lines |-> Append(lines[i], NL)]
           IN /\ [id \in Ids |-> Candidate(After(lines[id], Space))] = ns
              /\ W \in Seq(Seq(Characters))
              /\ FlattenSeq(W) \in Seq(Characters) /\ IsMap(FlattenSeq(W), ns)
              /\ \A m \in 0 .. Len(W), id \in Ids :
                    ~InLine(ns, id, Len(FlattenSeq(SubSeq(W, 1, m))))
<1>. DEFINE W == [i \in DOMAIN lines |-> Append(lines[i], NL)]
<1>1. NumFiles \in Nat /\ DOMAIN lines = Ids /\ Ids = 1 .. NumFiles
  BY NumFilesAssumption DEF Ids
<1>2. ns \in Named  BY NamesAre DEF Named
<1>3. \A id \in Ids : ns[id] \in WellFormed /\ lines[id] = LineOf(ns[id])
  BY <1>2 DEF Named, AreLinesOf
<1>4. [id \in Ids |-> Candidate(After(lines[id], Space))] = ns
  <2>1. \A id \in Ids : Candidate(After(lines[id], Space)) = ns[id]
    <3>1. TAKE id \in Ids
    <3>2. ns[id] \in WellFormed /\ lines[id] = LineOf(ns[id])  BY <1>3
    <3>3. After(LineOf(ns[id]), Space) = Text(ns[id])  BY <3>2, LineOfIs
    <3>4. Candidate(Text(ns[id])) = ns[id]  BY <3>2, TextIs
    <3>. QED  BY <3>2, <3>3, <3>4
  <2>2. ns = [id \in Ids |-> ns[id]]  BY <1>2 DEF Named
  <2>. QED  BY <2>1, <2>2
<1>5. FlattenSeq(W) \in Seq(Characters) /\ IsMap(FlattenSeq(W), ns)
  <2>1. \A i \in NumFiles + 1 .. Len(lines) : OnlyNULs(lines[i])  BY <1>1
  <2>2. Len(lines) >= NumFiles  BY <1>1
  <2>3. Joined(lines) \in Seq(Characters) /\ IsMap(Joined(lines), ns)
    BY <1>2, <1>3, <2>1, <2>2, JoinedMap
  <2>. QED  BY <2>3 DEF Joined
<1>6. W \in Seq(Seq(Characters)) /\ Len(W) = NumFiles
  <2>1. \A i \in Ids : Append(lines[i], NL) \in Seq(Characters)
    <3>1. TAKE i \in Ids
    <3>2. Texts \subseteq Seq(Characters) /\ NL \in Characters
      BY DEF Texts, LineText, Characters
    <3>3. lines[i] \in Texts  BY <1>1
    <3>4. PICK s \in Seq(Characters) : s = lines[i]  BY <3>2, <3>3
    <3>5. Append(s, NL) \in Seq(Characters)  BY <3>2
    <3>. QED  BY <3>4, <3>5
  <2>2. W \in [1 .. NumFiles -> Seq(Characters)]  BY <1>1, <2>1
  <2>. HIDE DEF W
  <2>. QED  BY <1>1, <2>2, MakesSeq
<1>7. \A i \in Ids : W[i] = Append(LineOf(ns[i]), NL)  BY <1>1, <1>3
<1>. HIDE DEF W
<1>8. ASSUME NEW m \in 0 .. Len(W), NEW id \in Ids
      PROVE  ~InLine(ns, id, Len(FlattenSeq(SubSeq(W, 1, m))))
  <2>1. m \in 0 .. NumFiles /\ m \in Nat /\ 1 .. m \subseteq Ids  BY <1>1, <1>6
  <2>2. SubSeq(W, 1, m) = [i \in 1 .. m |-> Append(LineOf(ns[i]), NL)]
    <3>1. SubSeq(W, 1, m) = [i \in 1 .. m |-> W[i]]  BY <1>6, <2>1
    <3>. QED  BY <1>7, <2>1, <3>1
  <2>3. EndOf(ns, m) = Len(FlattenSeq([i \in 1 .. m |-> Append(LineOf(ns[i]), NL)]))
    <3>. DEFINE l == [i \in 1 .. m |-> LineOf(ns[i])]
    <3>1. [i \in DOMAIN l |-> Append(l[i], NL)] = [i \in 1 .. m |-> Append(LineOf(ns[i]), NL)]
      OBVIOUS
    <3>. HIDE DEF l
    <3>2. Joined(l) = FlattenSeq([i \in 1 .. m |-> Append(LineOf(ns[i]), NL)])
      BY <3>1 DEF Joined
    <3>. QED  BY <3>2 DEF EndOf, l
  <2>4. PICK p \in Nat : p = EndOf(ns, m)  BY <1>2, <2>1, EndStep
  <2>5. ~InLine(ns, id, p)  BY <1>2, <2>1, <2>4, NotInLine
  <2>. QED  BY <2>2, <2>3, <2>4, <2>5
<1>. QED  BY <1>4, <1>5, <1>6, <1>8 DEF W

(* The lines that the script reads *)
LEMMA PythonLinesAre ==
    ASSUME NEW ns \in Names, NEW text \in Seq(Characters), IsMap(text, ns)
    PROVE  PythonLines(text) \in Seq(Texts) /\ AreLinesOf(PythonLines(text), ns)
<1>1. ns \in Named  BY NamesAre DEF Named
<1>2. /\ Split(text) \in Seq(Texts) /\ Len(Split(text)) >= NumFiles + 1
      /\ \A i \in 1 .. NumFiles : Split(text)[i] = LineOf(ns[i])
  BY <1>1, SplitMap
<1>3. PICK s \in Seq(Texts) : s = Split(text)  BY <1>2
<1>4. AreLinesOf(s, ns)  BY <1>2, <1>3 DEF AreLinesOf, Ids
<1>5. PythonLines(text) = IF Last(s) = <<>> THEN Front(s) ELSE s  BY <1>3 DEF PythonLines
<1>6. PICK n \in Nat : n = Len(s) - 1 /\ NumFiles <= n
  <2>1. NumFiles \in Nat /\ Len(s) \in Nat /\ Len(s) >= NumFiles + 1
    BY <1>2, <1>3, NumFilesAssumption
  <2>2. Len(s) - 1 \in Nat /\ NumFiles <= Len(s) - 1  BY <2>1
  <2>. QED  BY <2>2
<1>7. Front(s) = SubSeq(s, 1, n)  BY <1>6 DEF Front
<1>8. SubSeq(s, 1, n) \in Seq(Texts) /\ \A i \in 1 .. n : SubSeq(s, 1, n)[i] = s[i]
  BY <1>6
<1>9. Ids \subseteq 1 .. n  BY <1>6, NumFilesAssumption DEF Ids
<1>10. AreLinesOf(Front(s), ns)  BY <1>4, <1>7, <1>8, <1>9 DEF AreLinesOf
<1>. QED  BY <1>4, <1>5, <1>7, <1>8, <1>10

(* The user's change *)
LEMMA EditIs ==
    ASSUME NEW lines \in Seq(Texts), Len(lines) >= NumFiles, NEW ns \in Names, AreLinesOf(lines, ns),
           NEW id \in Ids, NEW entry \in Entries
    PROVE  LET edited == [SubSeq(lines, 1, NumFiles) EXCEPT ![id] = LineOf(entry)]
           IN edited \in Seq(Texts) /\ \E ms \in Names : AreLinesOf(edited, ms)
<1>. DEFINE edited == [SubSeq(lines, 1, NumFiles) EXCEPT ![id] = LineOf(entry)]
            ms == [ns EXCEPT ![id] = entry]
<1>1. NumFiles \in Nat /\ Ids = 1 .. NumFiles  BY NumFilesAssumption DEF Ids
<1>2. ns \in [Ids -> Entries \cup {Candidate(s) : s \in Replacements}]  BY DEF Names
<1>3. ms \in Names  BY <1>2 DEF Names
<1>4. ms[id] = entry /\ \A i \in Ids : i # id => ms[i] = ns[i]  BY <1>2
<1>5. LineOf(entry) \in Texts
  <2>1. ms \in Named  BY <1>3, NamesAre DEF Named
  <2>2. ms[id] \in WellFormed  BY <2>1 DEF Named
  <2>. QED  BY <1>4, <2>2, LineOfIs
<1>. HIDE DEF ms
<1>6. PICK t \in Seq(Texts) : /\ t = SubSeq(lines, 1, NumFiles) /\ Len(t) = NumFiles
                              /\ \A i \in Ids : t[i] = lines[i]
  <2>1. SubSeq(lines, 1, NumFiles) \in Seq(Texts) /\ Len(SubSeq(lines, 1, NumFiles)) = NumFiles
        /\ \A i \in Ids : SubSeq(lines, 1, NumFiles)[i] = lines[i]
    BY <1>1
  <2>. QED  BY <2>1
<1>7. edited = [t EXCEPT ![id] = LineOf(entry)]  BY <1>6
<1>8. t \in [Ids -> Texts]
  <2>1. t \in [1 .. Len(t) -> Texts]  OBVIOUS
  <2>2. 1 .. Len(t) = Ids  BY <1>1, <1>6
  <2>. QED  BY <2>1, <2>2
<1>9. edited \in [1 .. NumFiles -> Texts]  BY <1>1, <1>5, <1>7, <1>8
<1>10. edited[id] = LineOf(entry) /\ \A i \in Ids : i # id => edited[i] = t[i]
  BY <1>7, <1>8
<1>. HIDE DEF edited
<1>11. edited \in Seq(Texts)  BY <1>1, <1>9, MakesSeq
<1>12. AreLinesOf(edited, ms)
  <2>1. ASSUME NEW i \in Ids PROVE edited[i] = LineOf(ms[i])
    <3>1. CASE i = id  BY <1>4, <1>10, <3>1
    <3>2. CASE i # id
      <4>1. lines[i] = LineOf(ns[i])  BY DEF AreLinesOf
      <4>. QED  BY <1>4, <1>6, <1>10, <3>2, <4>1
    <3>. QED  BY <3>1, <3>2
  <2>. QED  BY <2>1 DEF AreLinesOf
<1>. QED  BY <1>3, <1>11, <1>12 DEF edited

-----------------------------------------------------------------------------
(* The inductive invariant *)

(* The text when every write is done, and the position after the m-th *)
Coming == SubSeq(region, 1, pos) \o FlattenSeq(todo)
Reached(m) == pos + Len(FlattenSeq(SubSeq(todo, 1, m)))

(* The types, with sequences where TypeOK looks at their elements *)
Types ==
    /\ compressed \in BOOLEAN /\ torn \in BOOLEAN
    /\ pc \in {"idle", "extracting", "replacing", "killed"}
    /\ region \in Seq(Characters)
    /\ todo \in Seq(Seq(Characters))
    /\ pos \in 0 .. Len(region)
    /\ txt \in Seq(Texts)
    /\ names \in Names /\ target \in Names
    /\ runs \in 0 .. MaxRuns

(* Behind the position the old map is still there. *)
Behind ==
    /\ Len(region) >= EndOf(names, NumFiles)
    /\ \A i \in pos + 1 .. Len(region) :
          IF i <= EndOf(names, NumFiles) THEN region[i] = Joined(LinesOf(names))[i]
          ELSE region[i] \in {NL, NUL}

(* No write begins within a line. *)
Whole == \A m \in 0 .. Len(todo), id \in Ids : ~InLine(target, id, Reached(m))

(* A map is rewritten in place: when all is written it is the map of the   *)
(* new names, bgextractfile reaches the end of the old lines, and no write *)
(* stops within a line.                                                    *)
Writing ==
    /\ IsMap(Coming, target)
    /\ Behind
    /\ pc = "extracting" => Len(Coming) >= EndOf(names, NumFiles)
    /\ Whole

(* A compressed map is replaced at once: the old one is there or the new. *)
Streaming ==
    /\ pos = 0 /\ pc # "replacing"
    /\ \/ ~torn /\ todo = <<>> /\ IsMap(region, target)
       \/ Len(todo) = 1 /\ IsMap(todo[1], target)

(* Between two tools the region is the map of the names. *)
Idle == IsMap(region, names) /\ pos = 0 /\ ~torn /\ todo = <<>>

(* A text file with enough lines has a line for each id. *)
TxtInv == Len(txt) >= NumFiles => \E ns \in Names : AreLinesOf(txt, ns)

(* What holds whatever tools have run, and however far the last one is *)
IInv ==
    /\ Types
    /\ pc = "idle" => Idle
    /\ pc # "idle" /\ ~compressed => Writing
    /\ pc # "idle" /\ compressed => Streaming
    /\ TxtInv
    /\ torn => compressed

(* The type invariant follows. *)
LEMMA TypesGiveTypeOK == Types => TypeOK
<1>. SUFFICES ASSUME Types PROVE TypeOK
  OBVIOUS
<1>1. \A i \in DOMAIN region : region[i] \in Characters  BY DEF Types
<1>2. \A i \in DOMAIN todo : \A j \in DOMAIN todo[i] : todo[i][j] \in Characters
  <2>1. ASSUME NEW i \in DOMAIN todo, NEW j \in DOMAIN todo[i] PROVE todo[i][j] \in Characters
    <3>1. PICK s \in Seq(Characters) : s = todo[i]  BY DEF Types
    <3>2. j \in DOMAIN s  BY <3>1
    <3>3. s[j] \in Characters  BY <3>2
    <3>. QED  BY <3>1, <3>3
  <2>. QED  BY <2>1
<1>3. \A i \in DOMAIN txt : \A j \in DOMAIN txt[i] : txt[i][j] \in Characters \ {NL}
  <2>1. ASSUME NEW i \in DOMAIN txt, NEW j \in DOMAIN txt[i]
        PROVE  txt[i][j] \in Characters \ {NL}
    <3>1. txt[i] \in Texts  BY DEF Types
    <3>2. PICK s \in Seq(LineText) : s = txt[i]  BY <3>1 DEF Texts
    <3>3. j \in DOMAIN s  BY <3>2
    <3>4. s[j] \in LineText  BY <3>3
    <3>. QED  BY <3>2, <3>4 DEF LineText
  <2>. QED  BY <2>1
<1>. QED  BY <1>1, <1>2, <1>3 DEF Types, TypeOK

(* bgindex writes the map of the names. *)
LEMMA Starts == Init => IInv
<1>. SUFFICES ASSUME Init PROVE IInv
  OBVIOUS
<1>1. names \in Names /\ names \in Named
  <2>1. names \in Names  BY DEF Init, Names
  <2>. QED  BY <2>1, NamesAre DEF Named
<1>2. region = Joined(LinesOf(names))  BY DEF Init, LinesOf
<1>3. NumFiles \in Nat /\ NumFiles \in 0 .. NumFiles  BY NumFilesAssumption
<1>4. /\ LinesOf(names) \in Seq(Texts) /\ Len(LinesOf(names)) = NumFiles
      /\ \A id \in Ids : LinesOf(names)[id] = LineOf(names[id])
  BY <1>1, LinesOfNames
<1>5. region \in Seq(Characters) /\ IsMap(region, names)
  <2>1. PICK ls \in Seq(Texts) : ls = LinesOf(names)  BY <1>4
  <2>2. Len(ls) >= NumFiles /\ \A id \in Ids : ls[id] = LineOf(names[id])  BY <1>3, <1>4, <2>1
  <2>3. \A i \in NumFiles + 1 .. Len(ls) : OnlyNULs(ls[i])  BY <1>3, <1>4, <2>1
  <2>4. Joined(ls) \in Seq(Characters) /\ IsMap(Joined(ls), names)
    BY <1>1, <2>2, <2>3, JoinedMap
  <2>. QED  BY <1>2, <2>1, <2>4
<1>6. todo = <<>> /\ txt = <<>> /\ pos = 0 /\ runs = 0 /\ torn = FALSE /\ pc = "idle"
      /\ compressed \in BOOLEAN /\ target = names
  BY DEF Init
<1>7. Types
  <2>1. todo \in Seq(Seq(Characters)) /\ txt \in Seq(Texts)  BY <1>6
  <2>2. pos \in 0 .. Len(region)  BY <1>5, <1>6
  <2>3. runs \in 0 .. MaxRuns  BY <1>6, MaxRunsAssumption
  <2>. QED  BY <1>1, <1>5, <1>6, <2>1, <2>2, <2>3 DEF Types
<1>8. Idle  BY <1>5, <1>6 DEF Idle
<1>9. TxtInv
  <2>1. Len(txt) = 0  BY <1>6
  <2>2. ~(Len(txt) >= NumFiles)  BY <2>1, NumFilesAssumption
  <2>. QED  BY <2>2 DEF TxtInv
<1>. QED  BY <1>6, <1>7, <1>8, <1>9 DEF IInv

(* Parts that are texts make a text. *)
LEMMA FlattenInSeq ==
    ASSUME NEW X, NEW s \in Seq(Seq(X))
    PROVE  FlattenSeq(s) \in Seq(X) /\ Len(FlattenSeq(s)) \in Nat
<1>1. PICK c : UpTo(c, s, X) /\ FlattenSeq(s) = c[Len(s)]  BY FlattenIs
<1>2. Len(s) \in 0 .. Len(s)  OBVIOUS
<1>3. c[Len(s)] \in Seq(X)  BY <1>1, <1>2 DEF UpTo
<1>4. Len(c[Len(s)]) \in Nat  BY <1>3
<1>. QED  BY <1>1, <1>3, <1>4

(* The text after a write: what is up to its end, and what is behind *)
Overlaid(new, text, at, bytes, X) ==
    /\ new \in Seq(X) /\ Len(new) >= Len(text)
    /\ at + Len(bytes) \in 0 .. Len(new)
    /\ SubSeq(new, 1, at + Len(bytes)) = SubSeq(text, 1, at) \o bytes
    /\ \A i \in at + Len(bytes) + 1 .. Len(new) :
          i \in at + 1 .. Len(text) /\ Len(new) = Len(text) /\ new[i] = text[i]

(* A write overlays the text with its bytes. *)
LEMMA OverlayIs ==
    ASSUME NEW X, NEW text \in Seq(X), NEW at \in 0 .. Len(text), NEW bytes \in Seq(X)
    PROVE  Overlaid(Overlay(text, at, bytes), text, at, bytes, X)
<1>. DEFINE new == Overlay(text, at, bytes)
<1>1. PICK l \in Nat, a \in Nat, b \in Nat, e \in Nat :
         /\ l = Len(text) /\ a = at /\ b = Len(bytes) /\ e = a + b /\ a <= l
  <2>1. Len(text) \in Nat /\ at \in Nat /\ Len(bytes) \in Nat /\ at <= Len(text)  OBVIOUS
  <2>2. at + Len(bytes) \in Nat  BY <2>1
  <2>. QED  BY <2>1, <2>2
<1>2. PICK m \in Nat : m = Max({l, e}) /\ m >= l /\ m >= e /\ (m = l \/ m = e)
  <2>. DEFINE S == {l, e}
  <2>1. PICK d \in Nat : d = l + e  BY <1>1
  <2>2. S \in SUBSET (0 .. d) /\ S # {}  BY <2>1
  <2>3. l \in S /\ e \in S /\ \A x \in S : x \in Nat /\ (x = l \/ x = e)  OBVIOUS
  <2>. HIDE DEF S
  <2>4. Max(S) \in S /\ \A y \in S : Max(S) >= y  BY <2>2, MaxIsGreatest DEF Max
  <2>5. PICK m \in Nat : m = Max(S)  BY <2>3, <2>4
  <2>6. m >= l /\ m >= e /\ (m = l \/ m = e)  BY <2>3, <2>4, <2>5
  <2>. QED  BY <2>5, <2>6 DEF S
<1>3. new = [i \in 1 .. m |-> IF i \in a + 1 .. e THEN bytes[i - a] ELSE text[i]]
  BY <1>1, <1>2 DEF Overlay
<1>4. \A i \in 1 .. m : new[i] = IF i \in a + 1 .. e THEN bytes[i - a] ELSE text[i]
  BY <1>3
<1>5. ASSUME NEW i \in 1 .. m PROVE new[i] \in X
  <2>1. CASE i \in a + 1 .. e
    <3>1. i - a \in 1 .. b  BY <1>1, <2>1
    <3>2. bytes[i - a] \in X  BY <1>1, <3>1
    <3>. QED  BY <1>4, <2>1, <3>2
  <2>2. CASE i \notin a + 1 .. e
    <3>1. i \in 1 .. l  BY <1>1, <1>2, <2>2
    <3>2. text[i] \in X  BY <1>1, <3>1
    <3>. QED  BY <1>4, <2>2, <3>2
  <2>. QED  BY <2>1, <2>2
<1>6. new \in [1 .. m -> X]
  <2>1. new = [i \in 1 .. m |-> new[i]]  BY <1>3
  <2>. HIDE DEF new
  <2>. QED  BY <1>5, <2>1
<1>7. new \in Seq(X) /\ Len(new) = m  BY <1>6, MakesSeq
<1>8. SubSeq(new, 1, e) = SubSeq(text, 1, a) \o bytes
  <2>1. PICK s \in Seq(X) : s = SubSeq(text, 1, a) /\ Len(s) = a /\ \A i \in 1 .. a : s[i] = text[i]
    <3>1. SubSeq(text, 1, a) \in Seq(X) /\ Len(SubSeq(text, 1, a)) = a
          /\ \A i \in 1 .. a : SubSeq(text, 1, a)[i] = text[i]
      BY <1>1
    <3>. QED  BY <3>1
  <2>2. PICK u \in Seq(X) : /\ u = s \o bytes /\ Len(u) = e
                            /\ \A i \in 1 .. a : u[i] = s[i]
                            /\ \A i \in 1 .. b : u[a + i] = bytes[i]
    <3>1. s \o bytes \in Seq(X) /\ Len(s \o bytes) = e
          /\ (\A i \in 1 .. a : (s \o bytes)[i] = s[i])
          /\ \A i \in 1 .. b : (s \o bytes)[a + i] = bytes[i]
      BY <1>1, <2>1
    <3>. QED  BY <3>1
  <2>3. PICK v \in Seq(X) : /\ v = SubSeq(new, 1, e) /\ Len(v) = e
                            /\ \A i \in 1 .. e : v[i] = new[i]
    <3>1. SubSeq(new, 1, e) \in Seq(X) /\ Len(SubSeq(new, 1, e)) = e
          /\ \A i \in 1 .. e : SubSeq(new, 1, e)[i] = new[i]
      BY <1>2, <1>7
    <3>. QED  BY <3>1
  <2>4. ASSUME NEW i \in 1 .. e PROVE v[i] = u[i]
    <3>1. i \in 1 .. m /\ v[i] = new[i]  BY <1>2, <2>3
    <3>2. CASE i \in 1 .. a
      <4>1. new[i] = text[i]
        <5>1. i \notin a + 1 .. e  BY <1>1, <3>2
        <5>. QED  BY <1>4, <3>1, <5>1
      <4>. QED  BY <2>1, <2>2, <3>1, <3>2, <4>1
    <3>3. CASE i \notin 1 .. a
      <4>1. PICK j \in 1 .. b : j = i - a /\ i = a + j
        <5>1. i - a \in 1 .. b /\ i = a + (i - a)  BY <1>1, <3>3
        <5>. QED  BY <5>1
      <4>2. i \in a + 1 .. e  BY <1>1, <3>3
      <4>3. new[i] = bytes[j]  BY <1>4, <3>1, <4>1, <4>2
      <4>4. u[i] = bytes[j]  BY <2>2, <4>1
      <4>. QED  BY <3>1, <4>3, <4>4
    <3>. QED  BY <3>2, <3>3
  <2>5. v = u
    <3>1. \A i \in 1 .. Len(v) : v[i] = u[i]  BY <2>3, <2>4
    <3>2. Len(v) = Len(u)  BY <2>2, <2>3
    <3>. QED  BY <3>1, <3>2, SameSeq
  <2>. QED  BY <2>1, <2>2, <2>3, <2>5
<1>9. ASSUME NEW i \in e + 1 .. m PROVE i \in a + 1 .. l /\ m = l /\ new[i] = text[i]
  <2>1. i \in 1 .. m /\ i \notin a + 1 .. e  BY <1>1
  <2>2. m = l  BY <1>1, <1>2
  <2>3. i \in a + 1 .. l  BY <1>1, <2>2
  <2>. QED  BY <1>4, <2>1, <2>2, <2>3
<1>10. e \in 0 .. m  BY <1>2
<1>. QED  BY <1>1, <1>2, <1>7, <1>8, <1>9, <1>10 DEF new, Overlaid

(* Both tools begin at the start of the region. *)
LEMMA BeginsWriting ==
    ASSUME Types, Idle, region' = region, names' = names, pos' = 0,
           target' \in Names, todo' \in Seq(Seq(Characters)),
           IsMap(FlattenSeq(todo'), target'),
           pc' = "extracting" => Len(FlattenSeq(todo')) >= EndOf(names, NumFiles),
           \A m \in 0 .. Len(todo'), id \in Ids :
              ~InLine(target', id, Len(FlattenSeq(SubSeq(todo', 1, m))))
    PROVE  Writing'
<1>1. PICK W : W = todo'  OBVIOUS
<1>2. PICK R : R = target'  OBVIOUS
<1>3. FlattenSeq(W) \in Seq(Characters)  BY <1>1, FlattenInSeq
<1>4. region \in Seq(Characters) /\ names \in Names  BY DEF Types
<1>5. Coming' = FlattenSeq(W)
  <2>1. Coming' = SubSeq(region, 1, 0) \o FlattenSeq(W)  BY <1>1 DEF Coming
  <2>2. SubSeq(region, 1, 0) = <<>>  BY <1>4
  <2>3. <<>> \o FlattenSeq(W) = FlattenSeq(W)
    <3>1. PICK s \in Seq(Characters) : s = FlattenSeq(W)  BY <1>3
    <3>2. <<>> \o s = s  OBVIOUS
    <3>. QED  BY <3>1, <3>2
  <2>. QED  BY <2>1, <2>2, <2>3
<1>6. IsMap(Coming', target')  BY <1>1, <1>5
<1>7. Behind'
  <2>1. Len(region) >= EndOf(names, NumFiles)
        /\ \A i \in 1 .. Len(region) :
              IF i <= EndOf(names, NumFiles) THEN region[i] = Joined(LinesOf(names))[i]
              ELSE region[i] \in {NL, NUL}
    BY DEF Idle, IsMap
  <2>2. 0 + 1 = 1  OBVIOUS
  <2>. QED  BY <2>1, <2>2 DEF Behind
<1>8. Whole'
  <2>1. ASSUME NEW m \in 0 .. Len(W), NEW id \in Ids PROVE ~InLine(R, id, Reached(m)')
    <3>1. SubSeq(W, 1, m) \in Seq(Seq(Characters))  BY <1>1
    <3>2. PICK p \in Nat : p = Len(FlattenSeq(SubSeq(W, 1, m)))  BY <3>1, FlattenInSeq
    <3>3. Reached(m)' = 0 + p  BY <1>1, <3>2 DEF Reached
    <3>4. 0 + p = p  OBVIOUS
    <3>. QED  BY <1>1, <1>2, <3>2, <3>3, <3>4
  <2>. QED  BY <1>1, <1>2, <2>1 DEF Whole
<1>. QED  BY <1>5, <1>6, <1>7, <1>8, <1>1 DEF Writing

(* The position after m more writes, once the first is done *)
LEMMA ReachedStep ==
    ASSUME NEW X, NEW s \in Seq(Seq(X)), s # <<>>, NEW m \in 0 .. Len(Tail(s))
    PROVE  /\ m + 1 \in 0 .. Len(s)
           /\ Len(FlattenSeq(SubSeq(s, 1, m + 1))) =
                 Len(Head(s)) + Len(FlattenSeq(SubSeq(Tail(s), 1, m)))
<1>. DEFINE u == SubSeq(s, 1, m + 1)
            t == SubSeq(Tail(s), 1, m)
<1>1. PICK n \in Nat : n = Len(Tail(s)) /\ Len(s) = n + 1 /\ m <= n /\ m \in Nat
  <2>1. Tail(s) \in Seq(Seq(X)) /\ Len(s) \in Nat /\ Len(s) # 0  OBVIOUS
  <2>2. Len(Tail(s)) = Len(s) - 1  BY <2>1
  <2>3. Len(s) - 1 \in Nat /\ Len(s) = (Len(s) - 1) + 1  BY <2>1
  <2>4. PICK n \in Nat : n = Len(s) - 1  BY <2>3
  <2>5. n = Len(Tail(s)) /\ Len(s) = n + 1  BY <2>2, <2>3, <2>4
  <2>6. m <= n /\ m \in Nat  BY <2>4, <2>5
  <2>. QED  BY <2>5, <2>6
<1>2. /\ Tail(s) \in Seq(Seq(X)) /\ Head(s) \in Seq(X) /\ Head(s) = s[1]
      /\ \A i \in 1 .. n : Tail(s)[i] = s[i + 1]
  BY <1>1
<1>3. PICK k \in 1 .. n + 1 : k = m + 1
  <2>1. m + 1 \in 1 .. n + 1  BY <1>1
  <2>. QED  BY <2>1
<1>4. u \in Seq(Seq(X)) /\ Len(u) = k /\ \A i \in 1 .. k : u[i] = s[i]
  BY <1>1, <1>3
<1>5. t \in Seq(Seq(X)) /\ Len(t) = m /\ \A i \in 1 .. m : t[i] = Tail(s)[i]
  BY <1>1, <1>2
<1>. HIDE DEF u, t
<1>6. u # <<>> /\ Head(u) = Head(s)  BY <1>2, <1>3, <1>4
<1>7. Tail(u) = t
  <2>1. PICK v \in Seq(Seq(X)) : /\ v = Tail(u) /\ Len(v) = m
                                 /\ \A i \in 1 .. m : v[i] = u[i + 1]
    <3>1. Tail(u) \in Seq(Seq(X)) /\ Len(Tail(u)) = m /\ \A i \in 1 .. m : Tail(u)[i] = u[i + 1]
      BY <1>1, <1>3, <1>4, <1>6
    <3>. QED  BY <3>1
  <2>2. ASSUME NEW i \in 1 .. m PROVE v[i] = t[i]
    <3>1. i \in 1 .. n /\ i + 1 \in 1 .. k  BY <1>1, <1>3
    <3>2. v[i] = s[i + 1]  BY <1>4, <2>1, <3>1
    <3>3. t[i] = s[i + 1]  BY <1>2, <1>5, <3>1
    <3>. QED  BY <3>2, <3>3
  <2>3. \A i \in 1 .. Len(v) : v[i] = t[i]  BY <2>1, <2>2
  <2>4. Len(v) = Len(t)  BY <1>5, <2>1
  <2>5. v = t  BY <1>5, <2>3, <2>4, SameSeq
  <2>. QED  BY <2>1, <2>5
<1>8. FlattenSeq(u) = Head(u) \o FlattenSeq(Tail(u))  BY <1>4, <1>6, FlattenHead
<1>9. PICK f \in Seq(X) : f = FlattenSeq(t)  BY <1>5, FlattenInSeq
<1>10. PICK h \in Seq(X) : h = Head(s)  BY <1>2
<1>11. FlattenSeq(u) = h \o f  BY <1>6, <1>7, <1>8, <1>9, <1>10
<1>12. Len(FlattenSeq(u)) = Len(h) + Len(f)  BY <1>11
<1>13. m + 1 \in 0 .. Len(s)  BY <1>1
<1>. QED  BY <1>9, <1>10, <1>12, <1>13 DEF u, t

(* A write moves its bytes from what is to come to what is there. *)
LEMMA WriteKeeps == IInv /\ Write => IInv'
<1>. SUFFICES ASSUME IInv, Write PROVE IInv'
  OBVIOUS
<1>. DEFINE h == Head(todo)
            t == Tail(todo)
            new == Overlay(region, pos, h)
<1>1. /\ pc \in {"extracting", "replacing"} /\ ~compressed /\ todo # <<>>
      /\ region' = new /\ pos' = pos + Len(h) /\ todo' = t
      /\ compressed' = compressed /\ torn' = torn /\ pc' = pc /\ txt' = txt
      /\ names' = names /\ target' = target /\ runs' = runs
  BY DEF Write
<1>2. Types /\ Writing /\ TxtInv /\ (torn => compressed)  BY <1>1 DEF IInv
<1>3. region \in Seq(Characters) /\ todo \in Seq(Seq(Characters)) /\ pos \in 0 .. Len(region)
  BY <1>2 DEF Types
<1>4. h \in Seq(Characters) /\ t \in Seq(Seq(Characters)) /\ Len(h) \in Nat
  <2>1. h \in Seq(Characters) /\ t \in Seq(Seq(Characters))  BY <1>1, <1>3
  <2>2. Len(h) \in Nat  BY <2>1
  <2>. QED  BY <2>1, <2>2
<1>5. /\ new \in Seq(Characters) /\ Len(new) >= Len(region)
      /\ pos + Len(h) \in 0 .. Len(new)
      /\ SubSeq(new, 1, pos + Len(h)) = SubSeq(region, 1, pos) \o h
      /\ \A i \in pos + Len(h) + 1 .. Len(new) :
            i \in pos + 1 .. Len(region) /\ Len(new) = Len(region) /\ new[i] = region[i]
  <2>. HIDE DEF h, t
  <2>1. Overlaid(new, region, pos, h, Characters)  BY <1>3, <1>4, OverlayIs
  <2>. HIDE DEF new
  <2>. QED  BY <2>1 DEF Overlaid
<1>. HIDE DEF h, t, new
<1>6. Coming' = Coming
  <2>1. PICK p \in Seq(Characters) : p = SubSeq(region, 1, pos)
    <3>1. SubSeq(region, 1, pos) \in Seq(Characters)  BY <1>3
    <3>. QED  BY <3>1
  <2>2. PICK q \in Seq(Characters) : q = FlattenSeq(t)  BY <1>4, FlattenInSeq
  <2>3. PICK b \in Seq(Characters) : b = h  BY <1>4
  <2>4. FlattenSeq(todo) = b \o q
    <3>1. FlattenSeq(todo) = Head(todo) \o FlattenSeq(Tail(todo))  BY <1>1, <1>3, FlattenHead
    <3>. QED  BY <2>2, <2>3, <3>1 DEF h, t
  <2>5. Coming = p \o (b \o q)  BY <2>1, <2>4 DEF Coming
  <2>6. Coming' = (p \o b) \o q
    <3>1. Coming' = SubSeq(region', 1, pos') \o FlattenSeq(todo')  BY DEF Coming
    <3>2. SubSeq(region', 1, pos') = p \o b  BY <1>1, <1>5, <2>1, <2>3
    <3>. QED  BY <1>1, <2>2, <3>1, <3>2
  <2>7. (p \o b) \o q = p \o (b \o q)  OBVIOUS
  <2>. QED  BY <2>5, <2>6, <2>7
<1>7. Types'
  <2>1. region' \in Seq(Characters) /\ todo' \in Seq(Seq(Characters)) /\ pos' \in 0 .. Len(region')
    BY <1>1, <1>4, <1>5
  <2>. QED  BY <1>1, <1>2, <2>1 DEF Types
<1>8. Behind'
  <2>1. NumFiles \in 0 .. NumFiles /\ names \in Named
    BY <1>2, NumFilesAssumption, NamesAre DEF Types, Named
  <2>2. PICK e \in Nat : e = EndOf(names, NumFiles)  BY <2>1, EndStep
  <2>3. Len(region) >= e /\ \A i \in pos + 1 .. Len(region) :
              IF i <= e THEN region[i] = Joined(LinesOf(names))[i] ELSE region[i] \in {NL, NUL}
    BY <1>2, <2>2 DEF Writing, Behind
  <2>4. Len(new) >= e
    <3>1. Len(region) \in Nat /\ Len(new) \in Nat  BY <1>3, <1>5
    <3>. QED  BY <1>5, <2>2, <2>3, <3>1
  <2>5. \A i \in pos + Len(h) + 1 .. Len(new) :
              IF i <= e THEN new[i] = Joined(LinesOf(names))[i] ELSE new[i] \in {NL, NUL}
    BY <1>5, <2>3
  <2>. QED  BY <1>1, <2>2, <2>4, <2>5 DEF Behind
<1>9. Whole'
  <2>1. ASSUME NEW m \in 0 .. Len(t), NEW id \in Ids PROVE ~InLine(target, id, Reached(m)')
    <3>1. /\ m + 1 \in 0 .. Len(todo)
          /\ Len(FlattenSeq(SubSeq(todo, 1, m + 1))) = Len(h) + Len(FlattenSeq(SubSeq(t, 1, m)))
      BY <1>1, <1>3, ReachedStep DEF h, t
    <3>2. SubSeq(t, 1, m) \in Seq(Seq(Characters))  BY <1>4
    <3>3. PICK q \in Nat : q = Len(FlattenSeq(SubSeq(t, 1, m)))  BY <3>2, FlattenInSeq
    <3>4. PICK p \in Nat, b \in Nat : p = pos /\ b = Len(h)
      <4>1. Len(region) \in Nat  BY <1>3
      <4>2. pos \in Nat  BY <1>3, <4>1
      <4>. QED  BY <1>4, <4>2
    <3>5. Reached(m)' = (p + b) + q  BY <1>1, <3>3, <3>4 DEF Reached
    <3>6. Reached(m + 1) = p + (b + q)  BY <3>1, <3>3, <3>4 DEF Reached
    <3>7. ~InLine(target, id, Reached(m + 1))  BY <1>2, <3>1 DEF Writing, Whole
    <3>8. (p + b) + q = p + (b + q)  BY <3>3, <3>4
    <3>. QED  BY <3>5, <3>6, <3>7, <3>8
  <2>. QED  BY <1>1, <2>1 DEF Whole
<1>10. Writing'  BY <1>1, <1>2, <1>6, <1>8, <1>9 DEF Writing
<1>11. TxtInv'  BY <1>1, <1>2 DEF TxtInv, AreLinesOf
<1>. QED  BY <1>1, <1>2, <1>7, <1>10, <1>11 DEF IInv

(* bgextractfile, up to its first write (ExtractFile) *)
LEMMA ExtractFileKeeps ==
    ASSUME IInv, NEW request \in Requests, NEW str \in Replacements, ExtractFile(request, str)
    PROVE  IInv'
<1>. DEFINE scan == Scan(request, str)
            R == Renaming(request, str)
            W == Writes(scan)
            stream == Joined(scan.lines)
<1>1. /\ pc = "idle" /\ runs < MaxRuns /\ runs' = runs + 1
      /\ IF scan.found > 0
         THEN /\ pc' = "extracting" /\ pos' = 0 /\ names' = names /\ target' = R
              /\ todo' = IF compressed THEN <<stream>> ELSE W
         ELSE pc' = pc /\ todo' = todo /\ pos' = pos /\ names' = names /\ target' = target
      /\ compressed' = compressed /\ region' = region /\ torn' = torn /\ txt' = txt
  BY DEF ExtractFile, tool
<1>2. Types /\ Idle /\ TxtInv /\ (torn => compressed)  BY <1>1 DEF IInv
<1>3. names \in Names /\ region \in Seq(Characters) /\ IsMap(region, names)
  BY <1>2 DEF Types, Idle
<1>4. /\ R \in Names
      /\ stream \in Seq(Characters) /\ IsMap(stream, R)
      /\ W \in Seq(Seq(Characters)) /\ IsMap(FlattenSeq(W), R)
      /\ Len(FlattenSeq(W)) >= EndOf(names, NumFiles)
      /\ \A m \in 0 .. Len(W), id \in Ids : ~InLine(R, id, Len(FlattenSeq(SubSeq(W, 1, m))))
  BY <1>3, ExtractIs
<1>. HIDE DEF scan, R, W, stream
<1>5. runs' \in 0 .. MaxRuns  BY <1>1, <1>2, MaxRunsAssumption DEF Types
<1>6. TxtInv'  BY <1>1, <1>2 DEF TxtInv, AreLinesOf
<1>7. CASE ~(scan.found > 0)
  <2>1. Types'  BY <1>1, <1>2, <1>5, <1>7 DEF Types
  <2>2. Idle'  BY <1>1, <1>2, <1>7 DEF Idle
  <2>. QED  BY <1>1, <1>2, <1>6, <1>7, <2>1, <2>2 DEF IInv
<1>8. CASE scan.found > 0 /\ compressed
  <2>1. todo' = <<stream>> /\ pc' = "extracting" /\ pos' = 0 /\ names' = names /\ target' = R
    BY <1>1, <1>8
  <2>2. todo' \in Seq(Seq(Characters)) /\ Len(todo') = 1 /\ todo'[1] = stream  BY <1>4, <2>1
  <2>3. pos' \in 0 .. Len(region')
    <3>1. Len(region) \in Nat  BY <1>3
    <3>. QED  BY <1>1, <2>1, <3>1
  <2>4. Types'  BY <1>1, <1>2, <1>4, <1>5, <2>1, <2>2, <2>3 DEF Types
  <2>5. Streaming'  BY <1>4, <2>1, <2>2 DEF Streaming
  <2>. QED  BY <1>1, <1>2, <1>6, <1>8, <2>1, <2>4, <2>5 DEF IInv
<1>9. CASE scan.found > 0 /\ ~compressed
  <2>1. todo' = W /\ pc' = "extracting" /\ pos' = 0 /\ names' = names /\ target' = R
    BY <1>1, <1>9
  <2>2. pos' \in 0 .. Len(region')
    <3>1. Len(region) \in Nat  BY <1>3
    <3>. QED  BY <1>1, <2>1, <3>1
  <2>3. Types'  BY <1>1, <1>2, <1>4, <1>5, <2>1, <2>2 DEF Types
  <2>4. Writing'
    <3>1. /\ target' \in Names /\ todo' \in Seq(Seq(Characters))
          /\ IsMap(FlattenSeq(todo'), target')
          /\ Len(FlattenSeq(todo')) >= EndOf(names, NumFiles)
          /\ \A m \in 0 .. Len(todo'), id \in Ids :
                ~InLine(target', id, Len(FlattenSeq(SubSeq(todo', 1, m))))
      BY <1>4, <2>1
    <3>. QED  BY <1>1, <1>2, <2>1, <3>1, BeginsWriting
  <2>. QED  BY <1>1, <1>2, <1>6, <1>9, <2>1, <2>3, <2>4 DEF IInv
<1>. QED  BY <1>7, <1>8, <1>9

(* The script, up to its first write (ReplaceLines) *)
LEMMA ReplaceLinesKeeps == IInv /\ ReplaceLines => IInv'
<1>. SUFFICES ASSUME IInv, ReplaceLines PROVE IInv'
  OBVIOUS
<1>. DEFINE W == [i \in DOMAIN txt |-> Append(txt[i], NL)]
            R == [id \in Ids |-> Candidate(After(txt[id], Space))]
<1>1. /\ pc = "idle" /\ runs < MaxRuns /\ runs' = runs + 1
      /\ IF AcceptsLines
         THEN pc' = "replacing" /\ pos' = 0 /\ names' = names /\ target' = R /\ todo' = W
         ELSE pc' = pc /\ todo' = todo /\ pos' = pos /\ names' = names /\ target' = target
      /\ compressed' = compressed /\ region' = region /\ torn' = torn /\ txt' = txt
  BY DEF ReplaceLines, tool
<1>. HIDE DEF W, R
<1>2. Types /\ Idle /\ TxtInv /\ (torn => compressed)  BY <1>1 DEF IInv
<1>3. runs' \in 0 .. MaxRuns  BY <1>1, <1>2, MaxRunsAssumption DEF Types
<1>4. TxtInv'  BY <1>1, <1>2 DEF TxtInv, AreLinesOf
<1>5. CASE ~AcceptsLines
  <2>1. Types'  BY <1>1, <1>2, <1>3, <1>5 DEF Types
  <2>2. Idle'  BY <1>1, <1>2, <1>5 DEF Idle
  <2>. QED  BY <1>1, <1>2, <1>4, <1>5, <2>1, <2>2 DEF IInv
<1>6. CASE AcceptsLines
  <2>1. ~compressed /\ Len(txt) = NumFiles  BY <1>6 DEF AcceptsLines
  <2>2. Len(txt) >= NumFiles  BY <2>1, NumFilesAssumption
  <2>3. PICK ns \in Names : AreLinesOf(txt, ns)  BY <1>2, <2>2 DEF TxtInv
  <2>4. PICK lines \in Seq(Texts) : lines = txt  BY <1>2 DEF Types
  <2>5. PICK V : V = [i \in DOMAIN lines |-> Append(lines[i], NL)]  OBVIOUS
  <2>6. /\ [id \in Ids |-> Candidate(After(lines[id], Space))] = ns
        /\ V \in Seq(Seq(Characters))
        /\ IsMap(FlattenSeq(V), ns)
        /\ \A m \in 0 .. Len(V), id \in Ids : ~InLine(ns, id, Len(FlattenSeq(SubSeq(V, 1, m))))
    BY <2>1, <2>3, <2>4, <2>5, ReplaceIs
  <2>7. W = V /\ R = ns  BY <2>4, <2>5, <2>6 DEF W, R
  <2>8. todo' = V /\ pc' = "replacing" /\ pos' = 0 /\ names' = names /\ target' = ns
    BY <1>1, <1>6, <2>7
  <2>9. pos' \in 0 .. Len(region')
    <3>1. Len(region) \in Nat  BY <1>2 DEF Types
    <3>. QED  BY <1>1, <2>8, <3>1
  <2>10. Types'  BY <1>1, <1>2, <1>3, <2>6, <2>8, <2>9 DEF Types
  <2>11. Writing'
    <3>1. /\ target' \in Names /\ todo' \in Seq(Seq(Characters))
          /\ IsMap(FlattenSeq(todo'), target')
          /\ \A m \in 0 .. Len(todo'), id \in Ids :
                ~InLine(target', id, Len(FlattenSeq(SubSeq(todo', 1, m))))
      BY <2>6, <2>8
    <3>2. ~(pc' = "extracting")  BY <2>8
    <3>. QED  BY <1>1, <1>2, <2>8, <3>1, <3>2, BeginsWriting
  <2>. QED  BY <1>1, <1>2, <1>4, <2>1, <2>8, <2>10, <2>11 DEF IInv
<1>. QED  BY <1>5, <1>6

(* The script copies the lines to the text file (ExtractLines). *)
LEMMA ExtractLinesKeeps == IInv /\ ExtractLines => IInv'
<1>. SUFFICES ASSUME IInv, ExtractLines PROVE IInv'
  OBVIOUS
<1>1. /\ pc = "idle" /\ runs < MaxRuns /\ runs' = runs + 1
      /\ txt' = IF compressed THEN <<>> ELSE PythonLines(region)
      /\ compressed' = compressed /\ region' = region /\ torn' = torn
      /\ pc' = pc /\ todo' = todo /\ pos' = pos /\ names' = names /\ target' = target
  BY DEF ExtractLines, tool
<1>2. Types /\ Idle /\ (torn => compressed)  BY <1>1 DEF IInv
<1>3. names \in Names /\ region \in Seq(Characters) /\ IsMap(region, names)
  BY <1>2 DEF Types, Idle
<1>4. runs' \in 0 .. MaxRuns  BY <1>1, <1>2, MaxRunsAssumption DEF Types
<1>5. PythonLines(region) \in Seq(Texts) /\ AreLinesOf(PythonLines(region), names)
  BY <1>3, PythonLinesAre
<1>6. txt' \in Seq(Texts) /\ (~compressed => AreLinesOf(txt', names))
  <2>1. <<>> \in Seq(Texts)  OBVIOUS
  <2>. QED  BY <1>1, <1>5, <2>1
<1>7. TxtInv'
  <2>1. CASE compressed
    <3>1. Len(txt') = 0  BY <1>1, <2>1
    <3>2. ~(Len(txt') >= NumFiles)  BY <3>1, NumFilesAssumption
    <3>. QED  BY <3>2 DEF TxtInv
  <2>2. CASE ~compressed
    <3>1. \E ns \in Names : AreLinesOf(txt', ns)  BY <1>3, <1>6, <2>2
    <3>. QED  BY <3>1 DEF TxtInv, AreLinesOf
  <2>. QED  BY <2>1, <2>2
<1>8. Types'  BY <1>1, <1>2, <1>4, <1>6 DEF Types
<1>9. Idle'  BY <1>1, <1>2 DEF Idle
<1>. QED  BY <1>1, <1>2, <1>7, <1>8, <1>9 DEF IInv

(* The user changes a line of the text file (EditLines). *)
LEMMA EditLinesKeeps ==
    ASSUME IInv, NEW id \in Ids, NEW entry \in Entries, EditLines(id, entry)
    PROVE  IInv'
<1>1. /\ pc = "idle" /\ Len(txt) >= NumFiles
      /\ txt' = [SubSeq(txt, 1, NumFiles) EXCEPT ![id] = LineOf(entry)]
      /\ compressed' = compressed /\ region' = region /\ torn' = torn /\ runs' = runs
      /\ pc' = pc /\ todo' = todo /\ pos' = pos /\ names' = names /\ target' = target
  BY DEF EditLines, tool
<1>2. Types /\ Idle /\ TxtInv /\ (torn => compressed)  BY <1>1 DEF IInv
<1>3. PICK ns \in Names : AreLinesOf(txt, ns)  BY <1>1, <1>2 DEF TxtInv
<1>4. PICK lines \in Seq(Texts) : lines = txt  BY <1>2 DEF Types
<1>5. PICK edited : edited = [SubSeq(lines, 1, NumFiles) EXCEPT ![id] = LineOf(entry)]
  OBVIOUS
<1>6. edited \in Seq(Texts) /\ \E ms \in Names : AreLinesOf(edited, ms)
  BY <1>1, <1>3, <1>4, <1>5, EditIs
<1>7. txt' = edited  BY <1>1, <1>4, <1>5
<1>8. Types'  BY <1>1, <1>2, <1>6, <1>7 DEF Types
<1>9. Idle'  BY <1>1, <1>2 DEF Idle
<1>10. TxtInv'
  <2>1. \E ms \in Names : AreLinesOf(txt', ms)  BY <1>6, <1>7
  <2>. QED  BY <2>1 DEF TxtInv, AreLinesOf
<1>. QED  BY <1>1, <1>2, <1>8, <1>9, <1>10 DEF IInv

(* The compressed stream goes out, or a tool is killed. *)
LEMMA StreamKeeps == IInv /\ (StartStream \/ EndStream \/ Kill) => IInv'
<1>1. ASSUME IInv, StartStream PROVE IInv'
  <2>1. /\ pc = "extracting" /\ compressed /\ ~torn /\ todo # <<>> /\ torn' = TRUE
        /\ compressed' = compressed /\ region' = region /\ runs' = runs /\ txt' = txt
        /\ pc' = pc /\ todo' = todo /\ pos' = pos /\ names' = names /\ target' = target
    BY <1>1 DEF StartStream, tool
  <2>2. Types /\ Streaming /\ TxtInv  BY <1>1, <2>1 DEF IInv
  <2>3. Types'  BY <2>1, <2>2 DEF Types
  <2>4. Streaming'  BY <2>1, <2>2 DEF Streaming
  <2>5. TxtInv'  BY <2>1, <2>2 DEF TxtInv, AreLinesOf
  <2>. QED  BY <2>1, <2>3, <2>4, <2>5 DEF IInv
<1>2. ASSUME IInv, EndStream PROVE IInv'
  <2>1. /\ pc = "extracting" /\ torn /\ torn' = FALSE /\ region' = Head(todo) /\ todo' = <<>>
        /\ compressed' = compressed /\ runs' = runs /\ txt' = txt
        /\ pc' = pc /\ pos' = pos /\ names' = names /\ target' = target
    BY <1>2 DEF EndStream
  <2>2. compressed  BY <1>2, <2>1 DEF IInv
  <2>3. Types /\ Streaming /\ TxtInv  BY <1>2, <2>1, <2>2 DEF IInv
  <2>4. Len(todo) = 1 /\ IsMap(todo[1], target) /\ pos = 0  BY <2>1, <2>3 DEF Streaming
  <2>5. todo \in Seq(Seq(Characters))  BY <2>3 DEF Types
  <2>6. Head(todo) = todo[1] /\ todo[1] \in Seq(Characters)  BY <2>4, <2>5
  <2>7. region' \in Seq(Characters) /\ Len(region') \in Nat  BY <2>1, <2>6
  <2>8. <<>> \in Seq(Seq(Characters))  OBVIOUS
  <2>9. pos' \in 0 .. Len(region')  BY <2>1, <2>4, <2>7
  <2>10. Types'  BY <2>1, <2>3, <2>7, <2>8, <2>9 DEF Types
  <2>11. Streaming'  BY <2>1, <2>4, <2>6 DEF Streaming
  <2>12. TxtInv'  BY <2>1, <2>3 DEF TxtInv, AreLinesOf
  <2>. QED  BY <2>1, <2>2, <2>10, <2>11, <2>12 DEF IInv
<1>3. ASSUME IInv, Kill PROVE IInv'
  <2>1. /\ pc \in {"extracting", "replacing"} /\ pc' = "killed"
        /\ compressed' = compressed /\ region' = region /\ torn' = torn /\ runs' = runs /\ txt' = txt
        /\ todo' = todo /\ pos' = pos /\ names' = names /\ target' = target
    BY <1>3 DEF Kill
  <2>2. Types /\ TxtInv /\ (torn => compressed)  BY <1>3 DEF IInv
  <2>3. Types'  BY <2>1, <2>2 DEF Types
  <2>4. TxtInv'  BY <2>1, <2>2 DEF TxtInv, AreLinesOf
  <2>5. CASE compressed
    <3>1. Streaming  BY <1>3, <2>1, <2>5 DEF IInv
    <3>2. Streaming'  BY <2>1, <3>1 DEF Streaming
    <3>. QED  BY <2>1, <2>3, <2>4, <2>5, <3>2 DEF IInv
  <2>6. CASE ~compressed
    <3>1. Writing  BY <1>3, <2>1, <2>6 DEF IInv
    <3>2. Coming' = Coming /\ \A m : Reached(m)' = Reached(m)  BY <2>1 DEF Coming, Reached
    <3>3. Behind'  BY <2>1, <3>1 DEF Writing, Behind
    <3>4. Whole'  BY <2>1, <3>1, <3>2 DEF Writing, Whole
    <3>5. Writing'  BY <2>1, <3>1, <3>2, <3>3, <3>4 DEF Writing
    <3>. QED  BY <2>1, <2>2, <2>3, <2>4, <2>6, <3>5 DEF IInv
  <2>. QED  BY <2>5, <2>6
<1>. QED  BY <1>1, <1>2, <1>3

(* In what is written the new map is, and behind it what was there. *)
LEMMA CloseKeeps == IInv /\ Close => IInv'
<1>. SUFFICES ASSUME IInv, Close PROVE IInv'
  OBVIOUS
<1>1. /\ pc \in {"extracting", "replacing"} /\ todo = <<>>
      /\ region' = Kept /\ names' = target /\ pc' = "idle" /\ pos' = 0
      /\ compressed' = compressed /\ torn' = torn /\ todo' = todo /\ target' = target
      /\ txt' = txt /\ runs' = runs
  BY DEF Close
<1>2. Types /\ TxtInv /\ (torn => compressed)  BY DEF IInv
<1>3. region \in Seq(Characters) /\ pos \in 0 .. Len(region) /\ target \in Names /\ names \in Names
  BY <1>2 DEF Types
<1>4. NumFiles \in 0 .. NumFiles /\ target \in Named /\ names \in Named
  BY <1>3, NumFilesAssumption, NamesAre DEF Named
<1>5. Kept \in Seq(Characters) /\ IsMap(Kept, target) /\ ~torn
  <2>1. CASE compressed
    <3>1. Streaming  BY <1>1, <2>1 DEF IInv
    <3>2. pc = "extracting" /\ ~torn /\ IsMap(region, target)
      <4>1. ~(Len(todo) = 1)  BY <1>1
      <4>. QED  BY <1>1, <3>1, <4>1 DEF Streaming
    <3>3. Kept = region  BY <3>2 DEF Kept
    <3>. QED  BY <1>3, <3>2, <3>3
  <2>2. CASE ~compressed
    <3>1. Writing  BY <1>1, <2>2 DEF IInv
    <3>2. PICK s \in Seq(Characters) : /\ s = SubSeq(region, 1, pos) /\ Len(s) = pos
                                       /\ \A i \in 1 .. pos : s[i] = region[i]
      <4>1. SubSeq(region, 1, pos) \in Seq(Characters) /\ Len(SubSeq(region, 1, pos)) = pos
            /\ \A i \in 1 .. pos : SubSeq(region, 1, pos)[i] = region[i]
        BY <1>3
      <4>. QED  BY <4>1
    <3>3. Coming = s
      <4>1. FlattenSeq(todo) = <<>>  BY <1>1 DEF FlattenSeq
      <4>2. s \o <<>> = s  OBVIOUS
      <4>. QED  BY <3>2, <4>1, <4>2 DEF Coming
    <3>4. ~torn  BY <1>2, <2>2
    <3>5. IsMap(s, target)  BY <3>1, <3>3 DEF Writing
    <3>6. CASE pc = "replacing"
      <4>1. Kept = s  BY <3>2, <3>6 DEF Kept
      <4>. QED  BY <3>4, <3>5, <4>1
    <3>7. CASE pc # "replacing"
      <4>1. Kept = region /\ pc = "extracting"  BY <1>1, <3>7 DEF Kept
      <4>2. PICK e \in Nat, d \in Nat, l \in Nat, p \in Nat :
               /\ e = EndOf(target, NumFiles) /\ d = EndOf(names, NumFiles)
               /\ l = Len(region) /\ p = pos /\ p <= l
        <5>1. EndOf(target, NumFiles) \in Nat /\ EndOf(names, NumFiles) \in Nat
          BY <1>4, EndStep
        <5>2. Len(region) \in Nat  BY <1>3
        <5>3. pos \in Nat /\ pos <= Len(region)  BY <1>3, <5>2
        <5>. QED  BY <5>1, <5>2, <5>3
      <4>3. e <= p /\ d <= p
        <5>1. Len(s) >= e  BY <3>5, <4>2 DEF IsMap
        <5>2. Len(s) >= d  BY <3>1, <3>3, <4>1, <4>2 DEF Writing
        <5>. QED  BY <3>2, <4>2, <5>1, <5>2
      <4>4. \A i \in 1 .. p : IF i <= e THEN region[i] = Joined(LinesOf(target))[i]
                              ELSE region[i] \in {NL, NUL}
        BY <3>2, <3>5, <4>2 DEF IsMap
      <4>5. \A i \in p + 1 .. l : region[i] \in {NL, NUL}
        <5>1. \A i \in p + 1 .. l : IF i <= d THEN region[i] = Joined(LinesOf(names))[i]
                                    ELSE region[i] \in {NL, NUL}
          BY <3>1, <4>2 DEF Writing, Behind
        <5>2. \A i \in p + 1 .. l : ~(i <= d)  BY <4>2, <4>3
        <5>. QED  BY <5>1, <5>2
      <4>6. ASSUME NEW i \in 1 .. l
            PROVE  IF i <= e THEN region[i] = Joined(LinesOf(target))[i]
                   ELSE region[i] \in {NL, NUL}
        <5>1. CASE i \in 1 .. p  BY <4>4, <5>1
        <5>2. CASE i \notin 1 .. p
          <6>1. i \in p + 1 .. l /\ ~(i <= e)  BY <4>2, <4>3, <5>2
          <6>. QED  BY <4>5, <6>1
        <5>. QED  BY <5>1, <5>2
      <4>7. IsMap(region, target)
        <5>1. l >= e  BY <4>2, <4>3
        <5>. QED  BY <4>2, <4>6, <5>1 DEF IsMap
      <4>. QED  BY <1>3, <3>4, <4>1, <4>7
    <3>. QED  BY <3>6, <3>7
  <2>. QED  BY <2>1, <2>2
<1>6. Idle'  BY <1>1, <1>5 DEF Idle
<1>7. pos' \in 0 .. Len(region')
  <2>1. Len(Kept) \in Nat  BY <1>5
  <2>. QED  BY <1>1, <2>1
<1>8. Types'  BY <1>1, <1>2, <1>5, <1>7 DEF Types
<1>9. TxtInv'  BY <1>1, <1>2 DEF TxtInv, AreLinesOf
<1>. QED  BY <1>1, <1>2, <1>6, <1>8, <1>9 DEF IInv

(* Every step keeps the invariant. *)
LEMMA StepKeeps == IInv /\ [Next]_vars => IInv'
<1>. SUFFICES ASSUME IInv, [Next]_vars PROVE IInv'
  OBVIOUS
<1>1. ASSUME NEW request \in Requests, NEW str \in Replacements, ExtractFile(request, str)
      PROVE  IInv'
  BY <1>1, ExtractFileKeeps
<1>2. CASE ExtractLines  BY <1>2, ExtractLinesKeeps
<1>3. ASSUME NEW id \in Ids, NEW entry \in Entries, EditLines(id, entry) PROVE IInv'
  BY <1>3, EditLinesKeeps
<1>4. CASE ReplaceLines  BY <1>4, ReplaceLinesKeeps
<1>5. CASE Write  BY <1>5, WriteKeeps
<1>6. CASE StartStream \/ EndStream \/ Kill  BY <1>6, StreamKeeps
<1>7. CASE Close  BY <1>7, CloseKeeps
<1>8. CASE UNCHANGED vars
  <2>1. /\ compressed' = compressed /\ region' = region /\ torn' = torn /\ pc' = pc
        /\ todo' = todo /\ pos' = pos /\ txt' = txt /\ names' = names /\ target' = target
        /\ runs' = runs
    BY <1>8 DEF vars
  <2>2. Types' = Types  BY <2>1 DEF Types
  <2>3. Idle' = Idle  BY <2>1 DEF Idle
  <2>4. Streaming' = Streaming  BY <2>1 DEF Streaming
  <2>5. TxtInv' = TxtInv  BY <2>1 DEF TxtInv, AreLinesOf
  <2>6. Writing' = Writing  BY <2>1 DEF Writing, Behind, Whole, Coming, Reached
  <2>7. IInv' = IInv  BY <2>1, <2>2, <2>3, <2>4, <2>5, <2>6 DEF IInv
  <2>. QED  BY <2>7
<1>. QED  BY <1>1, <1>2, <1>3, <1>4, <1>5, <1>6, <1>7, <1>8 DEF Next

(* So it holds in every state of every behaviour. *)
LEMMA Inductive == Spec => []IInv
<1>. QED  BY Starts, StepKeeps, PTL DEF Spec

(* Of a map, bgparse and bgdump read the names it is the map of. *)
LEMMA ReadsAreAsAsked == IInv => NamesAreAsAsked
<1>. SUFFICES ASSUME IInv, pc = "idle", NEW id \in Ids
              PROVE  /\ Candidate(Printed(FilesOf(region), id)) = names[id]
                     /\ FileList(region)[id] = LineOf(names[id])
  BY DEF NamesAreAsAsked
<1>1. region \in Seq(Characters) /\ names \in Named /\ IsMap(region, names) /\ ~torn
  BY NamesAre DEF IInv, Types, Idle, Named
<1>2. NumFiles \in 0 .. NumFiles /\ id \in 1 .. NumFiles  BY NumFilesAssumption DEF Ids
<1>3. BeginsTo(region, names, NumFiles)  BY <1>1, MapBegins
<1>4. /\ Len(FilesOf(region)) >= NumFiles /\ Len(FilesOf(region)) \in Nat
      /\ Candidate(FilesOf(region)[id]) = names[id]
      /\ FileList(region)[id] = LineOf(names[id])
  BY <1>1, <1>2, <1>3, ReadIs
<1>5. ~(id > Len(FilesOf(region)))  BY <1>2, <1>4, NumFilesAssumption
<1>6. Printed(FilesOf(region), id) = FilesOf(region)[id]  BY <1>1, <1>5 DEF Printed
<1>. QED  BY <1>4, <1>6

(* Behind the lines of a map there is no name. *)
LEMMA NothingIsLeft == IInv => NoNameIsLeft
<1>. SUFFICES ASSUME IInv, pc = "idle", NEW i \in DOMAIN region, i > EndOf(names, NumFiles)
              PROVE  region[i] \in {NL, NUL}
  BY DEF NoNameIsLeft
<1>1. region \in Seq(Characters) /\ names \in Named /\ IsMap(region, names)
  BY NamesAre DEF IInv, Types, Idle, Named
<1>2. i \in 1 .. Len(region)  BY <1>1
<1>3. EndOf(names, NumFiles) \in Nat
  <2>1. NumFiles \in 0 .. NumFiles  BY NumFilesAssumption
  <2>. QED  BY <1>1, <2>1, EndStep
<1>4. ~(i <= EndOf(names, NumFiles))  BY <1>2, <1>3
<1>. QED  BY <1>1, <1>2, <1>4 DEF IsMap

(* Up to the position the new map is there, and behind it the old one. *)
LEMMA BothParts ==
    ASSUME Types, Writing
    PROVE  /\ \E s \in Seq(Characters) : /\ BeginsTo(s, target, NumFiles)
                                        /\ \A i \in 1 .. pos : region[i] = s[i]
           /\ \E s \in Seq(Characters) :
                 /\ BeginsTo(s, names, NumFiles)
                 /\ \A i \in pos + 1 .. Len(region) :
                       i <= EndOf(names, NumFiles) => region[i] = s[i]
<1>1. /\ region \in Seq(Characters) /\ target \in Named /\ names \in Named
      /\ pos \in 0 .. Len(region) /\ todo \in Seq(Seq(Characters))
  BY NamesAre DEF Types, Named
<1>2. PICK p \in Nat, l \in Nat : p = pos /\ l = Len(region) /\ p <= l
  <2>1. Len(region) \in Nat  BY <1>1
  <2>2. pos \in Nat /\ pos <= Len(region)  BY <1>1, <2>1
  <2>. QED  BY <2>1, <2>2
<1>3. PICK s \in Seq(Characters) : s = Coming /\ \A i \in 1 .. p : s[i] = region[i]
  <2>1. PICK a \in Seq(Characters) : /\ a = SubSeq(region, 1, p) /\ Len(a) = p
                                     /\ \A i \in 1 .. p : a[i] = region[i]
    <3>1. SubSeq(region, 1, p) \in Seq(Characters) /\ Len(SubSeq(region, 1, p)) = p
          /\ \A i \in 1 .. p : SubSeq(region, 1, p)[i] = region[i]
      BY <1>1, <1>2
    <3>. QED  BY <3>1
  <2>2. PICK b \in Seq(Characters) : b = FlattenSeq(todo)  BY <1>1, FlattenInSeq
  <2>3. a \o b \in Seq(Characters) /\ \A i \in 1 .. p : (a \o b)[i] = a[i]  BY <2>1
  <2>4. a \o b = Coming  BY <1>2, <2>1, <2>2 DEF Coming
  <2>. QED  BY <2>1, <2>3, <2>4
<1>4. BeginsTo(s, target, NumFiles)
  <2>1. IsMap(s, target)  BY <1>3 DEF Writing
  <2>. QED  BY <1>1, <2>1, MapBegins
<1>5. PICK t \in Seq(Characters) : t = Joined(LinesOf(names)) /\ BeginsTo(t, names, NumFiles)
  <2>1. NumFiles \in Nat /\ NumFiles \in 0 .. NumFiles  BY NumFilesAssumption
  <2>2. PICK t \in Seq(Characters) : t = Joined(LinesOf(names)) /\ Len(t) = EndOf(names, NumFiles)
    BY <1>1, EndsOfNames
  <2>3. PICK e \in Nat : e = EndOf(names, NumFiles)  BY <1>1, <2>1, EndStep
  <2>4. \A i \in 1 .. Len(t) : i <= e  BY <2>2, <2>3
  <2>5. Len(t) >= e  BY <2>2, <2>3
  <2>6. IsMap(t, names)  BY <2>2, <2>3, <2>4, <2>5 DEF IsMap
  <2>. QED  BY <1>1, <2>2, <2>6, MapBegins
<1>6. \A i \in pos + 1 .. Len(region) : i <= EndOf(names, NumFiles) => region[i] = t[i]
  BY <1>5 DEF Writing, Behind
<1>. QED  BY <1>2, <1>3, <1>4, <1>5, <1>6

(* Of a line that is at its place in one text, a part is in the other. *)
LEMMA LineInText ==
    ASSUME NEW ns \in Named, NEW text, BeginsTo(text, ns, NumFiles), NEW i \in Ids
    PROVE  LineAt(text, LineOf(ns[i]), EndOf(ns, i - 1))
  BY DEF BeginsTo, Ids

(* The lines that are written are read. *)
LEMMA WrittenIsRead ==
    ASSUME Types, Writing, NEW id \in Ids, pos >= EndOf(target, id)
    PROVE  BeginsTo(region, target, id)
<1>1. region \in Seq(Characters) /\ target \in Named /\ pos \in 0 .. Len(region)
  BY NamesAre DEF Types, Named
<1>2. id \in 0 .. NumFiles /\ NumFiles \in 0 .. NumFiles /\ NumFiles \in Nat /\ id \in Nat
  BY NumFilesAssumption DEF Ids
<1>3. PICK p \in Nat, l \in Nat, e \in Nat :
         p = pos /\ l = Len(region) /\ e = EndOf(target, id) /\ e <= p /\ p <= l
  <2>1. Len(region) \in Nat  BY <1>1
  <2>2. pos \in Nat /\ pos <= Len(region)  BY <1>1, <2>1
  <2>3. EndOf(target, id) \in Nat  BY <1>1, <1>2, EndStep
  <2>. QED  BY <2>1, <2>2, <2>3
<1>4. PICK s \in Seq(Characters) : /\ BeginsTo(s, target, NumFiles)
                                   /\ \A i \in 1 .. p : s[i] = region[i]
  BY <1>3, BothParts
<1>6. ASSUME NEW i \in 1 .. id PROVE LineAt(region, LineOf(target[i]), EndOf(target, i - 1))
  <2>1. i \in Ids /\ i \in 1 .. NumFiles /\ i \in 0 .. id  BY <1>2 DEF Ids
  <2>2. LineAt(s, LineOf(target[i]), EndOf(target, i - 1))
    BY <1>1, <1>4, <2>1, LineInText
  <2>3. PICK b \in Nat, x \in Nat : /\ b = EndOf(target, i - 1) /\ x = Len(LineOf(target[i]))
                                    /\ EndOf(target, i) = b + x + 1
    <3>1. /\ i - 1 \in 0 .. NumFiles
          /\ EndOf(target, i) = EndOf(target, i - 1) + Len(LineOf(target[i])) + 1
          /\ Len(LineOf(target[i])) \in Nat
      BY <1>1, <2>1, EndStep
    <3>2. EndOf(target, i - 1) \in Nat  BY <1>1, <3>1, EndStep
    <3>. QED  BY <3>1, <3>2
  <2>4. b + x + 1 <= e
    <3>1. EndOf(target, i) <= EndOf(target, id)  BY <1>1, <1>2, <2>1, EndStep
    <3>. QED  BY <1>3, <2>3, <3>1
  <2>5. \A j \in 1 .. x + 1 : region[b + j] = s[b + j]
    <3>1. ASSUME NEW j \in 1 .. x + 1 PROVE b + j \in 1 .. p
      <4>1. j \in Nat /\ 1 <= j /\ j <= x + 1  BY <2>3
      <4>2. b + x + 1 <= e /\ e <= p  BY <1>3, <2>4
      <4>. QED  BY <4>1, <4>2
    <3>. QED  BY <1>4, <3>1
  <2>6. \A j \in 1 .. x : region[b + j] = LineOf(target[i])[j]
    <3>1. \A j \in 1 .. x : s[b + j] = LineOf(target[i])[j]  BY <2>2, <2>3 DEF LineAt
    <3>2. \A j \in 1 .. x : j \in 1 .. x + 1  BY <2>3
    <3>. QED  BY <2>5, <3>1, <3>2
  <2>7. region[b + x + 1] = NL
    <3>1. PICK j \in 1 .. x + 1 : j = x + 1
      <4>1. x + 1 \in 1 .. x + 1  BY <2>3
      <4>. QED  BY <4>1
    <3>2. b + j = b + x + 1  BY <2>3, <3>1
    <3>3. s[b + x + 1] = NL  BY <2>2, <2>3 DEF LineAt
    <3>. QED  BY <2>5, <3>1, <3>2, <3>3
  <2>. QED  BY <2>3, <2>6, <2>7 DEF LineAt
<1>. QED  BY <1>3, <1>6 DEF BeginsTo

(* A map of which both versions have lines of the same lengths: each line  *)
(* is the new one or the old one.                                          *)
LEMMA MixedIsRead ==
    ASSUME Types, Writing, NEW id \in Ids,
           \A i \in 1 .. id : Len(Text(names[i])) = Len(Text(target[i]))
    PROVE  \E ns \in Named : /\ ns[id] \in {names[id], target[id]}
                             /\ BeginsTo(region, ns, id)
<1>1. region \in Seq(Characters) /\ target \in Named /\ names \in Named /\ pos \in 0 .. Len(region)
      /\ todo \in Seq(Seq(Characters))
  BY NamesAre DEF Types, Named
<1>2. id \in 0 .. NumFiles /\ NumFiles \in 0 .. NumFiles /\ NumFiles \in Nat /\ id \in Nat
      /\ id \in 0 .. id /\ id <= NumFiles
  BY NumFilesAssumption DEF Ids
<1>3. PICK p \in Nat, l \in Nat : p = pos /\ l = Len(region) /\ p <= l
  <2>1. Len(region) \in Nat  BY <1>1
  <2>2. pos \in Nat /\ pos <= Len(region)  BY <1>1, <2>1
  <2>. QED  BY <2>1, <2>2
<1>4. PICK s : BeginsTo(s, target, NumFiles) /\ \A i \in 1 .. p : region[i] = s[i]
  BY <1>3, BothParts
<1>5. PICK t : /\ BeginsTo(t, names, NumFiles)
               /\ \A i \in p + 1 .. l : i <= EndOf(names, NumFiles) => region[i] = t[i]
  BY <1>3, BothParts
<1>. DEFINE ns == [i \in Ids |-> IF EndOf(target, i) <= p + 1 THEN target[i] ELSE names[i]]
<1>6. ns \in Named  BY <1>1 DEF Named
<1>7. \A i \in Ids : ns[i] = IF EndOf(target, i) <= p + 1 THEN target[i] ELSE names[i]
  OBVIOUS
<1>. HIDE DEF ns
<1>8. ns[id] \in {names[id], target[id]}  BY <1>7
<1>9. \A i \in 1 .. id : i \in Ids /\ i \in 0 .. NumFiles /\ i - 1 \in 0 .. NumFiles
                         /\ i \in 0 .. id /\ i - 1 \in 0 .. id
  BY <1>2 DEF Ids
<1>10. \A i \in 1 .. id : /\ Len(LineOf(names[i])) = Len(LineOf(target[i]))
                          /\ Len(LineOf(ns[i])) = Len(LineOf(target[i]))
  <2>1. TAKE i \in 1 .. id
  <2>2. names[i] \in WellFormed /\ target[i] \in WellFormed  BY <1>1, <1>9 DEF Named
  <2>3. Len(LineOf(names[i])) = Len(Text(names[i])) + 2
        /\ Len(LineOf(target[i])) = Len(Text(target[i])) + 2
    BY <2>2, LineOfIs
  <2>4. Len(LineOf(names[i])) = Len(LineOf(target[i]))  BY <2>3
  <2>. QED  BY <1>7, <1>9, <2>4
<1>11. ASSUME NEW ms \in Named, \A i \in 1 .. id : Len(LineOf(ms[i])) = Len(LineOf(target[i]))
       PROVE  \A i \in 0 .. id : EndOf(ms, i) = EndOf(target, i)
  <2>1. EndsAt(LinesOf(ms), Ends(ms)) /\ EndsAt(LinesOf(target), Ends(target))
    BY <1>1, EndsOfNames
  <2>2. /\ Len(LinesOf(ms)) = NumFiles /\ Len(LinesOf(target)) = NumFiles
        /\ \A i \in Ids : LinesOf(ms)[i] = LineOf(ms[i]) /\ LinesOf(target)[i] = LineOf(target[i])
    BY <1>1, LinesOfNames
  <2>3. \A i \in 1 .. id : Len(LinesOf(ms)[i]) = Len(LinesOf(target)[i])
    BY <1>9, <1>11, <2>2
  <2>4. PICK a, b, f, g : a = LinesOf(ms) /\ b = LinesOf(target) /\ f = Ends(ms) /\ g = Ends(target)
    OBVIOUS
  <2>5. \A i \in 0 .. id : f[i] = g[i]
    <3>1. EndsAt(a, f) /\ EndsAt(b, g)  BY <2>1, <2>4
    <3>2. Len(a) = NumFiles /\ Len(b) = NumFiles  BY <2>2, <2>4
    <3>3. id \in Nat /\ id <= Len(a) /\ id <= Len(b) /\ Len(a) \in Nat /\ Len(b) \in Nat
      BY <1>2, <3>2
    <3>4. \A i \in 1 .. id : Len(a[i]) = Len(b[i])  BY <2>3, <2>4
    <3>. QED  BY <3>1, <3>3, <3>4, EndsSame, SMTT(30)
  <2>6. \A i \in 0 .. id : i \in 0 .. NumFiles  BY <1>2
  <2>7. \A i \in 0 .. NumFiles : Ends(ms)[i] = EndOf(ms, i) /\ Ends(target)[i] = EndOf(target, i)
    BY <1>1, EndStep
  <2>. QED  BY <2>4, <2>5, <2>6, <2>7
<1>12. \A i \in 0 .. id : EndOf(names, i) = EndOf(target, i)  BY <1>1, <1>10, <1>11
<1>13. \A i \in 0 .. id : EndOf(ns, i) = EndOf(target, i)  BY <1>6, <1>10, <1>11
<1>14. PICK n \in Nat : n = EndOf(names, NumFiles) /\ n <= l
  <2>1. EndOf(names, NumFiles) \in Nat  BY <1>1, <1>2, EndStep
  <2>2. Len(region) >= EndOf(names, NumFiles)  BY DEF Writing, Behind
  <2>. QED  BY <1>3, <2>1, <2>2
<1>15. \A i \in Ids : ~InLine(target, i, p)
  <2>2. 0 \in 0 .. Len(todo)  BY <1>1
  <2>3. PICK c : UpTo(c, todo, Characters)  BY <1>1, FlattenIs
  <2>6. FlattenSeq(SubSeq(todo, 1, 0)) = c[0]  BY <1>1, <2>2, <2>3, FlattenPrefix
  <2>7. c[0] = <<>>  BY <2>3 DEF UpTo
  <2>4. Len(FlattenSeq(SubSeq(todo, 1, 0))) = 0  BY <2>6, <2>7
  <2>5. Reached(0) = p  BY <1>3, <2>4 DEF Reached
  <2>. QED  BY <2>2, <2>5 DEF Writing, Whole
<1>16. ASSUME NEW i \in 1 .. id PROVE LineAt(region, LineOf(ns[i]), EndOf(ns, i - 1))
  <2>1. PICK b \in Nat, x \in Nat : /\ b = EndOf(target, i - 1) /\ x = Len(LineOf(target[i]))
                                    /\ EndOf(target, i) = b + x + 1
    <3>1. /\ EndOf(target, i) = EndOf(target, i - 1) + Len(LineOf(target[i])) + 1
          /\ Len(LineOf(target[i])) \in Nat
      BY <1>1, <1>9, EndStep
    <3>2. EndOf(target, i - 1) \in Nat  BY <1>1, <1>9, EndStep
    <3>. QED  BY <3>1, <3>2
  <2>2. EndOf(names, i - 1) = b /\ EndOf(names, i) = b + x + 1 /\ EndOf(ns, i - 1) = b
    BY <1>9, <1>12, <1>13, <2>1
  <2>3. Len(LineOf(names[i])) = x /\ Len(LineOf(ns[i])) = x  BY <1>10, <2>1
  <2>4. b + x + 1 <= n
    <3>1. EndOf(names, i) <= EndOf(names, NumFiles)  BY <1>1, <1>2, <1>9, EndStep
    <3>. QED  BY <1>14, <2>2, <3>1
  <2>5. (\A j \in 1 .. x : s[b + j] = LineOf(target[i])[j]) /\ s[b + x + 1] = NL
    <3>1. LineAt(s, LineOf(target[i]), EndOf(target, i - 1))  BY <1>1, <1>4, <1>9, LineInText
    <3>. QED  BY <2>1, <3>1 DEF LineAt
  <2>6. (\A j \in 1 .. x : t[b + j] = LineOf(names[i])[j]) /\ t[b + x + 1] = NL
    <3>1. LineAt(t, LineOf(names[i]), EndOf(names, i - 1))  BY <1>1, <1>5, <1>9, LineInText
    <3>. QED  BY <2>2, <2>3, <3>1 DEF LineAt
  <2>7. CASE b + x + 1 <= p + 1
    <3>1. ns[i] = target[i]  BY <1>7, <1>9, <2>1, <2>7
    <3>2. \A j \in 1 .. x : region[b + j] = LineOf(target[i])[j]
      <4>1. \A j \in 1 .. x : b + j \in 1 .. p  BY <1>3, <2>1, <2>7
      <4>. QED  BY <1>4, <2>5, <4>1
    <3>3. region[b + x + 1] = NL
      <4>1. CASE b + x + 1 <= p
        <5>1. b + x + 1 \in 1 .. p  BY <2>1, <4>1
        <5>. QED  BY <1>4, <2>5, <5>1
      <4>2. CASE b + x + 1 > p
        <5>1. b + x + 1 \in p + 1 .. l  BY <1>3, <1>14, <2>1, <2>4, <4>2
        <5>. QED  BY <1>5, <1>14, <2>4, <2>6, <5>1
      <4>. QED  BY <1>3, <2>1, <4>1, <4>2
    <3>. QED  BY <2>2, <2>3, <3>1, <3>2, <3>3 DEF LineAt
  <2>8. CASE b + x + 1 > p + 1
    <3>1. ns[i] = names[i]
      <4>1. ~(EndOf(target, i) <= p + 1)  BY <1>3, <2>1, <2>8
      <4>. QED  BY <1>7, <1>9, <4>1
    <3>2. p <= b
      <4>1. ~(b < p /\ p < (b + x + 1) - 1)  BY <1>9, <1>15, <2>1 DEF InLine
      <4>. QED  BY <1>3, <2>1, <2>8, <4>1
    <3>3. \A j \in 1 .. x + 1 : b + j \in p + 1 .. l /\ b + j <= n
      <4>1. TAKE j \in 1 .. x + 1
      <4>2. j \in Nat /\ 1 <= j /\ j <= x + 1  BY <2>1
      <4>3. p <= b /\ n <= l /\ b + x + 1 <= n /\ l \in Nat  BY <1>3, <1>14, <2>4, <3>2
      <4>. QED  BY <4>2, <4>3
    <3>4. \A j \in 1 .. x : region[b + j] = LineOf(names[i])[j]
      <4>1. \A j \in 1 .. x : j \in 1 .. x + 1  BY <2>1
      <4>2. \A j \in 1 .. x + 1 : region[b + j] = t[b + j]  BY <1>5, <1>14, <3>3
      <4>. QED  BY <2>6, <4>1, <4>2
    <3>5. region[b + x + 1] = NL
      <4>1. b + x + 1 \in p + 1 .. l /\ b + x + 1 <= n  BY <1>3, <1>14, <2>1, <2>4, <2>8
      <4>. QED  BY <1>5, <1>14, <2>6, <4>1
    <3>. QED  BY <2>2, <2>3, <3>1, <3>4, <3>5 DEF LineAt
  <2>. QED  BY <1>3, <2>1, <2>7, <2>8
<1>17. EndOf(ns, id) <= Len(region)
  <2>1. EndOf(ns, id) = EndOf(names, id)  BY <1>2, <1>12, <1>13
  <2>2. EndOf(names, id) <= EndOf(names, NumFiles)  BY <1>1, <1>2, EndStep
  <2>3. EndOf(names, id) \in Nat  BY <1>1, <1>2, EndStep
  <2>. QED  BY <1>3, <1>14, <2>1, <2>2, <2>3
<1>18. BeginsTo(region, ns, id)  BY <1>16, <1>17 DEF BeginsTo
<1>. QED  BY <1>6, <1>8, <1>18

(* A map that is half written is read as far as its lines are at their     *)
(* places: those written, and those behind lines that keep their length.   *)
LEMMA TornReadIsRight == IInv => TornMapIsRightUpToTheChange
<1>. SUFFICES ASSUME IInv, pc \in {"extracting", "replacing", "killed"}, ~compressed, NEW id \in Ids
              PROVE  LET found == Candidate(Printed(FilesOf(region), id))
                     IN /\ pos >= EndOf(target, id) => found = target[id]
                        /\ (\A i \in 1 .. id : Len(Text(names[i])) = Len(Text(target[i])))
                              => found \in {names[id], target[id]}
  BY DEF TornMapIsRightUpToTheChange
<1>1. Types /\ Writing /\ ~torn  BY DEF IInv
<1>2. region \in Seq(Characters) /\ target \in Named  BY <1>1, NamesAre DEF Types, Named
<1>3. id \in 0 .. NumFiles /\ id \in 1 .. id /\ id \in Nat  BY NumFilesAssumption DEF Ids
<1>4. ASSUME NEW ns \in Named, BeginsTo(region, ns, id)
      PROVE  Candidate(Printed(FilesOf(region), id)) = ns[id]
  <2>1. /\ Len(FilesOf(region)) >= id /\ Len(FilesOf(region)) \in Nat
        /\ Candidate(FilesOf(region)[id]) = ns[id]
    BY <1>2, <1>3, <1>4, ReadIs
  <2>2. ~(id > Len(FilesOf(region)))  BY <1>3, <2>1
  <2>3. Printed(FilesOf(region), id) = FilesOf(region)[id]  BY <1>1, <2>2 DEF Printed
  <2>. QED  BY <2>1, <2>3
<1>5. ASSUME pos >= EndOf(target, id)
      PROVE  Candidate(Printed(FilesOf(region), id)) = target[id]
  BY <1>1, <1>2, <1>4, <1>5, WrittenIsRead
<1>6. ASSUME \A i \in 1 .. id : Len(Text(names[i])) = Len(Text(target[i]))
      PROVE  Candidate(Printed(FilesOf(region), id)) \in {names[id], target[id]}
  <2>1. PICK ns \in Named : ns[id] \in {names[id], target[id]} /\ BeginsTo(region, ns, id)
    BY <1>1, <1>6, MixedIsRead
  <2>. QED  BY <1>4, <2>1
<1>. QED  BY <1>5, <1>6

-----------------------------------------------------------------------------

(* Every variable keeps its type, whatever tools run and wherever they are  *)
(* killed: no write leaves the region, and no line of the text file holds a *)
(* newline (bgextractfile, process_file).                                   *)
THEOREM TypeCorrect == Spec => []TypeOK
<1>1. IInv => TypeOK  BY TypesGiveTypeOK DEF IInv
<1>. QED  BY <1>1, Inductive, PTL

(* For any number of files, names, metadata and replacements, and after any *)
(* sequence of tools, a search finds for each id the name and metadata it   *)
(* should have, and bgdump lists it (bgparse, bgsearch.parse, bgdump -f).   *)
THEOREM NamesStayRight == Spec => []NamesAreAsAsked
<1>. QED  BY ReadsAreAsAsked, Inductive, PTL

(* After any sequence of tools nothing of a name that was removed or made   *)
(* shorter is behind the lines: the padding of bgextractfile covers it, and *)
(* the script truncates (bgextractfile main, process_file).                 *)
THEOREM NamesThatGoAreGone == Spec => []NoNameIsLeft
<1>. QED  BY NothingIsLeft, Inductive, PTL

(* At any write, and after a kill at any write, a reader of a map that is  *)
(* not compressed is right for every id whose line is written, and finds   *)
(* the old name or the new one up to the first line whose length changes   *)
(* (the writes of bgextractfile and of process_file).                      *)
THEOREM TornMapStaysReadable == Spec => []TornMapIsRightUpToTheChange
<1>. QED  BY TornReadIsRight, Inductive, PTL
=============================================================================

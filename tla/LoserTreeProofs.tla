---------------------------- MODULE LoserTreeProofs -----------------------------
(***************************************************************************)
(* Proofs about LoserTree, for any number of files and any n-grams: the    *)
(* tree that build_tree links has each file below one node of every level, *)
(* update_tree leaves in each of its nodes the first file below it, and so *)
(* the merge sends the inverted index of the files, in order.              *)
(***************************************************************************)
EXTENDS LoserTree, CommonProofs

-----------------------------------------------------------------------------
(* Halving: where the ancestors of a leaf are in their levels *)

(* the k-th ancestor of the leaf f is node o[k][f] of its level *)
Halves(o) ==
    /\ o \in [Nat -> [Nat -> Nat]]
    /\ \A f \in Nat : o[0][f] = f
    /\ \A k, f \in Nat : o[k + 1][f] = o[k][f] \div 2

Off == CHOOSE o : Halves(o)

LEMMA HalfIs ==
    ASSUME NEW g \in Nat
    PROVE  g \div 2 \in Nat /\ (g = 2 * (g \div 2) \/ g = 2 * (g \div 2) + 1)
<1>1. 2 \in Nat \ {0} /\ 2 - 1 = 1  OBVIOUS
<1>2. PICK q \in Nat, r \in 0 .. 1 : q = g \div 2 /\ g = 2 * q + r  BY <1>1, Division
<1>. QED  BY <1>2

LEMMA OffIs == Halves(Off)
<1>. DEFINE S == [Nat -> Nat]
            id == [f \in Nat |-> f]
            F == [k \in Nat |-> [g \in S |-> [f \in Nat |-> g[f] \div 2]]]
<1>1. id \in S  OBVIOUS
<1>2. StepsIn(F, S)
  <2>1. ASSUME NEW g \in S PROVE [f \in Nat |-> g[f] \div 2] \in S
    <3>1. \A f \in Nat : g[f] \in Nat /\ g[f] \div 2 \in Nat  BY HalfIs
    <3>. QED  BY <3>1
  <2>. HIDE DEF S
  <2>. QED  BY <2>1 DEF StepsIn
<1>3. PICK o : Recurses(o, S, id, F)
  <2>. HIDE DEF S, id, F
  <2>. QED  BY <1>1, <1>2, Recursion
<1>4. o \in [Nat -> S] /\ o[0] = id /\ \A k \in Nat : o[k + 1] = F[k][o[k]]
  <2>. HIDE DEF S, id, F
  <2>. QED  BY <1>3 DEF Recurses
<1>5. ASSUME NEW k \in Nat, NEW f \in Nat PROVE o[k + 1][f] = o[k][f] \div 2
  <2>1. o[k] \in S  BY <1>4
  <2>2. o[k + 1] = F[k][o[k]]
    <3>. HIDE DEF S, F, id
    <3>. QED  BY <1>4
  <2>. QED  BY <2>1, <2>2
<1>6. Halves(o)
  <2>1. \A f \in Nat : id[f] = f  OBVIOUS
  <2>. HIDE DEF F, id
  <2>. QED  BY <1>4, <1>5, <2>1 DEF Halves
<1>. QED  BY <1>6 DEF Off

(* the ancestors of a level are in the order of the leaves *)
LEMMA OffMonotone ==
    ASSUME NEW f \in Nat, NEW g \in Nat, f <= g, NEW k \in Nat
    PROVE  Off[k][f] <= Off[k][g]
<1>. DEFINE T == {i \in Nat : Off[i][f] <= Off[i][g]}
<1>1. 0 \in T  BY OffIs DEF Halves
<1>2. ASSUME NEW i \in Nat, i \in T PROVE i + 1 \in T
  <2>1. PICK x \in Nat, y \in Nat : x = Off[i][f] /\ y = Off[i][g]  BY OffIs DEF Halves
  <2>2. x <= y  BY <1>2, <2>1
  <2>3. x \div 2 <= y \div 2
    <3>1. 2 \in Nat \ {0}  OBVIOUS
    <3>. QED  BY <2>2, <3>1, DivisionMonotone
  <2>4. Off[i + 1][f] = x \div 2 /\ Off[i + 1][g] = y \div 2  BY <2>1, OffIs DEF Halves
  <2>. QED  BY <2>3, <2>4
<1>3. Nat \subseteq T
  <2>. HIDE DEF T
  <2>. QED  BY <1>1, <1>2, Induction
<1>4. k \in T
  <2>. HIDE DEF T
  <2>. QED  BY <1>3
<1>. QED  BY <1>4

(* a pair of nodes for every two, the last one with a phantom *)
LEMMA EvenIs ==
    ASSUME NEW c \in Nat \ {0}
    PROVE  \E q \in Nat \ {0} : /\ q = Even(c) \div 2 /\ Even(c) = 2 * q
                               /\ (c = 2 * q \/ c = 2 * q - 1)
                               /\ (c > 1 => q < c) /\ (c = 1 => q = 1)
<1>1. 2 \in Nat \ {0} /\ 2 - 1 = 1  OBVIOUS
<1>2. PICK h \in Nat, r \in 0 .. 1 : h = c \div 2 /\ r = c % 2 /\ c = 2 * h + r  BY <1>1, Division
<1>3. Even(c) = c + r  BY <1>2 DEF Even
<1>4. CASE r = 0
  <2>1. Even(c) = 2 * h + 0 /\ h # 0  BY <1>2, <1>3, <1>4
  <2>2. 0 \in 0 .. 2 - 1  OBVIOUS
  <2>3. Even(c) \div 2 = h  BY <1>1, <2>1, <2>2, DivisionUnique
  <2>. QED  BY <1>2, <1>4, <2>1, <2>3
<1>5. CASE r = 1
  <2>1. PICK q \in Nat \ {0} : q = h + 1  OBVIOUS
  <2>2. Even(c) = 2 * q + 0 /\ c = 2 * q - 1  BY <1>2, <1>3, <1>5, <2>1
  <2>3. 0 \in 0 .. 2 - 1  OBVIOUS
  <2>4. Even(c) \div 2 = q  BY <1>1, <2>2, <2>3, DivisionUnique
  <2>. QED  BY <1>2, <1>5, <2>1, <2>2, <2>4
<1>. QED  BY <1>2, <1>4, <1>5

-----------------------------------------------------------------------------
(* The levels *)

Cnt(k) == level[k].cnt
Start(k) == level[k].curnode
Pair(k) == Even(Cnt(k)) \div 2           \* pairs of nodes in a level

(* each level has half the nodes of the one below and starts behind it *)
LEMMA LevelIs ==
    ASSUME num \in Nat \ {0, 1}
    PROVE  /\ Cnt(0) = num /\ Start(0) = 0
           /\ \A k \in Nat :
                /\ Cnt(k) \in Nat \ {0} /\ Start(k) \in Nat
                /\ Cnt(k + 1) = Pair(k) /\ Start(k + 1) = Start(k) + 2 * Cnt(k + 1)
                /\ level[k].p = Start(k + 1)
                /\ (Cnt(k) = 2 * Cnt(k + 1) \/ Cnt(k) = 2 * Cnt(k + 1) - 1)
                /\ (Cnt(k) > 1 => Cnt(k + 1) < Cnt(k)) /\ (Cnt(k) = 1 => Cnt(k + 1) = 1)
<1>. DEFINE S == [cnt : Nat \ {0}, curnode : Nat, p : Nat]
            c == [cnt |-> num, curnode |-> 0, p |-> Even(num)]
            Up(b) == [cnt |-> Even(b.cnt) \div 2, curnode |-> b.curnode + 2 * (Even(b.cnt) \div 2),
                      p |-> b.p + Even(Even(b.cnt) \div 2)]
            F == [k \in Nat |-> [b \in S |-> Up(b)]]
            Body(f) == [k \in Nat |-> IF k = 0 THEN c ELSE Up(f[k - 1])]
            fn == CHOOSE f : f = Body(f)
<1>1. level = fn  BY DEF level
<1>2. c \in S
  <2>1. PICK q \in Nat : Even(num) = 2 * q  BY EvenIs
  <2>2. Even(num) \in Nat  BY <2>1
  <2>. QED  BY <2>2
<1>3. ASSUME NEW b \in S PROVE Up(b) \in S
  <2>1. PICK q \in Nat \ {0} : q = Even(b.cnt) \div 2  BY EvenIs
  <2>2. PICK r \in Nat : Even(q) = 2 * r  BY EvenIs
  <2>3. Up(b) = [cnt |-> q, curnode |-> b.curnode + 2 * q, p |-> b.p + 2 * r]  BY <2>1, <2>2
  <2>4. b.curnode + 2 * q \in Nat /\ b.p + 2 * r \in Nat  OBVIOUS
  <2>. HIDE DEF Up
  <2>. QED  BY <2>3, <2>4
<1>. HIDE DEF S, c, Up
<1>4. \E f : Recurses(f, S, c, F)
  <2>1. StepsIn(F, S)  BY <1>3 DEF StepsIn
  <2>. HIDE DEF F
  <2>. QED  BY <1>2, <2>1, Recursion
<1>5. PICK g : Recurses(g, S, c, F)  BY <1>4
<1>6. g \in [Nat -> S] /\ g[0] = c /\ \A k \in Nat : g[k + 1] = Up(g[k])
  <2>1. g \in [Nat -> S] /\ g[0] = c /\ \A k \in Nat : g[k + 1] = F[k][g[k]]
    <3>. HIDE DEF F
    <3>. QED  BY <1>5 DEF Recurses
  <2>. QED  BY <2>1
<1>7. g = Body(g)
  <2>1. ASSUME NEW k \in Nat PROVE g[k] = IF k = 0 THEN c ELSE Up(g[k - 1])
    <3>1. CASE k = 0  BY <1>6, <3>1
    <3>2. CASE k # 0
      <4>1. PICK i \in Nat : i = k - 1 /\ k = i + 1  BY <3>2
      <4>2. g[i + 1] = Up(g[i])  BY <1>6
      <4>. QED  BY <3>2, <4>1, <4>2
    <3>. QED  BY <3>1, <3>2
  <2>2. g = [k \in Nat |-> g[k]]  BY <1>6
  <2>. QED  BY <2>1, <2>2
<1>8. fn = Body(fn)  BY <1>7
<1>. HIDE DEF fn
<1>9. fn[0] = c /\ \A k \in Nat : fn[k + 1] = Up(fn[k])
  <2>1. fn[0] = c  BY <1>8
  <2>2. ASSUME NEW k \in Nat PROVE fn[k + 1] = Up(fn[k])
    <3>1. k + 1 \in Nat /\ k + 1 # 0 /\ k + 1 - 1 = k  OBVIOUS
    <3>2. fn[k + 1] = IF k + 1 = 0 THEN c ELSE Up(fn[k + 1 - 1])  BY <1>8, <3>1
    <3>. QED  BY <3>1, <3>2
  <2>. QED  BY <2>1, <2>2
<1>10. \A k \in Nat : fn[k] \in S
  <2>. DEFINE T == {k \in Nat : fn[k] \in S}
  <2>1. 0 \in T  BY <1>2, <1>9
  <2>2. ASSUME NEW k \in Nat, k \in T PROVE k + 1 \in T  BY <1>3, <1>9, <2>2
  <2>3. Nat \subseteq T
    <3>. HIDE DEF T
    <3>. QED  BY <2>1, <2>2, Induction
  <2>. QED  BY <2>3
<1>11. \A k \in Nat : fn[k].p = fn[k].curnode + Even(fn[k].cnt)
  <2>. DEFINE T == {k \in Nat : fn[k].p = fn[k].curnode + Even(fn[k].cnt)}
  <2>1. 0 \in T
    <3>1. fn[0].p = Even(num) /\ fn[0].curnode = 0 /\ fn[0].cnt = num  BY <1>9 DEF c
    <3>2. PICK q \in Nat : Even(num) = 2 * q  BY EvenIs
    <3>3. 0 + Even(num) = Even(num)  BY <3>2
    <3>. QED  BY <3>1, <3>3
  <2>2. ASSUME NEW k \in Nat, k \in T PROVE k + 1 \in T
    <3>1. PICK b \in S : b = fn[k] /\ b.p = b.curnode + Even(b.cnt)  BY <1>10, <2>2
    <3>2. b.cnt \in Nat \ {0} /\ b.curnode \in Nat  BY DEF S
    <3>3. PICK q \in Nat \ {0} : q = Even(b.cnt) \div 2 /\ Even(b.cnt) = 2 * q  BY <3>2, EvenIs
    <3>4. fn[k + 1] = [cnt |-> q, curnode |-> b.curnode + 2 * q, p |-> b.p + Even(q)]
      BY <1>9, <3>1, <3>3 DEF Up
    <3>5. fn[k + 1].p = b.p + Even(q) /\ fn[k + 1].curnode = b.curnode + 2 * q /\ fn[k + 1].cnt = q
      BY <3>4
    <3>6. b.p = b.curnode + 2 * q  BY <3>1, <3>3
    <3>. QED  BY <3>5, <3>6
  <2>3. Nat \subseteq T
    <3>. HIDE DEF T
    <3>. QED  BY <2>1, <2>2, Induction
  <2>. QED  BY <2>3
<1>12. ASSUME NEW k \in Nat
       PROVE  /\ Cnt(k) \in Nat \ {0} /\ Start(k) \in Nat
              /\ Cnt(k + 1) = Pair(k) /\ Start(k + 1) = Start(k) + 2 * Cnt(k + 1)
              /\ level[k].p = Start(k + 1)
              /\ (Cnt(k) = 2 * Cnt(k + 1) \/ Cnt(k) = 2 * Cnt(k + 1) - 1)
              /\ (Cnt(k) > 1 => Cnt(k + 1) < Cnt(k)) /\ (Cnt(k) = 1 => Cnt(k + 1) = 1)
  <2>1. PICK b \in S : b = fn[k]  BY <1>10
  <2>2. b.cnt \in Nat \ {0} /\ b.curnode \in Nat /\ b.cnt = Cnt(k) /\ b.curnode = Start(k)
    BY <1>1, <2>1 DEF S, Cnt, Start
  <2>3. PICK q \in Nat \ {0} : /\ q = Even(b.cnt) \div 2 /\ Even(b.cnt) = 2 * q
                               /\ (b.cnt = 2 * q \/ b.cnt = 2 * q - 1)
                               /\ (b.cnt > 1 => q < b.cnt) /\ (b.cnt = 1 => q = 1)
    BY <2>2, EvenIs
  <2>4. fn[k + 1] = [cnt |-> q, curnode |-> b.curnode + 2 * q, p |-> b.p + Even(q)]
    BY <1>9, <2>1, <2>3 DEF Up
  <2>5. Cnt(k + 1) = q /\ Start(k + 1) = Start(k) + 2 * q
    BY <1>1, <2>2, <2>4 DEF Cnt, Start
  <2>6. level[k].p = Start(k) + 2 * q  BY <1>1, <1>11, <2>1, <2>2, <2>3
  <2>7. Pair(k) = q  BY <2>2, <2>3 DEF Pair
  <2>. QED  BY <2>2, <2>3, <2>5, <2>6, <2>7
<1>13. Cnt(0) = num /\ Start(0) = 0  BY <1>1, <1>9 DEF Cnt, Start, c
<1>. QED  BY <1>12, <1>13

(* There is a level that is a single node, and it is the root *)
Height(h) ==
    /\ h \in Nat \ {0} /\ h <= num
    /\ Cnt(h) = 1 /\ \A k \in 0 .. h - 1 : Cnt(k) > 1
    /\ \A k \in Nat : k >= h => Cnt(k) = 1
    /\ root = Start(h)

(* the recursion of numnodes has a solution *)
LEMMA NumnodesIs ==
    \A c \in Nat \ {0} : numnodes[c] = IF c > 1 THEN Even(c) + numnodes[Even(c) \div 2] ELSE 1
<1>. DEFINE D == Nat
            B == {0, 1}
            S == Nat
            base == [c \in D |-> 1]
            d == [c \in D |-> Even(c) \div 2]
            mu == [c \in D |-> c]
            F == [c \in D |-> [t \in S |-> Even(c) + t]]
            Body(f) == [c \in Nat |-> IF c > 1 THEN Even(c) + f[Even(c) \div 2] ELSE 1]
            fn == CHOOSE f : f = Body(f)
<1>1. numnodes = fn  BY DEF numnodes
<1>2. Falls(d, mu, D, B)
  <2>1. ASSUME NEW c \in D \ B PROVE d[c] \in D /\ mu[d[c]] < mu[c]
    <3>1. c \in Nat \ {0} /\ c > 1  OBVIOUS
    <3>2. PICK q \in Nat \ {0} : q = Even(c) \div 2 /\ q < c  BY <3>1, EvenIs
    <3>3. d[c] = q /\ mu[q] = q /\ mu[c] = c  BY <3>2
    <3>. QED  BY <3>2, <3>3
  <2>2. mu \in [D -> Nat]  OBVIOUS
  <2>. HIDE DEF d, mu, B, D
  <2>. QED  BY <2>1, <2>2 DEF Falls
<1>3. \A c \in Nat : Even(c) \in Nat
  <2>1. ASSUME NEW c \in Nat PROVE Even(c) \in Nat
    <3>1. CASE c = 0
      <4>1. 0 % 2 = 0  OBVIOUS
      <4>. QED  BY <3>1, <4>1 DEF Even
    <3>2. CASE c # 0
      <4>1. c \in Nat \ {0}  BY <3>2
      <4>2. PICK q \in Nat : Even(c) = 2 * q  BY <4>1, EvenIs
      <4>. QED  BY <4>2
    <3>. QED  BY <3>1, <3>2
  <2>. QED  BY <2>1
<1>4. BuildsOn(base, F, D, S)
  <2>1. ASSUME NEW c \in D, NEW t \in S PROVE Even(c) + t \in S  BY <1>3
  <2>2. base \in [D -> S]  OBVIOUS
  <2>. HIDE DEF D, S, base
  <2>. QED  BY <2>1, <2>2 DEF BuildsOn
<1>5. PICK f : Unfolds(f, D, S, B, base, F, d)
  <2>. HIDE DEF D, S, B, base, F, d, mu
  <2>. QED  BY <1>2, <1>4, FallingRecursion
<1>6. f \in [D -> S] /\ \A c \in D : f[c] = IF c \in B THEN base[c] ELSE F[c][f[d[c]]]
  <2>. HIDE DEF D, S, B, base, F, d
  <2>. QED  BY <1>5 DEF Unfolds
<1>7. f = Body(f)
  <2>1. ASSUME NEW c \in Nat PROVE f[c] = IF c > 1 THEN Even(c) + f[Even(c) \div 2] ELSE 1
    <3>1. CASE c \in B
      <4>2. f[c] = base[c]
        <5>. HIDE DEF B, base, F, d
        <5>. QED  BY <1>6, <3>1
      <4>1. ~(c > 1) /\ f[c] = 1  BY <3>1, <4>2
      <4>. QED  BY <4>1
    <3>2. CASE c \notin B
      <4>1. c > 1 /\ c \in Nat \ {0}  BY <3>2
      <4>2. PICK q \in Nat \ {0} : q = Even(c) \div 2  BY <4>1, EvenIs
      <4>3. f[q] \in Nat  BY <1>6
      <4>4. d[c] = q /\ F[c][f[q]] = Even(c) + f[q]  BY <4>2, <4>3
      <4>5. f[c] = F[c][f[d[c]]]
        <5>. HIDE DEF F, d, base, B
        <5>. QED  BY <1>6, <3>2
      <4>. QED  BY <4>1, <4>2, <4>4, <4>5
    <3>. QED  BY <3>1, <3>2
  <2>2. f = [c \in Nat |-> f[c]]  BY <1>6
  <2>. QED  BY <2>1, <2>2
<1>8. fn = Body(fn)  BY <1>7
<1>. HIDE DEF fn
<1>9. \A c \in Nat : fn[c] = IF c > 1 THEN Even(c) + fn[Even(c) \div 2] ELSE 1  BY <1>8
<1>. QED  BY <1>1, <1>9

(* for any number of files *)
LEMMA HeightIs ==
    ASSUME num \in Nat \ {0, 1}
    PROVE  \E h : Height(h)
<1>1. Cnt(0) = num /\ Start(0) = 0  BY LevelIs
<1>2. \A k \in Nat : /\ Cnt(k) \in Nat \ {0} /\ Start(k) \in Nat
                     /\ Cnt(k + 1) = Pair(k) /\ Start(k + 1) = Start(k) + 2 * Cnt(k + 1)
                     /\ (Cnt(k) > 1 => Cnt(k + 1) < Cnt(k)) /\ (Cnt(k) = 1 => Cnt(k + 1) = 1)
  BY LevelIs
<1>. DEFINE T == {k \in Nat : (\A i \in 0 .. k - 1 : Cnt(i) > 1) => Cnt(k) + k <= num}
<1>3. Nat \subseteq T
  <2>1. 0 \in T  BY <1>1
  <2>2. ASSUME NEW k \in Nat, k \in T PROVE k + 1 \in T
    <3>1. SUFFICES ASSUME \A i \in 0 .. k + 1 - 1 : Cnt(i) > 1 PROVE Cnt(k + 1) + (k + 1) <= num
      OBVIOUS
    <3>2. Cnt(k) > 1 /\ \A i \in 0 .. k - 1 : Cnt(i) > 1
      <4>1. k \in 0 .. k + 1 - 1 /\ \A i \in 0 .. k - 1 : i \in 0 .. k + 1 - 1  OBVIOUS
      <4>. QED  BY <3>1, <4>1
    <3>3. Cnt(k) + k <= num  BY <2>2, <3>2
    <3>4. PICK x \in Nat, y \in Nat : x = Cnt(k) /\ y = Cnt(k + 1) /\ y < x  BY <1>2, <3>2
    <3>. QED  BY <3>3, <3>4
  <2>. HIDE DEF T
  <2>. QED  BY <2>1, <2>2, Induction
<1>4. PICK h \in Nat : h <= num /\ ~(Cnt(h) > 1) /\ \A k \in 0 .. h - 1 : Cnt(k) > 1
  <2>. DEFINE U == {k \in Nat : ~(Cnt(k) > 1)}
  <2>1. U # {}
    <3>1. SUFFICES ASSUME \A k \in Nat : Cnt(k) > 1 PROVE FALSE  OBVIOUS
    <3>2. num \in T  BY <1>3
    <3>3. Cnt(num) + num <= num  BY <3>1, <3>2
    <3>4. Cnt(num) \in Nat /\ Cnt(num) > 1  BY <1>2, <3>1
    <3>. QED  BY <3>3, <3>4
  <2>2. PICK h \in U : \A k \in U : h <= k
    <3>1. U \in SUBSET Nat  OBVIOUS
    <3>. HIDE DEF U
    <3>. QED  BY <2>1, <3>1, LeastElement
  <2>3. \A k \in 0 .. h - 1 : Cnt(k) > 1
    <3>1. ASSUME NEW k \in 0 .. h - 1, ~(Cnt(k) > 1) PROVE FALSE
      <4>1. k \in U /\ h \in Nat  BY <3>1
      <4>2. h <= k  BY <2>2, <4>1
      <4>. QED  BY <4>1, <4>2
    <3>. QED  BY <3>1
  <2>4. h \in T  BY <1>3
  <2>5. Cnt(h) + h <= num /\ Cnt(h) \in Nat  BY <1>2, <2>3, <2>4
  <2>6. h \in Nat /\ ~(Cnt(h) > 1)  OBVIOUS
  <2>. QED  BY <2>3, <2>5, <2>6
<1>5. Cnt(h) = 1
  <2>1. PICK c \in Nat \ {0} : c = Cnt(h)  BY <1>2
  <2>2. ~(c > 1)  BY <1>4, <2>1
  <2>. QED  BY <2>1, <2>2
<1>6. h # 0  BY <1>1, <1>5
<1>7. \A k \in Nat : Cnt(h + k) = 1
  <2>. DEFINE V == {k \in Nat : Cnt(h + k) = 1}
  <2>1. 0 \in V
    <3>1. h + 0 = h  OBVIOUS
    <3>. QED  BY <1>5, <3>1
  <2>2. ASSUME NEW k \in Nat, k \in V PROVE k + 1 \in V
    <3>1. h + (k + 1) = (h + k) + 1 /\ h + k \in Nat  OBVIOUS
    <3>. QED  BY <1>2, <2>2, <3>1
  <2>3. Nat \subseteq V
    <3>. HIDE DEF V
    <3>. QED  BY <2>1, <2>2, Induction
  <2>. QED  BY <2>3
<1>8. ASSUME NEW k \in Nat, k >= h PROVE Cnt(k) = 1
  <2>1. k - h \in Nat /\ h + (k - h) = k  BY <1>8
  <2>. QED  BY <1>7, <2>1
<1>9. root = Start(h)
  <2>. DEFINE W == {k \in Nat : k <= h => numnodes[Cnt(k)] + Start(k) = numnodes[num]}
  <2>4. numnodes[1] = 1  BY NumnodesIs
  <2>5. \A k \in Nat : numnodes[Cnt(k)] \in Nat
    <3>. DEFINE X == {c \in Nat : c # 0 => numnodes[c] \in Nat}
                mu == [c \in Nat |-> c]
    <3>1. ASSUME NEW c \in Nat, \A e \in Nat : mu[e] < mu[c] => e \in X PROVE c \in X
      <4>1. SUFFICES ASSUME c # 0 PROVE numnodes[c] \in Nat  OBVIOUS
      <4>2. CASE c > 1
        <5>1. PICK q \in Nat \ {0} : q = Even(c) \div 2 /\ Even(c) = 2 * q /\ q < c
          BY <4>1, <4>2, EvenIs
        <5>2. q \in X  BY <3>1, <5>1
        <5>3. numnodes[q] \in Nat  BY <5>2
        <5>4. numnodes[c] = 2 * q + numnodes[q]  BY <4>1, <4>2, <5>1, NumnodesIs
        <5>. QED  BY <5>3, <5>4
      <4>3. CASE ~(c > 1)
        <5>1. numnodes[c] = 1  BY <4>1, <4>3, NumnodesIs
        <5>. QED  BY <5>1
      <4>. QED  BY <4>2, <4>3
    <3>2. mu \in [Nat -> Nat]  OBVIOUS
    <3>3. Nat \subseteq X
      <4>. HIDE DEF X, mu
      <4>. QED  BY <3>1, <3>2, MeasureInduction
    <3>. QED  BY <1>2, <3>3
  <2>1. 0 \in W
    <3>1. numnodes[num] \in Nat  BY <1>1, <2>5
    <3>. QED  BY <1>1, <3>1
  <2>2. ASSUME NEW k \in Nat, k \in W PROVE k + 1 \in W
    <3>1. SUFFICES ASSUME k + 1 <= h PROVE numnodes[Cnt(k + 1)] + Start(k + 1) = numnodes[num]
      OBVIOUS
    <3>2. Cnt(k) > 1 /\ numnodes[Cnt(k)] + Start(k) = numnodes[num]
      <4>1. k \in 0 .. h - 1 /\ k <= h  BY <3>1
      <4>. QED  BY <1>4, <2>2, <4>1
    <3>3. PICK c \in Nat \ {0} : c = Cnt(k)  BY <1>2
    <3>4. PICK q \in Nat \ {0} : q = Even(c) \div 2 /\ Even(c) = 2 * q  BY EvenIs
    <3>5. numnodes[c] = 2 * q + numnodes[q]  BY <3>2, <3>3, <3>4, NumnodesIs
    <3>6. Cnt(k + 1) = q  BY <1>2, <3>3, <3>4 DEF Pair
    <3>7. Start(k + 1) = Start(k) + 2 * q  BY <1>2, <3>6
    <3>8. PICK x \in Nat, y \in Nat : x = numnodes[q] /\ y = Start(k)
      <4>1. k + 1 \in Nat  OBVIOUS
      <4>2. numnodes[Cnt(k + 1)] \in Nat  BY <2>5, <4>1
      <4>. QED  BY <1>2, <3>6, <4>2
    <3>. QED  BY <3>2, <3>3, <3>5, <3>6, <3>7, <3>8
  <2>3. h \in W
    <3>1. Nat \subseteq W
      <4>. HIDE DEF W
      <4>. QED  BY <2>1, <2>2, Induction
    <3>. QED  BY <3>1
  <2>6. numnodes[num] = 1 + Start(h)  BY <1>5, <2>3, <2>4
  <2>7. Start(h) \in Nat  BY <1>2
  <2>. QED  BY <2>6, <2>7 DEF root
<1>. QED  BY <1>4, <1>5, <1>6, <1>8, <1>9 DEF Height

(* Node j of level k, phantoms included *)
Node(k, j) == Start(k) + j
Place(h, k, j) == k \in 0 .. h /\ j \in Nat /\ j < 2 * Cnt(k + 1) /\ (k = h => j = 0)

(* a level ends before the next ones start *)
LEMMA LevelsApart ==
    ASSUME num \in Nat \ {0, 1}, NEW i \in Nat, NEW k \in Nat, i < k
    PROVE  Start(i) + 2 * Cnt(i + 1) <= Start(k)
<1>1. \A l \in Nat : /\ Start(l) \in Nat /\ Cnt(l + 1) \in Nat
                     /\ Start(l + 1) = Start(l) + 2 * Cnt(l + 1)
  <2>1. \A l \in Nat : l + 1 \in Nat  OBVIOUS
  <2>. QED  BY <2>1, LevelIs
<1>. DEFINE T == {d \in Nat : Start(i + 1) <= Start(i + 1 + d)}
<1>2. 0 \in T
  <2>1. i + 1 + 0 = i + 1 /\ i + 1 \in Nat  OBVIOUS
  <2>2. Start(i + 1) \in Nat  BY <1>1, <2>1
  <2>. QED  BY <2>1, <2>2
<1>3. ASSUME NEW d \in Nat, d \in T PROVE d + 1 \in T
  <2>1. PICK l \in Nat : l = i + 1 + d /\ i + 1 + (d + 1) = l + 1  OBVIOUS
  <2>2. PICK x \in Nat, y \in Nat, z \in Nat : x = Start(i + 1) /\ y = Start(l) /\ z = Cnt(l + 1)
    <3>1. i + 1 \in Nat  OBVIOUS
    <3>. QED  BY <1>1, <3>1
  <2>3. x <= y  BY <1>3, <2>1, <2>2
  <2>4. Start(l + 1) = y + 2 * z  BY <1>1, <2>2
  <2>5. x <= y + 2 * z  BY <2>3
  <2>. QED  BY <2>1, <2>2, <2>4, <2>5
<1>4. k - (i + 1) \in T
  <2>1. Nat \subseteq T
    <3>. HIDE DEF T
    <3>. QED  BY <1>2, <1>3, Induction
  <2>2. k - (i + 1) \in Nat  OBVIOUS
  <2>. HIDE DEF T
  <2>. QED  BY <2>1, <2>2
<1>5. i + 1 + (k - (i + 1)) = k  OBVIOUS
<1>. QED  BY <1>1, <1>4, <1>5

(* no node is in two places *)
LEMMA NodeUnique ==
    ASSUME num \in Nat \ {0, 1}, NEW h, Height(h),
           NEW k, NEW j, NEW i, NEW l, Place(h, k, j), Place(h, i, l), Node(k, j) = Node(i, l)
    PROVE  k = i /\ j = l
<1>1. k \in Nat /\ i \in Nat /\ j \in Nat /\ l \in Nat /\ j < 2 * Cnt(k + 1) /\ l < 2 * Cnt(i + 1)
  BY DEF Place, Height
<1>2. PICK x \in Nat, y \in Nat, c \in Nat, e \in Nat :
        x = Start(k) /\ y = Start(i) /\ c = Cnt(k + 1) /\ e = Cnt(i + 1)
  <2>1. k + 1 \in Nat /\ i + 1 \in Nat  BY <1>1
  <2>. QED  BY <1>1, <2>1, LevelIs
<1>3. x + j = y + l  BY <1>2 DEF Node
<1>4. ~(k < i)
  <2>1. SUFFICES ASSUME k < i PROVE FALSE  OBVIOUS
  <2>2. x + 2 * c <= y  BY <1>1, <1>2, <2>1, LevelsApart
  <2>. QED  BY <1>1, <1>2, <1>3, <2>2
<1>5. ~(i < k)
  <2>1. SUFFICES ASSUME i < k PROVE FALSE  OBVIOUS
  <2>2. y + 2 * e <= x  BY <1>1, <1>2, <2>1, LevelsApart
  <2>. QED  BY <1>1, <1>2, <1>3, <2>2
<1>6. k = i  BY <1>1, <1>4, <1>5
<1>. QED  BY <1>1, <1>2, <1>3, <1>6

(* each place is a node ... *)
LEMMA NodeIn ==
    ASSUME num \in Nat \ {0, 1}, NEW h, Height(h), NEW k, NEW j, Place(h, k, j)
    PROVE  Node(k, j) \in Nodes /\ (k < h => Node(k, j) < root)
<1>1. k \in Nat /\ h \in Nat /\ j \in Nat /\ j < 2 * Cnt(k + 1) /\ k <= h /\ (k = h => j = 0)
  BY DEF Place, Height
<1>2. PICK x \in Nat, r \in Nat, c \in Nat : x = Start(k) /\ r = Start(h) /\ c = Cnt(k + 1)
  <2>1. k + 1 \in Nat  BY <1>1
  <2>. QED  BY <1>1, <2>1, LevelIs
<1>3. root = r  BY <1>2 DEF Height
<1>4. CASE k < h
  <2>1. x + 2 * c <= r  BY <1>1, <1>2, <1>4, LevelsApart
  <2>2. x + j \in 0 .. r /\ x + j < r  BY <1>1, <1>2, <2>1
  <2>. QED  BY <1>2, <1>3, <2>2 DEF Node, Nodes
<1>5. CASE ~(k < h)
  <2>1. k = h /\ j = 0  BY <1>1, <1>5
  <2>2. x + j \in 0 .. r  BY <1>2, <2>1
  <2>. QED  BY <1>2, <1>3, <1>5, <2>2 DEF Node, Nodes
<1>. QED  BY <1>4, <1>5

(* ... and each node is in a place *)
LEMMA NodeOnto ==
    ASSUME num \in Nat \ {0, 1}, NEW h, Height(h), NEW node \in Nodes
    PROVE  \E k, j : Place(h, k, j) /\ node = Node(k, j)
<1>1. h \in Nat /\ Start(h) \in Nat /\ root = Start(h) /\ node \in 0 .. root /\ Start(0) = 0
  BY LevelIs DEF Height, Nodes
<1>2. PICK x \in Nat : x = node /\ x <= Start(h)  BY <1>1
<1>. DEFINE T == {i \in Nat : i <= h => (x < Start(i) => \E k, j : Place(h, k, j) /\ x = Node(k, j))}
<1>3. 0 \in T  BY <1>1, <1>2
<1>4. ASSUME NEW i \in Nat, i \in T PROVE i + 1 \in T
  <2>1. SUFFICES ASSUME i + 1 <= h, x < Start(i + 1)
                 PROVE  \E k, j : Place(h, k, j) /\ x = Node(k, j)
    OBVIOUS
  <2>2. PICK s \in Nat, c \in Nat : s = Start(i) /\ c = Cnt(i + 1) /\ Start(i + 1) = s + 2 * c
    <3>1. i + 1 \in Nat  OBVIOUS
    <3>. QED  BY <3>1, LevelIs
  <2>3. CASE x < s
    <3>1. i <= h  BY <2>1, <1>1
    <3>. QED  BY <1>4, <2>2, <2>3, <3>1
  <2>4. CASE ~(x < s)
    <3>1. PICK j \in Nat : x = s + j /\ j < 2 * c
      <4>1. x - s \in Nat /\ x = s + (x - s) /\ x - s < 2 * c  BY <2>1, <2>2, <2>4
      <4>. QED  BY <4>1
    <3>2. i \in 0 .. h /\ i # h  BY <1>1, <2>1
    <3>3. Place(h, i, j)  BY <2>2, <3>1, <3>2 DEF Place
    <3>4. x = Node(i, j)  BY <2>2, <3>1 DEF Node
    <3>. QED  BY <3>3, <3>4
  <2>. QED  BY <2>3, <2>4
<1>5. h \in T
  <2>1. Nat \subseteq T
    <3>. HIDE DEF T
    <3>. QED  BY <1>3, <1>4, Induction
  <2>. HIDE DEF T
  <2>. QED  BY <1>1, <2>1
<1>6. CASE x < Start(h)  BY <1>1, <1>2, <1>5, <1>6
<1>7. CASE ~(x < Start(h))
  <2>1. x = Start(h) + 0  BY <1>1, <1>2, <1>7
  <2>2. 0 < 2 * Cnt(h + 1)
    <3>1. h + 1 \in Nat  BY <1>1
    <3>2. Cnt(h + 1) \in Nat \ {0}  BY <3>1, LevelIs
    <3>. QED  BY <3>2
  <2>3. Place(h, h, 0)  BY <1>1, <2>2 DEF Place
  <2>. QED  BY <1>2, <2>1, <2>3 DEF Node
<1>. QED  BY <1>6, <1>7

-----------------------------------------------------------------------------
(* The links *)

(* l is the link of node j of level k + 1 with its children *)
LinkIs(l, k, j) == l = [parent |-> Node(k + 1, j), left |-> Node(k, 2 * j),
                        right |-> Node(k, 2 * j + 1)]

(* node j of level k + 1 has children *)
Inner(h, k, j) == k \in 0 .. h - 1 /\ j \in 0 .. Cnt(k + 1) - 1

(* there is a link for every node with children, and no other *)
LEMMA LinksAre ==
    ASSUME num \in Nat \ {0, 1}, NEW h, Height(h)
    PROVE  /\ \A l \in Links : \E k, j : Inner(h, k, j) /\ LinkIs(l, k, j)
           /\ \A k, j : Inner(h, k, j) =>
                /\ \E l \in Links : LinkIs(l, k, j)
                /\ Place(h, k + 1, j) /\ Place(h, k, 2 * j) /\ Place(h, k, 2 * j + 1)
<1>1. /\ h \in Nat \ {0} /\ h <= num
      /\ \A k \in Nat : k >= h => Cnt(k) = 1
      /\ \A k \in 0 .. h - 1 : Cnt(k) > 1
  BY DEF Height
<1>2. \A k \in Nat : /\ Start(k) \in Nat /\ Cnt(k + 1) = Pair(k) /\ level[k].p = Start(k + 1)
                     /\ Cnt(k) \in Nat \ {0}
  BY LevelIs
<1>3. \A k \in 0 .. num : Cnt(k) > 1 <=> k \in 0 .. h - 1
  <2>1. ASSUME NEW k \in 0 .. num, Cnt(k) > 1 PROVE k \in 0 .. h - 1
    <3>1. ~(k >= h)  BY <1>1, <2>1
    <3>. QED  BY <1>1, <3>1
  <2>. QED  BY <1>1, <2>1
<1>4. \A k \in 0 .. h - 1 : k \in 0 .. num  BY <1>1
<1>5. ASSUME NEW k \in Nat, NEW j \in Nat PROVE LinkIs(Link(k, j), k, j)
  <2>1. level[k].curnode = Start(k) /\ level[k].p = Start(k + 1)  BY <1>2 DEF Start
  <2>2. Start(k) + (2 * j + 1) = Start(k) + 2 * j + 1  BY <1>2
  <2>. QED  BY <2>1, <2>2 DEF LinkIs, Link, Node
<1>6. ASSUME NEW l \in Links PROVE \E k, j : Inner(h, k, j) /\ LinkIs(l, k, j)
  <2>1. PICK k \in 0 .. num : /\ Cnt(k) > 1
                              /\ l \in {Link(k, j) : j \in 0 .. Pair(k) - 1}
    BY DEF Links, Pair, Cnt
  <2>2. PICK j \in 0 .. Pair(k) - 1 : l = Link(k, j)  BY <2>1
  <2>3. k \in 0 .. h - 1 /\ k \in Nat  BY <1>3, <2>1
  <2>4. j \in 0 .. Cnt(k + 1) - 1 /\ j \in Nat  BY <1>2, <2>3
  <2>5. LinkIs(l, k, j)  BY <1>5, <2>2, <2>3, <2>4
  <2>. QED  BY <2>3, <2>4, <2>5 DEF Inner
<1>7. ASSUME NEW k, NEW j, Inner(h, k, j)
      PROVE  /\ \E l \in Links : LinkIs(l, k, j)
             /\ Place(h, k + 1, j) /\ Place(h, k, 2 * j) /\ Place(h, k, 2 * j + 1)
  <2>0. k \in 0 .. h - 1 /\ j \in 0 .. Cnt(k + 1) - 1  BY <1>7 DEF Inner
  <2>1. k \in Nat /\ k + 1 \in Nat /\ k \in 0 .. num  BY <1>1, <1>4, <2>0
  <2>2. PICK c \in Nat \ {0} : c = Cnt(k + 1) /\ j \in 0 .. c - 1  BY <1>2, <2>0, <2>1
  <2>3. Link(k, j) \in Links
    <3>1. Cnt(k) > 1  BY <1>1, <2>0
    <3>2. j \in 0 .. Pair(k) - 1  BY <1>2, <2>0, <2>1
    <3>. QED  BY <2>1, <3>1, <3>2 DEF Links, Pair, Cnt
  <2>4. LinkIs(Link(k, j), k, j)  BY <1>5, <2>1, <2>2
  <2>5. PICK e \in Nat \ {0} : e = Cnt(k + 1 + 1) /\ (c = 2 * e \/ c = 2 * e - 1)
    <3>1. PICK i \in Nat : i = k + 1  BY <2>1
    <3>2. PICK m \in Nat : m = i + 1  OBVIOUS
    <3>3. Cnt(m) \in Nat \ {0} /\ (Cnt(i) = 2 * Cnt(m) \/ Cnt(i) = 2 * Cnt(m) - 1)
      <4>1. Cnt(i + 1) \in Nat \ {0}
        <5>1. i + 1 \in Nat  OBVIOUS
        <5>. QED  BY <5>1, LevelIs
      <4>. QED  BY <3>2, <4>1, LevelIs
    <3>. QED  BY <2>2, <3>1, <3>2, <3>3
  <2>6. Place(h, k + 1, j)
    <3>1. k + 1 \in 0 .. h /\ j \in Nat /\ j < 2 * e  BY <1>1, <2>0, <2>2, <2>5
    <3>2. ASSUME k + 1 = h PROVE j = 0
      <4>1. c = 1  BY <1>1, <2>1, <2>2, <3>2
      <4>. QED  BY <2>2, <4>1
    <3>. QED  BY <2>5, <3>1, <3>2 DEF Place
  <2>7. Place(h, k, 2 * j) /\ Place(h, k, 2 * j + 1)
    <3>1. k \in 0 .. h /\ k # h /\ 2 * j \in Nat /\ 2 * j + 1 \in Nat  BY <1>1, <2>0, <2>2
    <3>2. 2 * j < 2 * c /\ 2 * j + 1 < 2 * c  BY <2>2
    <3>. QED  BY <2>2, <3>1, <3>2 DEF Place
  <2>. QED  BY <2>3, <2>4, <2>6, <2>7
<1>. QED  BY <1>6, <1>7

(* What the links of build_tree are, level by level *)
Linked(h, up, lo, hi) ==
    /\ up \in [Nodes -> Nodes \cup {NULL}] /\ lo \in [Nodes -> Nodes \cup {NULL}]
    /\ hi \in [Nodes -> Nodes \cup {NULL}]
    /\ up[root] = NULL
    /\ \A k, j : Inner(h, k, j) =>
         /\ lo[Node(k + 1, j)] = Node(k, 2 * j) /\ up[Node(k, 2 * j)] = Node(k + 1, j)
         /\ hi[Node(k + 1, j)] = Node(k, 2 * j + 1) /\ up[Node(k, 2 * j + 1)] = Node(k + 1, j)
    /\ \A k, j : Place(h, k, j) /\ (\A i : k = i + 1 => ~Inner(h, i, j)) => lo[Node(k, j)] = NULL

(* where a node with children and those are *)
LEMMA InnerIs ==
    ASSUME num \in Nat \ {0, 1}, NEW h, Height(h), NEW k, NEW j, Inner(h, k, j)
    PROVE  /\ k \in 0 .. h - 1 /\ k \in Nat /\ k + 1 \in Nat /\ j \in Nat /\ j < Cnt(k + 1)
           /\ Place(h, k + 1, j) /\ Place(h, k, 2 * j) /\ Place(h, k, 2 * j + 1)
           /\ Node(k, 2 * j) \in Nodes /\ Node(k, 2 * j + 1) \in Nodes /\ Node(k + 1, j) \in Nodes
<1>1. k \in 0 .. h - 1 /\ h \in Nat /\ j \in 0 .. Cnt(k + 1) - 1  BY DEF Inner, Height
<1>2. k \in Nat /\ k + 1 \in Nat  BY <1>1
<1>3. PICK c \in Nat : c = Cnt(k + 1)  BY <1>2, LevelIs
<1>4. j \in Nat /\ j < c  BY <1>1, <1>3
<1>5. Place(h, k + 1, j) /\ Place(h, k, 2 * j) /\ Place(h, k, 2 * j + 1)  BY LinksAre
<1>6. Node(k, 2 * j) \in Nodes /\ Node(k, 2 * j + 1) \in Nodes /\ Node(k + 1, j) \in Nodes
  BY <1>5, NodeIn
<1>. QED  BY <1>1, <1>2, <1>3, <1>4, <1>5, <1>6

(* different nodes have different children *)
LEMMA PairsApart ==
    ASSUME NEW i \in Nat, NEW j \in Nat,
           2 * i = 2 * j \/ 2 * i = 2 * j + 1 \/ 2 * i + 1 = 2 * j \/ 2 * i + 1 = 2 * j + 1
    PROVE  i = j
OBVIOUS

(* what build_tree's pass over the levels has linked *)
LEMMA TreeIsLinked ==
    ASSUME num \in Nat \ {0, 1}, NEW h, Height(h), LinkTree
    PROVE  Linked(h, parent', left', right')
<1>. DEFINE up(n) == {l \in Links : n \in {l.left, l.right}}
            down(n) == {l \in Links : n = l.parent}
<1>1. /\ parent' = [n \in Nodes |-> IF up(n) = {} THEN NULL ELSE (CHOOSE l \in up(n) : TRUE).parent]
      /\ left' = [n \in Nodes |-> IF down(n) = {} THEN NULL ELSE (CHOOSE l \in down(n) : TRUE).left]
      /\ right' = [n \in Nodes |-> IF down(n) = {} THEN NULL ELSE (CHOOSE l \in down(n) : TRUE).right]
  BY DEF LinkTree
<1>2. ASSUME NEW l \in Links
      PROVE  \E k, j : /\ Inner(h, k, j) /\ LinkIs(l, k, j)
                       /\ l.parent = Node(k + 1, j) /\ l.left = Node(k, 2 * j)
                       /\ l.right = Node(k, 2 * j + 1)
                       /\ l.parent \in Nodes /\ l.left \in Nodes /\ l.right \in Nodes
  <2>1. PICK k, j : Inner(h, k, j) /\ LinkIs(l, k, j)  BY LinksAre
  <2>2. /\ l.parent = Node(k + 1, j) /\ l.left = Node(k, 2 * j) /\ l.right = Node(k, 2 * j + 1)
    BY <2>1 DEF LinkIs
  <2>. QED  BY <2>1, <2>2, InnerIs
<1>3. ASSUME NEW n \in Nodes, up(n) # {}
      PROVE  (CHOOSE l \in up(n) : TRUE) \in up(n)
  BY <1>3
<1>4. ASSUME NEW n \in Nodes, down(n) # {}
      PROVE  (CHOOSE l \in down(n) : TRUE) \in down(n)
  BY <1>4
<1>5. ASSUME NEW n \in Nodes
      PROVE  /\ up(n) # {} => \E l \in up(n) : parent'[n] = l.parent
             /\ down(n) # {} => \E l \in down(n) : left'[n] = l.left /\ right'[n] = l.right
             /\ up(n) = {} => parent'[n] = NULL
             /\ down(n) = {} => left'[n] = NULL /\ right'[n] = NULL
  <2>. HIDE DEF up, down
  <2>. QED  BY <1>1, <1>3, <1>4
<1>6. /\ parent' \in [Nodes -> Nodes \cup {NULL}] /\ left' \in [Nodes -> Nodes \cup {NULL}]
      /\ right' \in [Nodes -> Nodes \cup {NULL}]
  <2>1. \A n \in Nodes : /\ parent'[n] \in Nodes \cup {NULL} /\ left'[n] \in Nodes \cup {NULL}
                         /\ right'[n] \in Nodes \cup {NULL}
    <3>. TAKE n \in Nodes
    <3>1. \A l \in up(n) \cup down(n) : l \in Links  OBVIOUS
    <3>. HIDE DEF up, down
    <3>. QED  BY <1>2, <1>5, <3>1
  <2>2. /\ parent' = [n \in Nodes |-> parent'[n]] /\ left' = [n \in Nodes |-> left'[n]]
        /\ right' = [n \in Nodes |-> right'[n]]
    <3>. HIDE DEF up, down
    <3>. QED  BY <1>1
  <2>. QED  BY <2>1, <2>2
<1>7. parent'[root] = NULL
  <2>1. h \in Nat /\ Start(h) \in Nat /\ root = Start(h)  BY LevelIs DEF Height
  <2>2. root \in Nodes  BY <2>1 DEF Nodes
  <2>3. ASSUME NEW l \in up(root) PROVE FALSE
    <3>1. PICK k, j : Inner(h, k, j) /\ l.left = Node(k, 2 * j) /\ l.right = Node(k, 2 * j + 1)
      BY <1>2
    <3>2. Place(h, k, 2 * j) /\ Place(h, k, 2 * j + 1) /\ k < h
      <4>1. k \in 0 .. h - 1  BY <3>1, InnerIs
      <4>. QED  BY <2>1, <3>1, <4>1, InnerIs
    <3>3. Node(k, 2 * j) < root /\ Node(k, 2 * j + 1) < root  BY <3>2, NodeIn
    <3>4. root = Node(k, 2 * j) \/ root = Node(k, 2 * j + 1)  BY <3>1
    <3>. QED  BY <2>1, <3>3, <3>4
  <2>. QED  BY <1>5, <2>2, <2>3
<1>8. ASSUME NEW k, NEW j, Inner(h, k, j)
      PROVE  /\ left'[Node(k + 1, j)] = Node(k, 2 * j) /\ parent'[Node(k, 2 * j)] = Node(k + 1, j)
             /\ right'[Node(k + 1, j)] = Node(k, 2 * j + 1)
             /\ parent'[Node(k, 2 * j + 1)] = Node(k + 1, j)
  <2>1. /\ k \in Nat /\ j \in Nat /\ Place(h, k + 1, j) /\ Place(h, k, 2 * j)
        /\ Place(h, k, 2 * j + 1) /\ Node(k, 2 * j) \in Nodes /\ Node(k, 2 * j + 1) \in Nodes
        /\ Node(k + 1, j) \in Nodes
    BY <1>8, InnerIs
  <2>2. PICK l \in Links : /\ l.parent = Node(k + 1, j) /\ l.left = Node(k, 2 * j)
                           /\ l.right = Node(k, 2 * j + 1)
    BY <1>8, LinksAre DEF LinkIs
  <2>3. ASSUME NEW m \in down(Node(k + 1, j))
        PROVE  m.left = Node(k, 2 * j) /\ m.right = Node(k, 2 * j + 1)
    <3>1. PICK i, e : /\ Inner(h, i, e) /\ m.parent = Node(i + 1, e)
                      /\ m.left = Node(i, 2 * e) /\ m.right = Node(i, 2 * e + 1)
      BY <1>2
    <3>2. i \in Nat /\ e \in Nat /\ Place(h, i + 1, e)  BY <3>1, InnerIs
    <3>3. i + 1 = k + 1 /\ e = j  BY <2>1, <3>1, <3>2, NodeUnique
    <3>4. i = k  BY <2>1, <3>2, <3>3
    <3>. QED  BY <3>1, <3>3, <3>4
  <2>4. ASSUME NEW n \in {Node(k, 2 * j), Node(k, 2 * j + 1)}, NEW m \in up(n)
        PROVE  m.parent = Node(k + 1, j)
    <3>1. PICK i, e : /\ Inner(h, i, e) /\ m.parent = Node(i + 1, e)
                      /\ m.left = Node(i, 2 * e) /\ m.right = Node(i, 2 * e + 1)
      BY <1>2
    <3>2. i \in Nat /\ e \in Nat /\ Place(h, i, 2 * e) /\ Place(h, i, 2 * e + 1)  BY <3>1, InnerIs
    <3>3. n = Node(i, 2 * e) \/ n = Node(i, 2 * e + 1)  BY <3>1
    <3>4. /\ i = k
          /\ 2 * e = 2 * j \/ 2 * e = 2 * j + 1 \/ 2 * e + 1 = 2 * j \/ 2 * e + 1 = 2 * j + 1
      <4>1. CASE n = Node(i, 2 * e) /\ n = Node(k, 2 * j)
        BY <2>1, <3>2, <4>1, NodeUnique
      <4>2. CASE n = Node(i, 2 * e) /\ n = Node(k, 2 * j + 1)
        BY <2>1, <3>2, <4>2, NodeUnique
      <4>3. CASE n = Node(i, 2 * e + 1) /\ n = Node(k, 2 * j)
        BY <2>1, <3>2, <4>3, NodeUnique
      <4>4. CASE n = Node(i, 2 * e + 1) /\ n = Node(k, 2 * j + 1)
        BY <2>1, <3>2, <4>4, NodeUnique
      <4>. QED  BY <3>3, <4>1, <4>2, <4>3, <4>4
    <3>5. e = j  BY <2>1, <3>2, <3>4, PairsApart
    <3>. QED  BY <3>1, <3>4, <3>5
  <2>5. l \in down(Node(k + 1, j)) /\ l \in up(Node(k, 2 * j)) /\ l \in up(Node(k, 2 * j + 1))
    BY <2>2
  <2>. HIDE DEF up, down
  <2>. QED  BY <1>5, <2>1, <2>3, <2>4, <2>5
<1>9. ASSUME NEW k, NEW j, Place(h, k, j), \A i : k = i + 1 => ~Inner(h, i, j)
      PROVE  left'[Node(k, j)] = NULL
  <2>1. ASSUME NEW m \in down(Node(k, j)) PROVE FALSE
    <3>1. PICK i, e : Inner(h, i, e) /\ m.parent = Node(i + 1, e)  BY <1>2
    <3>2. Place(h, i + 1, e)  BY <3>1, InnerIs
    <3>3. i + 1 = k /\ e = j  BY <1>9, <3>1, <3>2, NodeUnique
    <3>. QED  BY <1>9, <3>1, <3>3
  <2>2. Node(k, j) \in Nodes  BY <1>9, NodeIn
  <2>3. down(Node(k, j)) = {}  BY <2>1
  <2>. HIDE DEF up, down
  <2>. QED  BY <1>5, <2>2, <2>3
<1>. QED  BY <1>6, <1>7, <1>8, <1>9 DEF Linked

(* The shape depends on the number of files only *)
LEMMA ShapeStays ==
    ASSUME ngrams' = ngrams
    PROVE  /\ num' = num /\ Files' = Files /\ level' = level /\ root' = root /\ Nodes' = Nodes
           /\ \A k : Cnt(k)' = Cnt(k) /\ Start(k)' = Start(k)
<1>1. Files' = Files  BY DEF Files
<1>2. num' = num  BY <1>1 DEF num
<1>3. level' = level  BY <1>2 DEF level
<1>4. root' = root /\ Nodes' = Nodes  BY <1>2 DEF root, Nodes
<1>5. \A k : Cnt(k)' = Cnt(k) /\ Start(k)' = Start(k)  BY <1>3 DEF Cnt, Start
<1>. QED  BY <1>1, <1>2, <1>3, <1>4, <1>5

(* the tree, once it is linked *)
Tree(h) ==
    /\ num \in Nat \ {0, 1} /\ Files = 0 .. num - 1
    /\ Height(h) /\ Linked(h, parent, left, right)

-----------------------------------------------------------------------------
(* The ancestors of a leaf *)

(* the ancestors of a leaf are nodes, the last one the root *)
LEMMA AncestorIs ==
    ASSUME NEW h, Tree(h), NEW f \in Files
    PROVE  /\ \A k \in 0 .. h : Off[k][f] \in Nat /\ Off[k][f] < Cnt(k)
           /\ Off[h][f] = 0
           /\ \A k \in 0 .. h - 1 : Inner(h, k, Off[k + 1][f]) /\ Place(h, k + 1, Off[k + 1][f])
<1>1. /\ num \in Nat \ {0, 1} /\ f \in Nat /\ f < num /\ h \in Nat /\ Cnt(h) = 1 /\ Height(h)
  BY DEF Tree, Height
<1>2. /\ \A g \in Nat : Off[0][g] = g
      /\ \A k, g \in Nat : Off[k][g] \in Nat /\ Off[k + 1][g] = Off[k][g] \div 2
  BY OffIs DEF Halves
<1>. DEFINE T == {k \in Nat : Off[k][f] < Cnt(k)}
<1>3. 0 \in T
  <2>1. Cnt(0) = num  BY <1>1, LevelIs
  <2>. QED  BY <1>1, <1>2, <2>1
<1>4. ASSUME NEW k \in Nat, k \in T PROVE k + 1 \in T
  <2>1. PICK o \in Nat : o = Off[k][f]  BY <1>1, <1>2
  <2>2. Off[k + 1][f] = o \div 2  BY <1>1, <1>2, <2>1
  <2>3. PICK q \in Nat : q = o \div 2 /\ (o = 2 * q \/ o = 2 * q + 1)  BY HalfIs
  <2>4. PICK c \in Nat, e \in Nat : c = Cnt(k) /\ e = Cnt(k + 1) /\ (c = 2 * e \/ c = 2 * e - 1)
    <3>1. k + 1 \in Nat  OBVIOUS
    <3>. QED  BY <1>1, <3>1, LevelIs
  <2>5. o < c  BY <1>4, <2>1, <2>4
  <2>6. q < e  BY <2>3, <2>4, <2>5
  <2>. QED  BY <2>2, <2>3, <2>4, <2>6
<1>5. Nat \subseteq T
  <2>. HIDE DEF T
  <2>. QED  BY <1>3, <1>4, Induction
<1>6. \A k \in Nat : Off[k][f] \in Nat /\ Off[k][f] < Cnt(k)  BY <1>1, <1>2, <1>5
<1>7. Off[h][f] = 0
  <2>1. PICK o \in Nat : o = Off[h][f]  BY <1>1, <1>6
  <2>2. o < 1  BY <1>1, <1>6, <2>1
  <2>. QED  BY <2>1, <2>2
<1>8. ASSUME NEW k \in 0 .. h - 1
      PROVE  Inner(h, k, Off[k + 1][f]) /\ Place(h, k + 1, Off[k + 1][f])
  <2>1. k + 1 \in Nat  BY <1>1
  <2>2. PICK o \in Nat, c \in Nat : o = Off[k + 1][f] /\ c = Cnt(k + 1) /\ o < c
    BY <1>1, <1>6, <2>1, LevelIs
  <2>3. o \in 0 .. c - 1  BY <2>2
  <2>4. Inner(h, k, Off[k + 1][f])  BY <2>2, <2>3 DEF Inner
  <2>. QED  BY <1>1, <2>4, InnerIs
<1>. QED  BY <1>1, <1>6, <1>7, <1>8

(* An ancestor of a leaf is the parent of the ancestor below *)
LEMMA ParentOfAncestor ==
    ASSUME NEW h, Tree(h), NEW f \in Files, NEW k \in 0 .. h - 1
    PROVE  /\ Node(k, Off[k][f]) \in Nodes /\ Node(k + 1, Off[k + 1][f]) \in Nodes
           /\ parent[Node(k, Off[k][f])] = Node(k + 1, Off[k + 1][f])
<1>1. num \in Nat \ {0, 1} /\ Height(h) /\ h \in Nat /\ k \in Nat /\ k \in 0 .. h /\ f \in Nat
  BY DEF Tree, Height
<1>2. PICK o \in Nat : o = Off[k][f]  BY <1>1, AncestorIs
<1>3. PICK q \in Nat : q = o \div 2 /\ (o = 2 * q \/ o = 2 * q + 1)  BY HalfIs
<1>4. Off[k + 1][f] = q  BY <1>1, <1>2, <1>3, OffIs DEF Halves
<1>5. Inner(h, k, q)  BY <1>4, AncestorIs
<1>6. parent[Node(k, 2 * q)] = Node(k + 1, q) /\ parent[Node(k, 2 * q + 1)] = Node(k + 1, q)
  BY <1>5 DEF Tree, Linked
<1>7. Node(k, 2 * q) \in Nodes /\ Node(k, 2 * q + 1) \in Nodes /\ Node(k + 1, q) \in Nodes
  BY <1>1, <1>5, InnerIs
<1>. QED  BY <1>2, <1>3, <1>4, <1>6, <1>7

(* Going up comes nearer to the root *)
LEMMA ParentIsHigher ==
    ASSUME NEW h, Tree(h), NEW n \in Nodes, parent[n] # NULL
    PROVE  parent[n] \in Nodes /\ n < parent[n]
<1>1. num \in Nat \ {0, 1} /\ Height(h) /\ h \in Nat /\ parent[root] = NULL /\ root = Start(h)
  BY DEF Tree, Height, Linked
<1>2. PICK k, j : Place(h, k, j) /\ n = Node(k, j)  BY <1>1, NodeOnto
<1>3. k \in 0 .. h /\ j \in Nat /\ j < 2 * Cnt(k + 1) /\ (k = h => j = 0)  BY <1>2 DEF Place
<1>4. k # h
  <2>1. Start(h) \in Nat  BY <1>1, LevelIs
  <2>2. ASSUME k = h PROVE n = root
    <3>1. n = Start(h) + 0  BY <1>2, <1>3, <2>2 DEF Node
    <3>. QED  BY <1>1, <2>1, <3>1
  <2>. QED  BY <1>1, <2>2
<1>5. k \in 0 .. h - 1 /\ k \in Nat /\ k + 1 \in Nat /\ k < k + 1  BY <1>1, <1>3, <1>4
<1>6. PICK s \in Nat, c \in Nat, t \in Nat : s = Start(k) /\ c = Cnt(k + 1) /\ t = Start(k + 1)
  BY <1>1, <1>5, LevelIs
<1>7. PICK q \in Nat : q = j \div 2 /\ (j = 2 * q \/ j = 2 * q + 1)  BY <1>3, HalfIs
<1>8. q < c  BY <1>3, <1>6, <1>7
<1>9. Inner(h, k, q)
  <2>1. q \in 0 .. c - 1  BY <1>8
  <2>. QED  BY <1>5, <1>6, <2>1 DEF Inner
<1>10. parent[n] = Node(k + 1, q)
  <2>1. parent[Node(k, 2 * q)] = Node(k + 1, q) /\ parent[Node(k, 2 * q + 1)] = Node(k + 1, q)
    BY <1>9 DEF Tree, Linked
  <2>. QED  BY <1>2, <1>7, <2>1
<1>11. s + 2 * c <= t  BY <1>1, <1>5, <1>6, LevelsApart
<1>12. s + j < t + q  BY <1>3, <1>6, <1>11
<1>. QED  BY <1>1, <1>2, <1>6, <1>9, <1>10, <1>12, InnerIs DEF Node

(* the recursion of Ancestors has a solution *)
LEMMA AncestorsUnfold ==
    ASSUME NEW h, Tree(h), NULL \notin Nat
    PROVE  \A n \in Nodes : Ancestors[n] = IF parent[n] = NULL THEN {}
                                            ELSE {parent[n]} \cup Ancestors[parent[n]]
<1>0. root \in Nat /\ Nodes \in SUBSET Nat
  <2>1. h \in Nat /\ root = Start(h)  BY DEF Tree, Height
  <2>2. root \in Nat  BY <2>1, LevelIs DEF Tree
  <2>. QED  BY <2>2 DEF Nodes
<1>. DEFINE D == Nodes
            B == {n \in Nodes : parent[n] = NULL}
            S == SUBSET Nodes
            base == [n \in D |-> {}]
            d == [n \in D |-> parent[n]]
            mu == [n \in D |-> root - n]
            F == [n \in D |-> [t \in S |-> ({parent[n]} \cup t) \cap Nodes]]
            Body(f) == [n \in Nodes |-> IF parent[n] = NULL THEN {} ELSE {parent[n]} \cup f[parent[n]]]
            fn == CHOOSE f : f = Body(f)
<1>1. Ancestors = fn  BY DEF Ancestors
<1>2. Falls(d, mu, D, B)
  <2>1. ASSUME NEW n \in D \ B PROVE d[n] \in D /\ mu[d[n]] < mu[n]
    <3>1. n \in Nodes /\ parent[n] # NULL  OBVIOUS
    <3>2. parent[n] \in Nodes /\ n < parent[n]  BY <3>1, ParentIsHigher
    <3>3. d[n] = parent[n] /\ mu[parent[n]] = root - parent[n] /\ mu[n] = root - n  BY <3>2
    <3>4. parent[n] \in Nat /\ n \in Nat  BY <1>0, <3>2
    <3>. HIDE DEF d, mu
    <3>. QED  BY <1>0, <3>2, <3>3, <3>4
  <2>2. mu \in [D -> Nat]
    <3>1. \A n \in Nodes : root - n \in Nat  BY <1>0 DEF Nodes
    <3>. QED  BY <3>1
  <2>. HIDE DEF d, mu, B, D
  <2>. QED  BY <2>1, <2>2 DEF Falls
<1>3. BuildsOn(base, F, D, S)
  <2>1. ASSUME NEW n \in D, NEW t \in S PROVE ({parent[n]} \cup t) \cap Nodes \in S  OBVIOUS
  <2>2. base \in [D -> S]  OBVIOUS
  <2>. HIDE DEF D, S, base
  <2>. QED  BY <2>1, <2>2 DEF BuildsOn
<1>4. PICK f : Unfolds(f, D, S, B, base, F, d)
  <2>. HIDE DEF D, S, B, base, F, d, mu
  <2>. QED  BY <1>2, <1>3, FallingRecursion
<1>5. f \in [D -> S] /\ \A n \in D : f[n] = IF n \in B THEN base[n] ELSE F[n][f[d[n]]]
  <2>. HIDE DEF D, S, B, base, F, d
  <2>. QED  BY <1>4 DEF Unfolds
<1>6. f = Body(f)
  <2>1. ASSUME NEW n \in Nodes
        PROVE  f[n] = IF parent[n] = NULL THEN {} ELSE {parent[n]} \cup f[parent[n]]
    <3>1. CASE n \in B
      <4>1. f[n] = base[n]
        <5>. HIDE DEF B, base, F, d
        <5>. QED  BY <1>5, <3>1
      <4>. QED  BY <3>1, <4>1
    <3>2. CASE n \notin B
      <4>1. parent[n] # NULL /\ parent[n] \in Nodes  BY <3>2, ParentIsHigher
      <4>2. f[n] = F[n][f[d[n]]]
        <5>. HIDE DEF B, base, F, d
        <5>. QED  BY <1>5, <3>2
      <4>3. d[n] = parent[n]  OBVIOUS
      <4>4. PICK t \in S : t = f[parent[n]]  BY <1>5, <4>1
      <4>5. F[n][t] = {parent[n]} \cup t  BY <4>1
      <4>. HIDE DEF F, d
      <4>. QED  BY <4>1, <4>2, <4>3, <4>4, <4>5
    <3>. QED  BY <3>1, <3>2
  <2>2. f = [n \in Nodes |-> f[n]]  BY <1>5
  <2>. QED  BY <2>1, <2>2
<1>7. fn = Body(fn)  BY <1>6
<1>. HIDE DEF fn
<1>8. \A n \in Nodes : fn[n] = IF parent[n] = NULL THEN {} ELSE {parent[n]} \cup fn[parent[n]]
  BY <1>7
<1>. QED  BY <1>1, <1>8

(* one node of each level above the leaves *)
LEMMA AncestorsAre ==
    ASSUME NEW h, Tree(h), NULL \notin Nat, NEW f \in Files
    PROVE  \A n : n \in Ancestors[f] <=> \E k \in 1 .. h : n = Node(k, Off[k][f])
<1>1. num \in Nat \ {0, 1} /\ Height(h) /\ h \in Nat \ {0} /\ f \in Nat /\ root = Start(h)
      /\ parent[root] = NULL
  BY DEF Tree, Height, Linked
<1>. DEFINE At(k) == Node(k, Off[k][f])
            T == {i \in Nat : i <= h => \A n : n \in Ancestors[At(h - i)]
                                              <=> \E k \in h - i + 1 .. h : n = At(k)}
<1>2. 0 \in T
  <2>1. At(h) = root
    <3>1. Start(h) \in Nat /\ Off[h][f] = 0  BY <1>1, LevelIs, AncestorIs
    <3>. QED  BY <1>1, <3>1 DEF Node
  <2>2. root \in Nodes
    <3>1. Start(h) \in Nat  BY <1>1, LevelIs
    <3>. QED  BY <1>1, <3>1 DEF Nodes
  <2>3. Ancestors[root] = {}  BY <1>1, <2>2, AncestorsUnfold
  <2>4. h - 0 = h /\ ~(\E k \in h - 0 + 1 .. h : TRUE)  BY <1>1
  <2>. HIDE DEF At
  <2>. QED  BY <2>1, <2>3, <2>4
<1>3. ASSUME NEW i \in Nat, i \in T PROVE i + 1 \in T
  <2>1. SUFFICES ASSUME i + 1 <= h, NEW n
                 PROVE  n \in Ancestors[At(h - (i + 1))] <=> \E k \in h - (i + 1) + 1 .. h : n = At(k)
    OBVIOUS
  <2>2. PICK k \in Nat : k = h - (i + 1) /\ h - i = k + 1 /\ k \in 0 .. h - 1 /\ i <= h
    <3>1. h - (i + 1) \in Nat /\ h - i = h - (i + 1) + 1 /\ h - (i + 1) \in 0 .. h - 1 /\ i <= h
      BY <1>1, <2>1
    <3>. QED  BY <3>1
  <2>3. At(k) \in Nodes /\ At(k + 1) \in Nodes /\ parent[At(k)] = At(k + 1)
    BY <2>2, ParentOfAncestor
  <2>4. At(k + 1) # NULL
    <3>1. root \in Nat
      <4>1. Start(h) \in Nat  BY <1>1, LevelIs
      <4>. QED  BY <1>1, <4>1
    <3>. QED  BY <2>3, <3>1 DEF Nodes
  <2>. HIDE DEF At
  <2>5. Ancestors[At(k)] = {At(k + 1)} \cup Ancestors[At(k + 1)]  BY <2>3, <2>4, AncestorsUnfold
  <2>6. n \in Ancestors[At(k + 1)] <=> \E m \in k + 1 + 1 .. h : n = At(m)  BY <1>3, <2>2
  <2>7. ASSUME NEW m \in k + 1 .. h PROVE m = k + 1 \/ m \in k + 1 + 1 .. h  BY <1>1, <2>2
  <2>8. k + 1 \in k + 1 .. h /\ \A m \in k + 1 + 1 .. h : m \in k + 1 .. h  BY <1>1, <2>2
  <2>. QED  BY <2>2, <2>5, <2>6, <2>7, <2>8
<1>4. h \in T
  <2>1. Nat \subseteq T
    <3>. HIDE DEF T
    <3>. QED  BY <1>2, <1>3, Induction
  <2>. HIDE DEF T
  <2>. QED  BY <1>1, <2>1
<1>5. At(0) = f
  <2>1. Start(0) = 0 /\ Off[0][f] = f  BY <1>1, LevelIs, OffIs DEF Halves
  <2>. QED  BY <1>1, <2>1 DEF Node
<1>6. h - h = 0 /\ 0 + 1 = 1 /\ h <= h  BY <1>1
<1>. HIDE DEF At
<1>7. \A n : n \in Ancestors[At(0)] <=> \E k \in 0 + 1 .. h : n = At(k)  BY <1>4, <1>6
<1>. QED  BY <1>5, <1>6, <1>7 DEF At

-----------------------------------------------------------------------------
(* The files below a node *)

Under(k, j) == {f \in Files : Off[k][f] = j}

(* a node has below it what its children have, the left one the first of it *)
LEMMA UnderIs ==
    ASSUME NEW h, Tree(h), NEW k, NEW j, Inner(h, k, j)
    PROVE  /\ Under(k + 1, j) = Under(k, 2 * j) \cup Under(k, 2 * j + 1)
           /\ \A f \in Under(k, 2 * j), g \in Under(k, 2 * j + 1) : f < g
<1>1. num \in Nat \ {0, 1} /\ Height(h) /\ Files \subseteq Nat  BY DEF Tree
<1>2. k \in Nat /\ j \in Nat  BY <1>1, InnerIs
<1>3. ASSUME NEW f \in Files
      PROVE  Off[k + 1][f] = j <=> Off[k][f] = 2 * j \/ Off[k][f] = 2 * j + 1
  <2>1. f \in Nat  BY <1>1
  <2>2. PICK o \in Nat : o = Off[k][f]  BY <1>2, <2>1, OffIs DEF Halves
  <2>3. Off[k + 1][f] = o \div 2  BY <1>2, <2>1, <2>2, OffIs DEF Halves
  <2>4. PICK q \in Nat : q = o \div 2 /\ (o = 2 * q \/ o = 2 * q + 1)  BY HalfIs
  <2>5. q = j <=> o = 2 * j \/ o = 2 * j + 1  BY <1>2, <2>4
  <2>. QED  BY <2>2, <2>3, <2>4, <2>5
<1>4. ASSUME NEW f \in Files, NEW g \in Files, Off[k][f] = 2 * j, Off[k][g] = 2 * j + 1
      PROVE  f < g
  <2>1. f \in Nat /\ g \in Nat  BY <1>1
  <2>2. ~(g <= f)
    <3>1. SUFFICES ASSUME g <= f PROVE FALSE  OBVIOUS
    <3>2. Off[k][g] <= Off[k][f]  BY <1>2, <2>1, <3>1, OffMonotone
    <3>. QED  BY <1>2, <1>4, <3>2
  <2>. QED  BY <2>1, <2>2
<1>. QED  BY <1>3, <1>4 DEF Under

(* The node holds the files that have it for an ancestor *)
LEMMA BelowIsUnder ==
    ASSUME NEW h, Tree(h), NULL \notin Nat, NEW k, NEW j, k \in 1 .. h, Place(h, k, j)
    PROVE  LeavesBelow(Node(k, j)) = Under(k, j)
<1>1. num \in Nat \ {0, 1} /\ Height(h) /\ h \in Nat /\ Files = 0 .. num - 1 /\ j \in Nat
  BY DEF Tree, Height, Place
<1>2. ASSUME NEW f \in Files PROVE f # Node(k, j)
  <2>1. f = Node(0, f)
    <3>1. Start(0) = 0  BY <1>1, LevelIs
    <3>. QED  BY <1>1, <3>1 DEF Node
  <2>2. Place(h, 0, f)
    <3>1. Inner(h, 0, Off[0 + 1][f])
      <4>1. 0 \in 0 .. h - 1  BY <1>1
      <4>. QED  BY <4>1, AncestorIs
    <3>2. PICK o \in Nat : o = Off[0 + 1][f] /\ Place(h, 0, 2 * o) /\ Place(h, 0, 2 * o + 1)
      BY <1>1, <3>1, InnerIs
    <3>3. f = 2 * o \/ f = 2 * o + 1
      <4>1. f \in Nat  BY <1>1
      <4>2. Off[0][f] = f /\ Off[0 + 1][f] = Off[0][f] \div 2  BY <4>1, OffIs DEF Halves
      <4>. QED  BY <3>2, <4>1, <4>2, HalfIs
    <3>. QED  BY <3>2, <3>3
  <2>3. k # 0  OBVIOUS
  <2>. QED  BY <1>1, <2>1, <2>2, <2>3, NodeUnique
<1>3. ASSUME NEW f \in Files PROVE Node(k, j) \in Ancestors[f] <=> Off[k][f] = j
  <2>1. ASSUME NEW i \in 1 .. h, Node(k, j) = Node(i, Off[i][f]) PROVE Off[k][f] = j
    <3>1. i - 1 \in 0 .. h - 1 /\ i = (i - 1) + 1  BY <1>1
    <3>2. Place(h, i, Off[i][f])  BY <3>1, AncestorIs
    <3>3. k = i /\ j = Off[i][f]  BY <1>1, <2>1, <3>2, NodeUnique
    <3>. QED  BY <3>3
  <2>. QED  BY <2>1, AncestorsAre
<1>. QED  BY <1>2, <1>3 DEF LeavesBelow, Under

(* The path of a leaf, level by level *)
At(k, f) == Node(k, Off[k][f])

(* the nodes of the path are in the tree *)
LEMMA PathIs ==
    ASSUME NEW h, Tree(h), NULL \notin Nat, NEW f \in Files
    PROVE  /\ At(0, f) = f /\ f \in Nodes /\ f \notin Ancestors[f]
           /\ \A k \in 0 .. h : At(k, f) \in Nodes /\ Place(h, k, Off[k][f])
           /\ \A k \in 1 .. h : At(k, f) \in Ancestors[f]
           /\ \A i, k \in 0 .. h : At(i, f) = At(k, f) => i = k
<1>1. num \in Nat \ {0, 1} /\ Height(h) /\ h \in Nat \ {0} /\ f \in Nat
  BY DEF Tree, Height
<1>2. At(0, f) = f
  <2>1. Start(0) = 0 /\ Off[0][f] = f  BY <1>1, LevelIs, OffIs DEF Halves
  <2>. QED  BY <1>1, <2>1 DEF At, Node
<1>3. ASSUME NEW k \in 0 .. h PROVE Place(h, k, Off[k][f])
  <2>1. CASE k = 0
    <3>1. Inner(h, 0, Off[0 + 1][f])
      <4>1. 0 \in 0 .. h - 1  BY <1>1
      <4>. QED  BY <4>1, AncestorIs
    <3>2. PICK o \in Nat : o = Off[0 + 1][f] /\ Place(h, 0, 2 * o) /\ Place(h, 0, 2 * o + 1)
      BY <1>1, <3>1, InnerIs
    <3>3. Off[0][f] = 2 * o \/ Off[0][f] = 2 * o + 1
      <4>1. Off[0][f] = f /\ Off[0 + 1][f] = Off[0][f] \div 2  BY <1>1, OffIs DEF Halves
      <4>. QED  BY <1>1, <3>2, <4>1, HalfIs
    <3>. QED  BY <2>1, <3>2, <3>3
  <2>2. CASE k # 0
    <3>1. k - 1 \in 0 .. h - 1 /\ k = (k - 1) + 1  BY <1>1, <2>2
    <3>. QED  BY <3>1, AncestorIs
  <2>. QED  BY <2>1, <2>2
<1>4. \A k \in 0 .. h : At(k, f) \in Nodes  BY <1>1, <1>3, NodeIn DEF At
<1>5. \A k \in 1 .. h : At(k, f) \in Ancestors[f]  BY AncestorsAre DEF At
<1>6. ASSUME NEW i \in 0 .. h, NEW k \in 0 .. h, At(i, f) = At(k, f) PROVE i = k
  BY <1>1, <1>3, <1>6, NodeUnique DEF At
<1>7. 0 \in 0 .. h  BY <1>1
<1>8. ASSUME f \in Ancestors[f] PROVE FALSE
  <2>1. PICK k \in 1 .. h : f = At(k, f)  BY <1>8, AncestorsAre DEF At
  <2>2. k \in 0 .. h /\ k # 0  BY <1>1
  <2>. QED  BY <1>2, <1>6, <1>7, <2>1, <2>2
<1>. QED  BY <1>2, <1>3, <1>4, <1>5, <1>6, <1>7, <1>8

(* Of the children of a node on the path one is on it, too, and the other is not *)
LEMMA PathStep ==
    ASSUME NEW h, Tree(h), NULL \notin Nat, NEW f \in Files, NEW k \in 0 .. h - 1
    PROVE  \E s \in Nodes \ Ancestors[f] :
              \/ left[At(k + 1, f)] = At(k, f) /\ right[At(k + 1, f)] = s
              \/ left[At(k + 1, f)] = s /\ right[At(k + 1, f)] = At(k, f)
<1>1. num \in Nat \ {0, 1} /\ Height(h) /\ h \in Nat \ {0} /\ f \in Nat /\ k \in Nat /\ k \in 0 .. h
  BY DEF Tree, Height
<1>2. PICK q \in Nat : q = Off[k + 1][f] /\ Inner(h, k, q)
  <2>1. Inner(h, k, Off[k + 1][f])  BY AncestorIs
  <2>. QED  BY <1>1, <2>1, InnerIs
<1>3. PICK o \in Nat : o = Off[k][f] /\ (o = 2 * q \/ o = 2 * q + 1)
  <2>1. PICK g \in Nat : g = Off[k][f]  BY <1>1, OffIs DEF Halves
  <2>2. q = g \div 2  BY <1>1, <1>2, <2>1, OffIs DEF Halves
  <2>3. g = 2 * q \/ g = 2 * q + 1  BY <2>2, HalfIs
  <2>. QED  BY <2>1, <2>3
<1>4. /\ left[At(k + 1, f)] = Node(k, 2 * q) /\ right[At(k + 1, f)] = Node(k, 2 * q + 1)
      /\ Node(k, 2 * q) \in Nodes /\ Node(k, 2 * q + 1) \in Nodes
      /\ Place(h, k, 2 * q) /\ Place(h, k, 2 * q + 1)
  BY <1>1, <1>2, InnerIs DEF Tree, Linked, At
<1>5. ASSUME NEW j, Place(h, k, j), j # o PROVE Node(k, j) \notin Ancestors[f]
  <2>1. SUFFICES ASSUME NEW i \in 1 .. h, Node(k, j) = Node(i, Off[i][f]) PROVE FALSE
    BY AncestorsAre
  <2>2. i \in 0 .. h  BY <1>1
  <2>3. Place(h, i, Off[i][f])  BY <2>2, PathIs
  <2>4. k = i /\ j = Off[i][f]  BY <1>1, <1>5, <2>1, <2>3, NodeUnique
  <2>. QED  BY <1>3, <1>5, <2>4
<1>6. At(k, f) = Node(k, o)  BY <1>3 DEF At
<1>7. 2 * q # 2 * q + 1  OBVIOUS
<1>. QED  BY <1>3, <1>4, <1>5, <1>6, <1>7

-----------------------------------------------------------------------------
(* What update_tree makes of the nodes *)

(* what a node can hold *)
Held == Files \cup {NULL}

LEMMA WinnerIn ==
    ASSUME NEW off, NEW l \in Held, NEW r \in Held
    PROVE  Winner(off, l, r) \in Held
BY DEF Winner, Held

Updates(u, node, off, leaf) ==
    u = [n \in Nodes |-> IF n \in Ancestors[leaf] THEN Winner(off, u[left[n]], u[right[n]])
                         ELSE node[n]]

(* ... is well defined, the path being repaired from below *)
LEMMA UpdateExists ==
    ASSUME NEW h, Tree(h), NULL \notin Nat, NEW leaf \in Files, NEW off,
           NEW node \in [Nodes -> Held]
    PROVE  \E u : Updates(u, node, off, leaf)
<1>1. num \in Nat \ {0, 1} /\ h \in Nat \ {0}  BY DEF Tree, Height
<1>. DEFINE c == node[leaf]
            side(k, n, x) == IF n = At(k, leaf) THEN x ELSE node[n]
            F == [k \in Nat |-> [x \in Held |->
                    IF k \in 0 .. h - 1
                    THEN Winner(off, side(k, left[At(k + 1, leaf)], x), side(k, right[At(k + 1, leaf)], x))
                    ELSE NULL]]
<1>2. c \in Held  BY PathIs
<1>3. StepsIn(F, Held)
  <2>1. ASSUME NEW k \in 0 .. h - 1, NEW x \in Held
        PROVE  Winner(off, side(k, left[At(k + 1, leaf)], x), side(k, right[At(k + 1, leaf)], x)) \in Held
    <3>1. k \in 0 .. h  BY <1>1
    <3>2. left[At(k + 1, leaf)] \in Nodes /\ right[At(k + 1, leaf)] \in Nodes
      BY <3>1, PathStep, PathIs
    <3>3. \A n \in Nodes : side(k, n, x) \in Held  OBVIOUS
    <3>. HIDE DEF side
    <3>. QED  BY <3>2, <3>3, WinnerIn
  <2>2. NULL \in Held  BY DEF Held
  <2>. HIDE DEF side
  <2>. QED  BY <2>1, <2>2 DEF StepsIn
<1>4. PICK w : Recurses(w, Held, c, F)
  <2>. HIDE DEF F, c
  <2>. QED  BY <1>2, <1>3, Recursion
<1>5. w \in [Nat -> Held] /\ w[0] = c /\ \A k \in Nat : w[k + 1] = F[k][w[k]]
  <2>. HIDE DEF F, c
  <2>. QED  BY <1>4 DEF Recurses
<1>6. \A k \in 0 .. h - 1 :
         w[k + 1] = Winner(off, side(k, left[At(k + 1, leaf)], w[k]), side(k, right[At(k + 1, leaf)], w[k]))
  <2>1. TAKE k \in 0 .. h - 1
  <2>2. k \in Nat /\ w[k] \in Held  BY <1>1, <1>5
  <2>3. w[k + 1] = F[k][w[k]]
    <3>. HIDE DEF F
    <3>. QED  BY <1>5, <2>2
  <2>. HIDE DEF side
  <2>. QED  BY <2>2, <2>3
<1>. HIDE DEF F
<1>. DEFINE levs(n) == {k \in 1 .. h : n = At(k, leaf)}
            lev(n) == CHOOSE k \in levs(n) : TRUE
            u == [n \in Nodes |-> IF n \in Ancestors[leaf] THEN w[lev(n)] ELSE node[n]]
<1>7. \A k \in 1 .. h : lev(At(k, leaf)) = k
  <2>1. TAKE k \in 1 .. h
  <2>2. lev(At(k, leaf)) \in 1 .. h /\ At(k, leaf) = At(lev(At(k, leaf)), leaf)
    <3>1. k \in levs(At(k, leaf))  OBVIOUS
    <3>2. lev(At(k, leaf)) \in levs(At(k, leaf))
      <4>. HIDE DEF levs
      <4>. QED  BY <3>1
    <3>. HIDE DEF lev
    <3>. QED  BY <3>2
  <2>. HIDE DEF lev
  <2>3. k \in 0 .. h /\ lev(At(k, leaf)) \in 0 .. h  BY <1>1, <2>2
  <2>. QED  BY <2>2, <2>3, PathIs
<1>. HIDE DEF lev
<1>8. \A k \in 0 .. h : u[At(k, leaf)] = w[k]
  <2>1. TAKE k \in 0 .. h
  <2>2. CASE k = 0  BY <1>5, <2>2, PathIs
  <2>3. CASE k # 0
    <3>1. k \in 1 .. h  BY <2>3
    <3>2. At(k, leaf) \in Nodes /\ At(k, leaf) \in Ancestors[leaf]  BY <3>1, PathIs
    <3>. QED  BY <1>7, <3>1, <3>2
  <2>. QED  BY <2>2, <2>3
<1>9. \A n \in Nodes \ Ancestors[leaf] : u[n] = node[n]  OBVIOUS
<1>10. u = [n \in Nodes |-> u[n]]  OBVIOUS
<1>. HIDE DEF u
<1>11. ASSUME NEW n \in Ancestors[leaf] PROVE u[n] = Winner(off, u[left[n]], u[right[n]])
  <2>1. PICK i \in 1 .. h : n = At(i, leaf)  BY <1>11, AncestorsAre DEF At
  <2>2. PICK k \in 0 .. h - 1 : i = k + 1 /\ k \in 0 .. h /\ k + 1 \in 0 .. h
    <3>1. i - 1 \in 0 .. h - 1 /\ i = i - 1 + 1 /\ i - 1 \in 0 .. h /\ i - 1 + 1 \in 0 .. h  BY <1>1
    <3>. QED  BY <3>1
  <2>3. PICK s \in Nodes \ Ancestors[leaf] :
              \/ left[At(k + 1, leaf)] = At(k, leaf) /\ right[At(k + 1, leaf)] = s
              \/ left[At(k + 1, leaf)] = s /\ right[At(k + 1, leaf)] = At(k, leaf)
    BY PathStep
  <2>4. u[At(k, leaf)] = w[k] /\ u[s] = node[s] /\ u[n] = w[k + 1]
    BY <1>8, <1>9, <2>1, <2>2
  <2>5. side(k, At(k, leaf), w[k]) = w[k]  OBVIOUS
  <2>6. side(k, s, w[k]) = u[s]
    <3>1. CASE s = At(k, leaf)  BY <2>4, <3>1
    <3>2. CASE s # At(k, leaf)  BY <2>4, <3>2
    <3>. QED  BY <3>1, <3>2
  <2>. HIDE DEF side
  <2>7. w[k + 1] = Winner(off, side(k, left[At(k + 1, leaf)], w[k]), side(k, right[At(k + 1, leaf)], w[k]))
    BY <1>6
  <2>8. CASE left[At(k + 1, leaf)] = At(k, leaf) /\ right[At(k + 1, leaf)] = s
    BY <2>1, <2>2, <2>4, <2>5, <2>6, <2>7, <2>8
  <2>9. CASE left[At(k + 1, leaf)] = s /\ right[At(k + 1, leaf)] = At(k, leaf)
    BY <2>1, <2>2, <2>4, <2>5, <2>6, <2>7, <2>9
  <2>. QED  BY <2>3, <2>8, <2>9
<1>. QED  BY <1>9, <1>10, <1>11 DEF Updates

(* every node of the path holds the winner of its children *)
LEMMA UpdateIs ==
    ASSUME NEW h, Tree(h), NULL \notin Nat, NEW leaf \in Files, NEW off,
           NEW node \in [Nodes -> Held], NEW u, u = update_tree(node, off, leaf)
    PROVE  /\ u \in [Nodes -> Held]
           /\ \A n \in Nodes : u[n] = IF n \in Ancestors[leaf] THEN Winner(off, u[left[n]], u[right[n]])
                                      ELSE node[n]
<1>1. num \in Nat \ {0, 1} /\ h \in Nat \ {0}  BY DEF Tree, Height
<1>2. u = CHOOSE f : Updates(f, node, off, leaf)  BY DEF update_tree, Updates
<1>3. Updates(u, node, off, leaf)
  <2>1. \E f : Updates(f, node, off, leaf)  BY UpdateExists
  <2>. QED  BY <1>2, <2>1
<1>4. \A n \in Nodes : u[n] = IF n \in Ancestors[leaf] THEN Winner(off, u[left[n]], u[right[n]])
                              ELSE node[n]
  BY <1>3 DEF Updates
<1>5. DOMAIN u = Nodes /\ u = [n \in Nodes |-> u[n]]  BY <1>3 DEF Updates
<1>. DEFINE T == {k \in Nat : k <= h => u[At(k, leaf)] \in Held}
<1>6. 0 \in T  BY <1>4, PathIs
<1>7. ASSUME NEW k \in Nat, k \in T PROVE k + 1 \in T
  <2>1. SUFFICES ASSUME k + 1 <= h PROVE u[At(k + 1, leaf)] \in Held  OBVIOUS
  <2>2. k \in 0 .. h - 1 /\ k <= h /\ k + 1 \in 1 .. h /\ k + 1 \in 0 .. h  BY <1>1, <2>1
  <2>3. PICK s \in Nodes \ Ancestors[leaf] :
              \/ left[At(k + 1, leaf)] = At(k, leaf) /\ right[At(k + 1, leaf)] = s
              \/ left[At(k + 1, leaf)] = s /\ right[At(k + 1, leaf)] = At(k, leaf)
    BY <2>2, PathStep
  <2>4. u[s] \in Held /\ u[At(k, leaf)] \in Held  BY <1>4, <1>7, <2>2
  <2>5. u[At(k + 1, leaf)] = Winner(off, u[left[At(k + 1, leaf)]], u[right[At(k + 1, leaf)]])
    BY <1>4, <2>2, PathIs
  <2>. QED  BY <2>3, <2>4, <2>5, WinnerIn
<1>8. Nat \subseteq T
  <2>. HIDE DEF T
  <2>. QED  BY <1>6, <1>7, Induction
<1>9. ASSUME NEW n \in Nodes PROVE u[n] \in Held
  <2>1. CASE n \in Ancestors[leaf]
    <3>1. PICK k \in 1 .. h : n = At(k, leaf)  BY <2>1, AncestorsAre DEF At
    <3>2. k \in Nat /\ k <= h  BY <1>1
    <3>. QED  BY <1>8, <3>1, <3>2
  <2>2. CASE n \notin Ancestors[leaf]  BY <1>4, <2>2
  <2>. QED  BY <2>1, <2>2
<1>. QED  BY <1>4, <1>5, <1>9

(* x is the first of the files S that are not exhausted, and none if all are *)
First(off, S, x) ==
    LET alive == {f \in S : have_vals(off, f)}
    IN  IF alive = {} THEN x = NULL
        ELSE x \in alive /\ \A g \in alive : Before(off, x, g)

(* as much of that as a node's parent needs: an exhausted leaf keeps its file *)
Stands(off, S, x) ==
    /\ x \in S \cup {NULL}
    /\ \A g \in S : have_vals(off, g) => InPlay(off, x) /\ Before(off, x, g)

NgramsOK == ngrams \in [Files -> Seq(Nat)]

(* a file that is not exhausted has a next n-gram *)
LEMMA ValIs ==
    ASSUME NgramsOK, NEW off \in [Files -> Nat], NEW f \in Files, have_vals(off, f)
    PROVE  val(off, f) \in Nat
<1>1. PICK s \in Seq(Nat) : s = ngrams[f]  BY DEF NgramsOK
<1>2. PICK o \in Nat : o = off[f]  OBVIOUS
<1>3. o < Len(s)  BY <1>1, <1>2 DEF have_vals
<1>4. o + 1 \in 1 .. Len(s)  BY <1>3
<1>5. s[o + 1] \in Nat  BY <1>4
<1>. QED  BY <1>1, <1>2, <1>5 DEF val

(* what is first stands for its files in the play above *)
LEMMA FirstStands ==
    ASSUME NULL \notin Nat, Files \subseteq Nat, NEW off, NEW S \in SUBSET Files, NEW x, First(off, S, x)
    PROVE  Stands(off, S, x)
<1>. DEFINE alive == {f \in S : have_vals(off, f)}
<1>1. alive = {} => x = NULL  BY DEF First
<1>2. alive # {} => x \in alive /\ \A g \in alive : Before(off, x, g)  BY DEF First
<1>3. x \in alive => x \in S /\ InPlay(off, x)  BY DEF InPlay
<1>. QED  BY <1>1, <1>2, <1>3 DEF Stands

(* Of two subtrees with what stands for them, the left one with the smaller *)
(* file numbers, the winner is the first of both                            *)
LEMMA WinnerIsFirst ==
    ASSUME NULL \notin Nat, Files \subseteq Nat, NgramsOK, NEW off \in [Files -> Nat],
           NEW S \in SUBSET Files, NEW T \in SUBSET Files, \A a \in S, b \in T : a < b,
           NEW l, NEW r, Stands(off, S, l), Stands(off, T, r)
    PROVE  First(off, S \cup T, Winner(off, l, r))
<1>. DEFINE alive == {f \in S \cup T : have_vals(off, f)}
<1>1. /\ InPlay(off, l) => l \in S /\ l \in alive /\ l \in Nat /\ val(off, l) \in Nat
      /\ InPlay(off, r) => r \in T /\ r \in alive /\ r \in Nat /\ val(off, r) \in Nat
  BY ValIs DEF Stands, InPlay
<1>2. \A g \in alive : /\ g \in Nat /\ val(off, g) \in Nat
                       /\ g \in S => InPlay(off, l) /\ Before(off, l, g)
                       /\ g \in T => InPlay(off, r) /\ Before(off, r, g)
                       /\ g \in S \/ g \in T
  BY ValIs DEF Stands
<1>3. CASE LeftWins(off, l, r)
  <2>1. InPlay(off, l) /\ (InPlay(off, r) => val(off, l) <= val(off, r))  BY <1>3 DEF LeftWins
  <2>2. Winner(off, l, r) = l  BY <1>3 DEF Winner
  <2>3. ASSUME NEW g \in alive PROVE Before(off, l, g)
    <3>1. CASE g \in S  BY <1>2, <3>1
    <3>2. CASE g \in T
      <4>1. l < g  BY <1>1, <2>1, <3>2
      <4>2. InPlay(off, r) /\ Before(off, r, g)  BY <1>2, <3>2
      <4>3. PICK x \in Nat, y \in Nat, z \in Nat : x = val(off, l) /\ y = val(off, r) /\ z = val(off, g)
        BY <1>1, <1>2, <2>1, <4>2
      <4>4. x <= y /\ y <= z  BY <2>1, <4>2, <4>3 DEF Before
      <4>5. x < z \/ x = z  BY <4>4
      <4>. QED  BY <1>1, <1>2, <2>1, <4>1, <4>3, <4>5 DEF Before
    <3>. QED  BY <1>2, <3>1, <3>2
  <2>4. l \in alive  BY <1>1, <2>1
  <2>. QED  BY <2>2, <2>3, <2>4 DEF First
<1>4. CASE ~LeftWins(off, l, r) /\ InPlay(off, r)
  <2>1. Winner(off, l, r) = r  BY <1>4 DEF Winner
  <2>2. ASSUME NEW g \in alive PROVE Before(off, r, g)
    <3>1. CASE g \in T  BY <1>2, <3>1
    <3>2. CASE g \in S
      <4>1. InPlay(off, l) /\ Before(off, l, g)  BY <1>2, <3>2
      <4>2. PICK x \in Nat, y \in Nat, z \in Nat : x = val(off, l) /\ y = val(off, r) /\ z = val(off, g)
        BY <1>1, <1>2, <1>4, <4>1
      <4>3. ~(x <= y) /\ x <= z  BY <1>4, <4>1, <4>2 DEF Before, LeftWins
      <4>4. y < z  BY <4>3
      <4>. QED  BY <4>2, <4>4 DEF Before
    <3>. QED  BY <1>2, <3>1, <3>2
  <2>3. r \in alive  BY <1>1, <1>4
  <2>. QED  BY <2>1, <2>2, <2>3 DEF First
<1>5. CASE ~LeftWins(off, l, r) /\ ~InPlay(off, r)
  <2>1. Winner(off, l, r) = NULL  BY <1>5 DEF Winner
  <2>2. ~InPlay(off, l)  BY <1>5 DEF LeftWins
  <2>3. alive = {}
    <3>1. \A g \in alive : FALSE  BY <1>2, <1>5, <2>2
    <3>. HIDE DEF alive
    <3>. QED  BY <3>1
  <2>. QED  BY <2>1, <2>3 DEF First
<1>. QED  BY <1>3, <1>4, <1>5

-----------------------------------------------------------------------------
(* The kinds of places: a file's leaf, a phantom, an inner node *)

Phantom(h, k, j) == Place(h, k, j) /\ j >= Cnt(k)

(* there is no other *)
LEMMA PlaceKinds ==
    ASSUME NEW h, Tree(h), NEW k, NEW j, Place(h, k, j)
    PROVE  \/ k = 0 /\ j \in Files
           \/ Phantom(h, k, j)
           \/ \E i : k = i + 1 /\ Inner(h, i, j)
<1>1. num \in Nat \ {0, 1} /\ Height(h) /\ h \in Nat /\ Files = 0 .. num - 1 /\ j \in Nat
      /\ k \in 0 .. h /\ k \in Nat
  BY DEF Tree, Height, Place
<1>2. PICK c \in Nat : c = Cnt(k)  BY <1>1, LevelIs
<1>3. SUFFICES ASSUME j < c PROVE (k = 0 /\ j \in Files) \/ \E i : k = i + 1 /\ Inner(h, i, j)
  BY <1>1, <1>2 DEF Phantom
<1>4. CASE k = 0
  <2>1. c = num  BY <1>1, <1>2, <1>4, LevelIs
  <2>. QED  BY <1>1, <1>3, <1>4, <2>1
<1>5. CASE k # 0
  <2>1. PICK i \in 0 .. h - 1 : k = i + 1
    <3>1. k - 1 \in 0 .. h - 1 /\ k = k - 1 + 1  BY <1>1, <1>5
    <3>. QED  BY <3>1
  <2>2. j \in 0 .. c - 1  BY <1>1, <1>3
  <2>3. Inner(h, i, j)  BY <1>2, <2>1, <2>2 DEF Inner
  <2>. QED  BY <2>1, <2>3
<1>. QED  BY <1>4, <1>5

(* no file is below a phantom *)
LEMMA UnderPhantom ==
    ASSUME NEW h, Tree(h), NEW k, NEW j, Phantom(h, k, j)
    PROVE  Under(k, j) = {}
<1>1. num \in Nat \ {0, 1} /\ h \in Nat /\ k \in 0 .. h /\ k \in Nat /\ j \in Nat /\ j >= Cnt(k)
  BY DEF Tree, Height, Place, Phantom
<1>2. PICK c \in Nat : c = Cnt(k)  BY <1>1, LevelIs
<1>3. \A f \in Files : Off[k][f] \in Nat /\ Off[k][f] < c  BY <1>1, <1>2, AncestorIs
<1>. QED  BY <1>1, <1>2, <1>3 DEF Under

(* a leaf is its file's node *)
LEMMA UnderLeaf ==
    ASSUME NEW h, Tree(h), NEW f \in Files
    PROVE  Under(0, f) = {f} /\ Node(0, f) = f
<1>1. num \in Nat \ {0, 1} /\ Files \subseteq Nat  BY DEF Tree
<1>2. Start(0) = 0  BY <1>1, LevelIs
<1>3. \A g \in Files : Off[0][g] = g  BY <1>1, OffIs DEF Halves
<1>. QED  BY <1>1, <1>2, <1>3 DEF Under, Node

(* Leaves keep their files, phantoms have none *)
Leaves(h, node) ==
    /\ node \in [Nodes -> Held]
    /\ \A f \in Files : node[f] = f
    /\ \A k, j : Phantom(h, k, j) => node[Node(k, j)] = NULL

(* an exhausted leaf keeps its file, but stands for it none the less *)
LEMMA LeafStands ==
    ASSUME NEW h, Tree(h), NULL \notin Nat, NgramsOK, NEW off \in [Files -> Nat], NEW f \in Files
    PROVE  Stands(off, Under(0, f), f)
<1>1. f \in Nat /\ Files \subseteq Nat  BY DEF Tree
<1>2. Under(0, f) = {f}  BY UnderLeaf
<1>3. have_vals(off, f) => InPlay(off, f) /\ Before(off, f, f)
  <2>1. have_vals(off, f) => val(off, f) \in Nat  BY ValIs
  <2>. QED  BY <1>1, <2>1 DEF InPlay, Before
<1>. QED  BY <1>2, <1>3 DEF Stands

(* Every inner node above files below m only, which have all been played, *)
(* holds the first of them                                                *)
Played(k, j, m) == \A f \in Under(k, j) : f < m
Holds(h, off, node, m) ==
    \A k, j : Inner(h, k, j) /\ Played(k + 1, j, m)
                 => First(off, Under(k + 1, j), node[Node(k + 1, j)])

(* whatever the kind of the place, its node stands for the files below it *)
LEMMA HeldStands ==
    ASSUME NEW h, Tree(h), NULL \notin Nat, NgramsOK, NEW off \in [Files -> Nat],
           NEW node, Leaves(h, node), NEW k, NEW j, Place(h, k, j),
           \A i : k = i + 1 /\ Inner(h, i, j) => First(off, Under(k, j), node[Node(k, j)])
    PROVE  Stands(off, Under(k, j), node[Node(k, j)])
<1>1. CASE k = 0 /\ j \in Files  BY <1>1, LeafStands, UnderLeaf DEF Leaves
<1>2. CASE Phantom(h, k, j)
  <2>1. Under(k, j) = {} /\ node[Node(k, j)] = NULL  BY <1>2, UnderPhantom DEF Leaves
  <2>. QED  BY <2>1 DEF Stands
<1>3. ASSUME NEW i, k = i + 1, Inner(h, i, j) PROVE Stands(off, Under(k, j), node[Node(k, j)])
  <2>1. First(off, Under(k, j), node[Node(k, j)])  BY <1>3
  <2>2. Files \subseteq Nat  BY DEF Tree
  <2>3. Under(k, j) \in SUBSET Files  BY DEF Under
  <2>. QED  BY <2>1, <2>2, <2>3, FirstStands
<1>. QED  BY <1>1, <1>2, <1>3, PlaceKinds

(* If the nodes beside the path of a leaf hold the first of the files below them, *)
(* then so do all after update_tree                                               *)
LEMMA UpdateHolds ==
    ASSUME NEW h, Tree(h), NULL \notin Nat, NgramsOK, NEW off \in [Files -> Nat],
           NEW node, Leaves(h, node), NEW leaf \in Files, NEW m,
           \A k, j : Inner(h, k, j) /\ Played(k + 1, j, m) /\ Off[k + 1][leaf] # j
                        => First(off, Under(k + 1, j), node[Node(k + 1, j)]),
           NEW u, u = update_tree(node, off, leaf)
    PROVE  Leaves(h, u) /\ Holds(h, off, u, m)
<1>0. /\ num \in Nat \ {0, 1} /\ Height(h) /\ h \in Nat \ {0} /\ Files \subseteq Nat
      /\ node \in [Nodes -> Held]
  BY DEF Tree, Height, Leaves
<1>1. /\ u \in [Nodes -> Held]
      /\ \A n \in Nodes : u[n] = IF n \in Ancestors[leaf] THEN Winner(off, u[left[n]], u[right[n]])
                                 ELSE node[n]
  BY <1>0, UpdateIs
<1>2. ASSUME NEW k, NEW j, Place(h, k, j), Node(k, j) \in Ancestors[leaf]
      PROVE  k \in 1 .. h /\ Off[k][leaf] = j
  <2>1. PICK i \in 1 .. h : Node(k, j) = Node(i, Off[i][leaf])  BY <1>2, AncestorsAre
  <2>2. i \in 0 .. h  BY <1>0
  <2>3. Place(h, i, Off[i][leaf])  BY <2>2, PathIs
  <2>4. k = i /\ j = Off[i][leaf]  BY <1>0, <1>2, <2>1, <2>3, NodeUnique
  <2>. QED  BY <2>4
<1>3. Leaves(h, u)
  <2>1. ASSUME NEW f \in Files PROVE u[f] = f
    <3>1. Place(h, 0, f)
      <4>1. 0 \in 0 .. h  BY <1>0
      <4>2. Place(h, 0, Off[0][f])  BY <4>1, PathIs
      <4>. QED  BY <1>0, <4>2, OffIs DEF Halves
    <3>2. Node(0, f) = f /\ f \in Nodes  BY UnderLeaf, PathIs
    <3>3. 0 \notin 1 .. h  BY <1>0
    <3>4. f \notin Ancestors[leaf]  BY <1>2, <3>1, <3>2, <3>3
    <3>. QED  BY <1>1, <3>2, <3>4 DEF Leaves
  <2>2. ASSUME NEW k, NEW j, Phantom(h, k, j) PROVE u[Node(k, j)] = NULL
    <3>1. Place(h, k, j) /\ Node(k, j) \in Nodes  BY <1>0, <2>2, NodeIn DEF Phantom
    <3>2. Node(k, j) \notin Ancestors[leaf]
      <4>1. SUFFICES ASSUME Node(k, j) \in Ancestors[leaf] PROVE FALSE  OBVIOUS
      <4>2. leaf \in Under(k, j)  BY <1>2, <3>1, <4>1 DEF Under
      <4>. QED  BY <2>2, <4>2, UnderPhantom
    <3>. QED  BY <1>1, <2>2, <3>1, <3>2 DEF Leaves
  <2>. QED  BY <1>1, <2>1, <2>2 DEF Leaves
<1>. DEFINE T == {k \in Nat : \A j : Inner(h, k, j) /\ Played(k + 1, j, m)
                                => First(off, Under(k + 1, j), u[Node(k + 1, j)])}
<1>4. ASSUME NEW k \in Nat, \A i \in Nat : k = i + 1 => i \in T PROVE k \in T
  <2>1. SUFFICES ASSUME NEW j, Inner(h, k, j), Played(k + 1, j, m)
                 PROVE  First(off, Under(k + 1, j), u[Node(k + 1, j)])
    OBVIOUS
  <2>2. /\ Place(h, k + 1, j) /\ Place(h, k, 2 * j) /\ Place(h, k, 2 * j + 1)
        /\ Node(k + 1, j) \in Nodes
    BY <1>0, <2>1, InnerIs
  <2>3. CASE Off[k + 1][leaf] # j
    <3>1. Node(k + 1, j) \notin Ancestors[leaf]  BY <1>2, <2>2, <2>3
    <3>2. u[Node(k + 1, j)] = node[Node(k + 1, j)]  BY <1>1, <2>2, <3>1
    <3>. QED  BY <2>1, <2>3, <3>2
  <2>4. CASE Off[k + 1][leaf] = j
    <3>1. k + 1 \in 1 .. h  BY <1>0, <2>1, InnerIs
    <3>2. Node(k + 1, j) \in Ancestors[leaf]  BY <2>4, <3>1, PathIs DEF At
    <3>3. left[Node(k + 1, j)] = Node(k, 2 * j) /\ right[Node(k + 1, j)] = Node(k, 2 * j + 1)
      BY <2>1 DEF Tree, Linked
    <3>4. u[Node(k + 1, j)] = Winner(off, u[Node(k, 2 * j)], u[Node(k, 2 * j + 1)])
      BY <1>1, <2>2, <3>2, <3>3
    <3>5. /\ Under(k + 1, j) = Under(k, 2 * j) \cup Under(k, 2 * j + 1)
          /\ \A f \in Under(k, 2 * j), g \in Under(k, 2 * j + 1) : f < g
      BY <2>1, UnderIs
    <3>6. ASSUME NEW e \in {2 * j, 2 * j + 1} PROVE Stands(off, Under(k, e), u[Node(k, e)])
      <4>1. Place(h, k, e)  BY <2>2
      <4>2. Played(k, e, m)  BY <2>1, <3>5 DEF Played
      <4>3. ASSUME NEW i, k = i + 1, Inner(h, i, e) PROVE First(off, Under(k, e), u[Node(k, e)])
        <5>1. i \in Nat  BY <1>0, <4>3, InnerIs
        <5>2. i \in T  BY <1>4, <4>3, <5>1
        <5>. QED  BY <4>2, <4>3, <5>2
      <4>. HIDE DEF T
      <4>. QED  BY <1>3, <4>1, <4>3, HeldStands
    <3>7. Under(k, 2 * j) \in SUBSET Files /\ Under(k, 2 * j + 1) \in SUBSET Files  BY DEF Under
    <3>8. Stands(off, Under(k, 2 * j), u[Node(k, 2 * j)])
          /\ Stands(off, Under(k, 2 * j + 1), u[Node(k, 2 * j + 1)])
      BY <3>6
    <3>9. First(off, Under(k, 2 * j) \cup Under(k, 2 * j + 1),
                Winner(off, u[Node(k, 2 * j)], u[Node(k, 2 * j + 1)]))
      <4>. HIDE DEF T
      <4>. QED  BY <1>0, <3>5, <3>7, <3>8, WinnerIsFirst
    <3>. QED  BY <3>4, <3>5, <3>9
  <2>. QED  BY <2>3, <2>4
<1>5. Nat \subseteq T
  <2>. HIDE DEF T
  <2>1. 0 \in T
    <3>1. \A i \in Nat : 0 # i + 1  OBVIOUS
    <3>. QED  BY <1>4, <3>1
  <2>2. ASSUME NEW k \in Nat, k \in T PROVE k + 1 \in T
    <3>1. \A i \in Nat : k + 1 = i + 1 => i = k  OBVIOUS
    <3>2. k + 1 \in Nat  OBVIOUS
    <3>. QED  BY <1>4, <2>2, <3>1, <3>2
  <2>. QED  BY <2>1, <2>2, Induction
<1>6. ASSUME NEW k, NEW j, Inner(h, k, j) PROVE k \in T
  <2>1. k \in Nat  BY <1>0, <1>6, InnerIs
  <2>. HIDE DEF T
  <2>. QED  BY <1>5, <2>1
<1>7. Holds(h, off, u, m)  BY <1>6 DEF Holds
<1>. QED  BY <1>3, <1>7

(* build_tree leaves in each node the file of its leftmost leaf *)
LEMMA LeftmostIs ==
    ASSUME NEW h, num \in Nat \ {0, 1}, Files = 0 .. num - 1, Height(h), NULL \notin Nat, LinkTree,
           fd = [n \in Nodes |-> IF n \in Files THEN n ELSE NULL]
    PROVE  Leaves(h, fd')
<1>. DEFINE lo == left'
<1>0. h \in Nat \ {0} /\ root = Start(h) /\ root \in Nat
  <2>1. h \in Nat \ {0} /\ root = Start(h)  BY DEF Height
  <2>. QED  BY <2>1, LevelIs
<1>1. Linked(h, parent', lo, right')  BY TreeIsLinked
<1>. HIDE DEF lo
<1>2. ASSUME NEW n \in Nodes, lo[n] # NULL PROVE lo[n] \in Nodes /\ lo[n] < n
  <2>1. PICK k, j : Place(h, k, j) /\ n = Node(k, j)  BY NodeOnto
  <2>2. PICK i : k = i + 1 /\ Inner(h, i, j)  BY <1>1, <1>2, <2>1 DEF Linked
  <2>3. lo[n] = Node(i, 2 * j)  BY <1>1, <2>1, <2>2 DEF Linked
  <2>4. i \in Nat /\ i + 1 \in Nat /\ j \in Nat /\ j < Cnt(i + 1) /\ Node(i, 2 * j) \in Nodes
    BY <2>2, InnerIs
  <2>5. PICK s \in Nat, c \in Nat, t \in Nat : s = Start(i) /\ c = Cnt(i + 1) /\ t = Start(i + 1)
    BY <2>4, LevelIs
  <2>6. t = s + 2 * c  BY <2>4, <2>5, LevelIs
  <2>7. s + 2 * j < t + j  BY <2>4, <2>5, <2>6
  <2>. QED  BY <2>1, <2>2, <2>3, <2>4, <2>5, <2>7 DEF Node
<1>. DEFINE D == Nodes
            B == {n \in Nodes : lo[n] = NULL}
            S == Held
            base == [n \in D |-> fd[n]]
            d == [n \in D |-> lo[n]]
            mu == [n \in D |-> n]
            F == [n \in D |-> [t \in S |-> t]]
            Body(f) == [n \in Nodes |-> IF lo[n] = NULL THEN fd[n] ELSE f[lo[n]]]
            fn == CHOOSE f : f = Body(f)
<1>3. fd' = fn  BY DEF LinkTree, lo
<1>4. \A n \in Nodes : fd[n] \in Held  BY DEF Held
<1>5. Falls(d, mu, D, B)
  <2>1. ASSUME NEW n \in D \ B PROVE d[n] \in D /\ mu[d[n]] < mu[n]
    <3>1. n \in Nodes /\ lo[n] # NULL  OBVIOUS
    <3>2. lo[n] \in Nodes /\ lo[n] < n  BY <1>2, <3>1
    <3>. QED  BY <3>2
  <2>2. mu \in [D -> Nat]
    <3>1. \A n \in Nodes : n \in Nat  BY DEF Nodes
    <3>. QED  BY <3>1
  <2>. HIDE DEF d, mu, B, D
  <2>. QED  BY <2>1, <2>2 DEF Falls
<1>6. BuildsOn(base, F, D, S)
  <2>1. base \in [D -> S]  BY <1>4
  <2>. HIDE DEF D, S, base
  <2>. QED  BY <2>1 DEF BuildsOn
<1>7. PICK low : Unfolds(low, D, S, B, base, F, d)
  <2>. HIDE DEF D, S, B, base, F, d, mu
  <2>. QED  BY <1>5, <1>6, FallingRecursion
<1>8. low \in [D -> S] /\ \A n \in D : low[n] = IF n \in B THEN base[n] ELSE F[n][low[d[n]]]
  <2>. HIDE DEF D, S, B, base, F, d
  <2>. QED  BY <1>7 DEF Unfolds
<1>9. low = Body(low)
  <2>1. ASSUME NEW n \in Nodes PROVE low[n] = IF lo[n] = NULL THEN fd[n] ELSE low[lo[n]]
    <3>1. CASE n \in B
      <4>1. low[n] = base[n]
        <5>. HIDE DEF B, base, F, d
        <5>. QED  BY <1>8, <3>1
      <4>. QED  BY <3>1, <4>1
    <3>2. CASE n \notin B
      <4>1. lo[n] # NULL /\ lo[n] \in Nodes  BY <1>2, <3>2
      <4>2. low[n] = F[n][low[d[n]]]
        <5>. HIDE DEF B, base, F, d
        <5>. QED  BY <1>8, <3>2
      <4>3. d[n] = lo[n]  OBVIOUS
      <4>4. PICK t \in S : t = low[lo[n]]  BY <1>8, <4>1
      <4>5. F[n][t] = t  OBVIOUS
      <4>. HIDE DEF F, d
      <4>. QED  BY <4>1, <4>2, <4>3, <4>4, <4>5
    <3>. QED  BY <3>1, <3>2
  <2>2. low = [n \in Nodes |-> low[n]]  BY <1>8
  <2>. QED  BY <2>1, <2>2
<1>10. fn = Body(fn)  BY <1>9
<1>. HIDE DEF fn
<1>11. DOMAIN fn = Nodes /\ fn = [n \in Nodes |-> fn[n]]
       /\ \A n \in Nodes : fn[n] = IF lo[n] = NULL THEN fd[n] ELSE fn[lo[n]]
  BY <1>10
<1>. DEFINE T == {n \in Nodes : fn[n] \in Held}
<1>12. Nodes \subseteq T
  <2>1. ASSUME NEW n \in Nodes, \A i \in Nodes : mu[i] < mu[n] => i \in T PROVE n \in T
    <3>1. CASE lo[n] = NULL  BY <1>4, <1>11, <3>1
    <3>2. CASE lo[n] # NULL
      <4>1. lo[n] \in Nodes /\ lo[n] < n  BY <1>2, <3>2
      <4>2. mu[lo[n]] < mu[n]  BY <4>1
      <4>3. fn[lo[n]] \in Held  BY <2>1, <4>1, <4>2
      <4>. QED  BY <1>11, <3>2, <4>3
    <3>. QED  BY <3>1, <3>2
  <2>2. mu \in [Nodes -> Nat]
    <3>1. \A n \in Nodes : n \in Nat  BY DEF Nodes
    <3>. QED  BY <3>1
  <2>. HIDE DEF T, mu
  <2>. QED  BY <2>1, <2>2, MeasureInduction
<1>13. fn \in [Nodes -> Held]  BY <1>11, <1>12
<1>14. ASSUME NEW n \in Nodes, lo[n] = NULL PROVE fn[n] = fd[n]  BY <1>11, <1>14
<1>15. ASSUME NEW f \in Files PROVE fn[f] = f /\ Place(h, 0, f) /\ Node(0, f) = f
  <2>1. Node(0, f) = f
    <3>1. Start(0) = 0  BY LevelIs
    <3>. QED  BY <3>1 DEF Node
  <2>2. Place(h, 0, f)
    <3>1. PICK c \in Nat : c = Cnt(0 + 1) /\ (num = 2 * c \/ num = 2 * c - 1)
      <4>1. Cnt(0 + 1) \in Nat
        <5>1. 0 + 1 \in Nat  OBVIOUS
        <5>. QED  BY <5>1, LevelIs
      <4>. QED  BY <4>1, LevelIs
    <3>2. f \in Nat /\ f < 2 * c  BY <3>1
    <3>. QED  BY <1>0, <3>1, <3>2 DEF Place
  <2>3. \A i : 0 = i + 1 => ~Inner(h, i, f)
    <3>1. ASSUME NEW i, Inner(h, i, f), 0 = i + 1 PROVE FALSE
      <4>1. i \in Nat  BY <3>1, InnerIs
      <4>. QED  BY <3>1, <4>1
    <3>. QED  BY <3>1
  <2>4. lo[f] = NULL  BY <1>1, <2>1, <2>2, <2>3 DEF Linked
  <2>5. f \in Nodes  BY <2>1, <2>2, NodeIn
  <2>6. fd[f] = f  BY <2>5
  <2>. QED  BY <1>14, <2>1, <2>2, <2>4, <2>5, <2>6
<1>16. ASSUME NEW k, NEW j, Phantom(h, k, j) PROVE fn[Node(k, j)] = NULL
  <2>1. Place(h, k, j) /\ j >= Cnt(k) /\ j \in Nat /\ k \in 0 .. h  BY <1>16 DEF Phantom, Place
  <2>2. PICK c \in Nat : c = Cnt(k) /\ j >= c
    <3>1. k \in Nat  BY <2>1
    <3>. QED  BY <2>1, <3>1, LevelIs
  <2>3. \A i : k = i + 1 => ~Inner(h, i, j)
    <3>1. ASSUME NEW i, Inner(h, i, j), k = i + 1 PROVE FALSE
      <4>1. j < Cnt(k)  BY <3>1, InnerIs
      <4>. QED  BY <2>1, <2>2, <4>1
    <3>. QED  BY <3>1
  <2>4. lo[Node(k, j)] = NULL  BY <1>1, <2>1, <2>3 DEF Linked
  <2>5. Node(k, j) \in Nodes  BY <2>1, NodeIn
  <2>6. Node(k, j) \notin Files
    <3>1. SUFFICES ASSUME Node(k, j) \in Files PROVE FALSE  OBVIOUS
    <3>2. PICK f \in Files : Node(k, j) = f  BY <3>1
    <3>3. k = 0 /\ j = f  BY <1>15, <2>1, <3>2, NodeUnique
    <3>4. c = num  BY <2>2, <3>3, LevelIs
    <3>. QED  BY <2>2, <3>3, <3>4
  <2>7. fd[Node(k, j)] = NULL  BY <2>5, <2>6
  <2>. QED  BY <1>14, <2>4, <2>5, <2>7
<1>. QED  BY <1>3, <1>13, <1>15, <1>16 DEF Leaves

-----------------------------------------------------------------------------
(* What depends on the n-grams only *)

(* the places do not change *)
LEMMA SameShape ==
    ASSUME ngrams' = ngrams, NEW h
    PROVE  /\ Files' = Files /\ num' = num /\ Nodes' = Nodes /\ root' = root /\ Held' = Held
           /\ Height(h)' <=> Height(h)
           /\ \A k, j : /\ Node(k, j)' = Node(k, j) /\ Under(k, j)' = Under(k, j)
                        /\ Inner(h, k, j)' <=> Inner(h, k, j)
                        /\ Place(h, k, j)' <=> Place(h, k, j)
                        /\ Phantom(h, k, j)' <=> Phantom(h, k, j)
<1>1. /\ num' = num /\ Files' = Files /\ root' = root /\ Nodes' = Nodes
      /\ \A k : Cnt(k)' = Cnt(k) /\ Start(k)' = Start(k)
  BY ShapeStays
<1>2. Held' = Held  BY <1>1 DEF Held
<1>3. Height(h)' <=> Height(h)  BY <1>1 DEF Height
<1>4. ASSUME NEW k, NEW j PROVE Node(k, j)' = Node(k, j) /\ Under(k, j)' = Under(k, j)
  <2>1. Off' = Off  BY DEF Off, Halves
  <2>. QED  BY <1>1, <2>1 DEF Node, Under
<1>5. ASSUME NEW k, NEW j PROVE Inner(h, k, j)' <=> Inner(h, k, j)  BY <1>1 DEF Inner
<1>6. ASSUME NEW k, NEW j PROVE Place(h, k, j)' <=> Place(h, k, j)  BY <1>1 DEF Place
<1>7. ASSUME NEW k, NEW j PROVE Phantom(h, k, j)' <=> Phantom(h, k, j)  BY <1>1, <1>6 DEF Phantom
<1>. QED  BY <1>1, <1>2, <1>3, <1>4, <1>5, <1>6, <1>7

(* nor does what is right for a node, but by its cursors *)
LEMMA SameFirst ==
    ASSUME ngrams' = ngrams, NEW h
    PROVE  /\ Linked(h, parent, left, right)' <=> Linked(h, parent', left', right')
           /\ Leaves(h, fd)' <=> Leaves(h, fd')
           /\ \A m : Holds(h, cur_off, fd, m)' <=> Holds(h, cur_off', fd', m)
<1>1. Linked(h, parent, left, right)' <=> Linked(h, parent', left', right')
  BY SameShape DEF Linked
<1>2. Leaves(h, fd)' <=> Leaves(h, fd')  BY SameShape DEF Leaves
<1>3. ASSUME NEW m PROVE Holds(h, cur_off, fd, m)' <=> Holds(h, cur_off', fd', m)
  <2>1. ASSUME NEW k, NEW j PROVE Played(k, j, m)' <=> Played(k, j, m)  BY SameShape DEF Played
  <2>2. ASSUME NEW k, NEW j
        PROVE  First(cur_off, Under(k + 1, j), fd[Node(k + 1, j)])'
               <=> First(cur_off', Under(k + 1, j), fd'[Node(k + 1, j)])
    <3>1. Under(k + 1, j)' = Under(k + 1, j) /\ Node(k + 1, j)' = Node(k + 1, j)  BY SameShape
    <3>2. First(cur_off, Under(k + 1, j), fd[Node(k + 1, j)])'
               <=> First(cur_off', Under(k + 1, j)', fd'[Node(k + 1, j)'])
      BY DEF First, have_vals, Before, val
    <3>. QED  BY <3>1, <3>2
  <2>. QED  BY <2>1, <2>2, SameShape DEF Holds
<1>. QED  BY <1>1, <1>2, <1>3

(* there are files below every node with children *)
LEMMA UnderInner ==
    ASSUME NEW h, Tree(h), NEW k, NEW j, Inner(h, k, j)
    PROVE  Under(k + 1, j) # {}
<1>0. num \in Nat \ {0, 1} /\ Height(h) /\ h \in Nat /\ Files = 0 .. num - 1
  BY DEF Tree, Height
<1>. DEFINE T == {i \in Nat : \A e : Inner(h, i, e) => Under(i + 1, e) # {}}
<1>1. ASSUME NEW i \in Nat, \A l \in Nat : i = l + 1 => l \in T PROVE i \in T
  <2>1. SUFFICES ASSUME NEW e, Inner(h, i, e) PROVE Under(i + 1, e) # {}
    OBVIOUS
  <2>2. Under(i + 1, e) = Under(i, 2 * e) \cup Under(i, 2 * e + 1)  BY <2>1, UnderIs
  <2>3. e \in Nat /\ e < Cnt(i + 1) /\ Place(h, i, 2 * e)  BY <1>0, <2>1, InnerIs
  <2>4. PICK c \in Nat, m \in Nat : c = Cnt(i) /\ m = Cnt(i + 1) /\ (c = 2 * m \/ c = 2 * m - 1)
    <3>1. i + 1 \in Nat  OBVIOUS
    <3>. QED  BY <1>0, <3>1, LevelIs
  <2>5. 2 * e < c /\ 2 * e \in Nat  BY <2>3, <2>4
  <2>6. ~Phantom(h, i, 2 * e)  BY <2>4, <2>5 DEF Phantom
  <2>7. CASE i = 0 /\ 2 * e \in Files
    <3>1. 2 * e \in Under(i, 2 * e)  BY <2>7, UnderLeaf
    <3>. QED  BY <2>2, <3>1
  <2>8. ASSUME NEW l, i = l + 1, Inner(h, l, 2 * e) PROVE Under(i + 1, e) # {}
    <3>1. l \in Nat  BY <1>0, <2>8, InnerIs
    <3>2. l \in T  BY <1>1, <2>8, <3>1
    <3>3. Under(i, 2 * e) # {}  BY <2>8, <3>2
    <3>. QED  BY <2>2, <3>3
  <2>. HIDE DEF T
  <2>. QED  BY <2>3, <2>6, <2>7, <2>8, PlaceKinds
<1>2. Nat \subseteq T
  <2>. HIDE DEF T
  <2>1. 0 \in T
    <3>1. \A l \in Nat : 0 # l + 1  OBVIOUS
    <3>. QED  BY <1>1, <3>1
  <2>2. ASSUME NEW i \in Nat, i \in T PROVE i + 1 \in T
    <3>1. \A l \in Nat : i + 1 = l + 1 => l = i  OBVIOUS
    <3>2. i + 1 \in Nat  OBVIOUS
    <3>. QED  BY <1>1, <2>2, <3>1, <3>2
  <2>. QED  BY <2>1, <2>2, Induction
<1>3. k \in Nat  BY <1>0, InnerIs
<1>. QED  BY <1>2, <1>3

(* A leaf and its sibling have the same ancestors *)
LEMMA SiblingsMeet ==
    ASSUME NEW p \in Nat
    PROVE  \A k \in Nat : Off[k + 1][2 * p + 1] = Off[k + 1][2 * p]
<1>1. PICK a \in Nat, b \in Nat : a = 2 * p /\ b = 2 * p + 1  OBVIOUS
<1>. DEFINE T == {k \in Nat : Off[k + 1][b] = Off[k + 1][a]}
<1>2. 0 \in T
  <2>1. Off[0 + 1][a] = a \div 2 /\ Off[0 + 1][b] = b \div 2
    <3>1. Off[0][a] = a /\ Off[0][b] = b  BY OffIs DEF Halves
    <3>2. 0 \in Nat  OBVIOUS
    <3>3. Off[0 + 1][a] = Off[0][a] \div 2 /\ Off[0 + 1][b] = Off[0][b] \div 2
      BY <3>2, OffIs, Zenon DEF Halves
    <3>. QED  BY <3>1, <3>3
  <2>2. PICK x \in Nat : x = a \div 2 /\ (a = 2 * x \/ a = 2 * x + 1)  BY HalfIs
  <2>3. PICK y \in Nat : y = b \div 2 /\ (b = 2 * y \/ b = 2 * y + 1)  BY HalfIs
  <2>4. x = p /\ y = p  BY <1>1, <2>2, <2>3
  <2>. QED  BY <2>1, <2>2, <2>3, <2>4
<1>3. ASSUME NEW k \in Nat, k \in T PROVE k + 1 \in T
  <2>1. k + 1 \in Nat  OBVIOUS
  <2>. QED  BY <1>3, <2>1, OffIs DEF Halves
<1>4. Nat \subseteq T
  <2>. HIDE DEF T
  <2>. QED  BY <1>2, <1>3, Induction
<1>. QED  BY <1>1, <1>4

(* all files are below the root *)
LEMMA RootIs ==
    ASSUME NEW h, Tree(h)
    PROVE  \E k : /\ k \in Nat /\ k \in 0 .. h - 1 /\ h = k + 1 /\ Inner(h, k, 0) /\ root = Node(k + 1, 0)
                  /\ Under(k + 1, 0) = Files
                  /\ Place(h, k, 0) /\ Place(h, k, 1) /\ root \in Nodes
                  /\ left[root] = Node(k, 0) /\ right[root] = Node(k, 1)
                  /\ Node(k, 0) \in Nodes /\ Node(k, 1) \in Nodes
<1>1. num \in Nat \ {0, 1} /\ Height(h) /\ h \in Nat \ {0} /\ Cnt(h) = 1 /\ root = Start(h)
  BY DEF Tree, Height
<1>2. PICK k \in Nat : h = k + 1 /\ k \in 0 .. h - 1
  <2>1. h - 1 \in Nat /\ h = h - 1 + 1 /\ h - 1 \in 0 .. h - 1  BY <1>1
  <2>. QED  BY <2>1
<1>3. Inner(h, k, 0)
  <2>1. 0 \in 0 .. 1 - 1  OBVIOUS
  <2>. QED  BY <1>1, <1>2, <2>1 DEF Inner
<1>4. root = Node(k + 1, 0)
  <2>1. Start(h) \in Nat  BY <1>1, LevelIs
  <2>. QED  BY <1>1, <1>2, <2>1 DEF Node
<1>5. Under(k + 1, 0) = Files
  <2>1. \A f \in Files : Off[h][f] = 0  BY AncestorIs
  <2>. QED  BY <1>2, <2>1 DEF Under
<1>6. 2 * 0 = 0 /\ 2 * 0 + 1 = 1  OBVIOUS
<1>7. /\ Place(h, k, 0) /\ Place(h, k, 1) /\ root \in Nodes
      /\ Node(k, 0) \in Nodes /\ Node(k, 1) \in Nodes
  BY <1>1, <1>3, <1>4, <1>6, InnerIs
<1>8. left[root] = Node(k, 0) /\ right[root] = Node(k, 1)
  BY <1>3, <1>4, <1>6 DEF Tree, Linked
<1>. QED  BY <1>2, <1>3, <1>4, <1>5, <1>7, <1>8

(* cursors of other files do not matter *)
LEMMA FirstSame ==
    ASSUME NULL \notin Files, NEW S \in SUBSET Files, NEW off, NEW new,
           \A g \in S : off[g] = new[g], NEW x, First(off, S, x)
    PROVE  First(new, S, x)
<1>1. \A g \in S : (have_vals(off, g) <=> have_vals(new, g)) /\ val(off, g) = val(new, g)
  BY DEF have_vals, val
<1>2. {f \in S : have_vals(off, f)} = {f \in S : have_vals(new, f)}  BY <1>1
<1>3. \A f, g \in S : Before(off, f, g) <=> Before(new, f, g)  BY <1>1 DEF Before
<1>. QED  BY <1>2, <1>3 DEF First

-----------------------------------------------------------------------------
(* The invariant of the tree.  While leaves are played, the nodes above       *)
(* those that have been are right; once all have been, every one is.          *)

FilesOK == num \in Nat \ {0, 1} /\ Files = 0 .. num - 1 /\ NgramsOK /\ cur_off \in [Files -> Nat]

TreeInv(h) ==
    /\ FilesOK /\ Height(h)
    /\ pc \in {"link", "play", "merge", "done", "exit88"}
    /\ pc = "link" => /\ last_fid_popped = 0
                      /\ fd = [n \in Nodes |-> IF n \in Files THEN n ELSE NULL]
    /\ pc # "link" => Linked(h, parent, left, right) /\ Leaves(h, fd)
    /\ pc = "play" => \E p \in Nat : last_fid_popped = 2 * p /\ Holds(h, cur_off, fd, 2 * p)
    /\ pc \in {"merge", "done", "exit88"} => Holds(h, cur_off, fd, num)

(* so that it holds the first of all *)
LEMMA RootFirst ==
    ASSUME NEW h, Tree(h), FilesOK, NEW off, NEW node, Holds(h, off, node, num)
    PROVE  First(off, Files, node[root])
<1>1. PICK k : Inner(h, k, 0) /\ root = Node(k + 1, 0) /\ Under(k + 1, 0) = Files
  BY RootIs
<1>2. \A f \in Files : f < num  BY DEF FilesOK
<1>3. Played(k + 1, 0, num)  BY <1>1, <1>2 DEF Played
<1>. QED  BY <1>1, <1>3 DEF Holds

(* The root holds the first file, which has an n-gram as long as the loop goes on *)
LEMMA RootHolds ==
    ASSUME NEW h, TreeInv(h), NULL \notin Nat, pc = "merge"
    PROVE  /\ First(cur_off, Files, fd[root])
           /\ ~is_empty <=> fd[root] \in Files /\ have_vals(cur_off, fd[root])
<1>1. Tree(h) /\ FilesOK /\ Leaves(h, fd) /\ Holds(h, cur_off, fd, num) /\ Files \subseteq Nat
  BY DEF TreeInv, Tree, FilesOK
<1>2. PICK k : /\ k \in Nat /\ k \in 0 .. h - 1 /\ h = k + 1 /\ Inner(h, k, 0)
               /\ root = Node(k + 1, 0) /\ Under(k + 1, 0) = Files
               /\ Place(h, k, 0) /\ Place(h, k, 1)
               /\ left[root] = Node(k, 0) /\ right[root] = Node(k, 1)
               /\ Node(k, 0) \in Nodes /\ Node(k, 1) \in Nodes
  BY <1>1, RootIs
<1>3. \A f \in Files : f < num  BY <1>1 DEF FilesOK
<1>4. First(cur_off, Files, fd[root])  BY <1>1, RootFirst
<1>5. ASSUME NEW e \in {0, 1} PROVE Stands(cur_off, Under(k, e), fd[Node(k, e)])
  <2>1. Place(h, k, e)  BY <1>2
  <2>2. ASSUME NEW i, k = i + 1, Inner(h, i, e) PROVE First(cur_off, Under(k, e), fd[Node(k, e)])
    <3>1. Played(i + 1, e, num)  BY <1>3 DEF Played, Under
    <3>. QED  BY <1>1, <2>2, <3>1 DEF Holds
  <2>. QED  BY <1>1, <2>1, <2>2, HeldStands DEF FilesOK
<1>6. Files = Under(k, 0) \cup Under(k, 1)
  <2>1. 2 * 0 = 0 /\ 2 * 0 + 1 = 1  OBVIOUS
  <2>. QED  BY <1>1, <1>2, <2>1, UnderIs
<1>7. is_empty <=> ~InPlay(cur_off, fd[Node(k, 0)]) /\ ~InPlay(cur_off, fd[Node(k, 1)])
  BY <1>2 DEF is_empty
<1>8. is_empty <=> \A f \in Files : ~have_vals(cur_off, f)
  <2>1. ASSUME is_empty, NEW f \in Files PROVE ~have_vals(cur_off, f)
    BY <1>5, <1>6, <1>7, <2>1 DEF Stands
  <2>2. ASSUME ~is_empty PROVE \E f \in Files : have_vals(cur_off, f)
    <3>1. \A e \in {0, 1} : fd[Node(k, e)] \in Files \cup {NULL}  BY <1>1, <1>2 DEF Leaves, Held
    <3>. QED  BY <1>7, <2>2, <3>1 DEF InPlay
  <2>. QED  BY <2>1, <2>2
<1>9. fd[root] \in Files /\ have_vals(cur_off, fd[root]) <=> \E f \in Files : have_vals(cur_off, f)
  BY <1>4 DEF First
<1>. QED  BY <1>4, <1>8, <1>9

(* before the first play no node has to be right *)
LEMMA LinkTreeInv ==
    ASSUME NEW h, TreeInv(h), NULL \notin Nat, LinkTree
    PROVE  TreeInv(h)'
<1>1. /\ pc = "link" /\ pc' = "play" /\ ngrams' = ngrams /\ cur_off' = cur_off
      /\ last_fid_popped' = last_fid_popped
  BY DEF LinkTree
<1>2. num \in Nat \ {0, 1} /\ Files = 0 .. num - 1 /\ Height(h)  BY DEF TreeInv, FilesOK
<1>3. Linked(h, parent', left', right')  BY <1>2, TreeIsLinked
<1>4. Leaves(h, fd')
  <2>1. fd = [n \in Nodes |-> IF n \in Files THEN n ELSE NULL]  BY <1>1 DEF TreeInv
  <2>. QED  BY <1>2, <2>1, LeftmostIs
<1>5. FilesOK' /\ Height(h)'  BY <1>1, <1>2, SameShape DEF TreeInv, FilesOK, NgramsOK
<1>6. Linked(h, parent, left, right)' /\ Leaves(h, fd)'  BY <1>1, <1>3, <1>4, SameFirst
<1>7. Holds(h, cur_off, fd, 2 * 0)'
  <2>1. Tree(h)'  BY <1>5, <1>6 DEF Tree, FilesOK
  <2>2. ASSUME NEW k, NEW j PROVE ~(Inner(h, k, j)' /\ Played(k + 1, j, 2 * 0)')
    <3>1. SUFFICES ASSUME Inner(h, k, j)', Played(k + 1, j, 2 * 0)' PROVE FALSE  OBVIOUS
    <3>2. (Under(k + 1, j) # {})'
      <4>1. Tree(h)' /\ Inner(h, k, j)' => (Under(k + 1, j) # {})'  BY UnderInner, PTL
      <4>. QED  BY <2>1, <3>1, <4>1
    <3>3. PICK f \in Under(k + 1, j)' : f < 2 * 0  BY <3>1, <3>2 DEF Played
    <3>4. f \in Nat  BY <1>5, <3>3 DEF FilesOK, Under
    <3>. QED  BY <3>3, <3>4
  <2>. QED  BY <2>2 DEF Holds
<1>8. last_fid_popped' = 2 * 0  BY <1>1 DEF TreeInv
<1>9. \E p \in Nat : (last_fid_popped = 2 * p)' /\ Holds(h, cur_off, fd, 2 * p)'
  BY <1>7, <1>8
<1>. QED  BY <1>1, <1>5, <1>6, <1>9 DEF TreeInv

(* a leaf's play makes the nodes right whose last leaf is it or its sibling *)
LEMMA PlayLeafInv ==
    ASSUME NEW h, TreeInv(h), NULL \notin Nat, PlayLeaf
    PROVE  TreeInv(h)'
<1>1. /\ pc = "play" /\ pc' = "play" /\ ngrams' = ngrams /\ cur_off' = cur_off
      /\ parent' = parent /\ left' = left /\ right' = right /\ last_fid_popped < num
      /\ fd' = update_tree(fd, cur_off, last_fid_popped) /\ last_fid_popped' = last_fid_popped + 2
  BY DEF PlayLeaf, links
<1>2. FilesOK /\ Height(h) /\ Linked(h, parent, left, right) /\ Leaves(h, fd)
  BY <1>1 DEF TreeInv
<1>3. Tree(h)  BY <1>2 DEF Tree, FilesOK
<1>4. PICK p \in Nat : last_fid_popped = 2 * p /\ Holds(h, cur_off, fd, 2 * p)
  BY <1>1 DEF TreeInv
<1>5. PICK leaf \in Files, q \in Nat : leaf = 2 * p /\ q = p + 1 /\ 2 * q = 2 * p + 2
  <2>1. 2 * p \in Files  BY <1>1, <1>2, <1>4 DEF FilesOK
  <2>2. p + 1 \in Nat /\ 2 * (p + 1) = 2 * p + 2  OBVIOUS
  <2>. QED  BY <2>1, <2>2
<1>6. ASSUME NEW k, NEW j, Inner(h, k, j), Played(k + 1, j, 2 * q), Off[k + 1][leaf] # j
      PROVE  First(cur_off, Under(k + 1, j), fd[Node(k + 1, j)])
  <2>1. k \in Nat  BY <1>2, <1>6, InnerIs DEF FilesOK
  <2>2. ASSUME NEW f \in Under(k + 1, j) PROVE f < 2 * p
    <3>1. f \in Files /\ Off[k + 1][f] = j /\ f < 2 * q  BY <1>6 DEF Played, Under
    <3>2. f \in Nat  BY <1>2, <3>1 DEF FilesOK
    <3>3. f # 2 * p  BY <1>5, <1>6, <3>1
    <3>4. f # 2 * p + 1
      <4>1. Off[k + 1][2 * p + 1] = Off[k + 1][2 * p]  BY <2>1, SiblingsMeet
      <4>. QED  BY <1>5, <1>6, <3>1, <4>1
    <3>. QED  BY <1>5, <3>1, <3>2, <3>3, <3>4
  <2>3. Played(k + 1, j, 2 * p)  BY <2>2 DEF Played
  <2>. QED  BY <1>4, <1>6, <2>3 DEF Holds
<1>7. Leaves(h, fd') /\ Holds(h, cur_off, fd', 2 * q)
  <2>1. fd' = update_tree(fd, cur_off, leaf)  BY <1>1, <1>4, <1>5
  <2>. QED  BY <1>2, <1>3, <1>6, <2>1, UpdateHolds DEF FilesOK
<1>8. Leaves(h, fd)' /\ Holds(h, cur_off, fd, 2 * q)'
  <2>1. Leaves(h, fd)'  BY <1>1, <1>7, SameFirst
  <2>2. Holds(h, cur_off', fd', 2 * q)  BY <1>1, <1>7
  <2>3. Holds(h, cur_off, fd, 2 * q)'  BY <1>1, <2>2, SameFirst
  <2>. QED  BY <2>1, <2>3
<1>9. FilesOK' /\ Height(h)'  BY <1>1, <1>2, SameShape DEF FilesOK, NgramsOK
<1>10. Linked(h, parent, left, right)'  BY <1>1, <1>2, SameFirst
<1>11. last_fid_popped' = 2 * q  BY <1>1, <1>4, <1>5
<1>12. \E i \in Nat : (last_fid_popped = 2 * i)' /\ Holds(h, cur_off, fd, 2 * i)'
  BY <1>8, <1>11
<1>. QED  BY <1>1, <1>8, <1>9, <1>10, <1>12 DEF TreeInv

(* no leaf is left to be played *)
LEMMA HoldsAll ==
    ASSUME NEW h, FilesOK, NEW m \in Nat, m >= num, Holds(h, cur_off, fd, m)
    PROVE  Holds(h, cur_off, fd, num)
<1>1. \A k, j : Played(k, j, m)
  <2>1. \A f \in Files : f \in Nat /\ f < num /\ num \in Nat  BY DEF FilesOK
  <2>. QED  BY <2>1 DEF Played, Under
<1>. QED  BY <1>1 DEF Holds

(* the plays end when all nodes are right *)
LEMMA StartMergeInv ==
    ASSUME NEW h, TreeInv(h), NULL \notin Nat, StartMerge
    PROVE  TreeInv(h)'
<1>1. /\ pc = "play" /\ pc' = "merge" /\ ngrams' = ngrams /\ cur_off' = cur_off /\ fd' = fd
      /\ parent' = parent /\ left' = left /\ right' = right /\ last_fid_popped >= num
  BY DEF StartMerge, links
<1>2. FilesOK /\ Height(h) /\ Linked(h, parent, left, right) /\ Leaves(h, fd)
  BY <1>1 DEF TreeInv
<1>3. PICK p \in Nat : last_fid_popped = 2 * p /\ Holds(h, cur_off, fd, 2 * p)
  BY <1>1 DEF TreeInv
<1>4. PICK m \in Nat : m = 2 * p  OBVIOUS
<1>5. Holds(h, cur_off, fd, num)  BY <1>1, <1>2, <1>3, <1>4, HoldsAll
<1>6. FilesOK' /\ Height(h)'  BY <1>1, <1>2, SameShape DEF FilesOK, NgramsOK
<1>7. Linked(h, parent, left, right)' /\ Leaves(h, fd)'  BY <1>1, <1>2, SameFirst
<1>8. Holds(h, cur_off, fd, num)'
  <2>1. PICK n : n = num  OBVIOUS
  <2>2. num' = n  BY <1>1, <2>1, SameShape
  <2>3. Holds(h, cur_off', fd', n)  BY <1>1, <1>5, <2>1
  <2>4. Holds(h, cur_off, fd, n)'  BY <1>1, <2>3, SameFirst
  <2>. QED  BY <2>2, <2>4 DEF Holds, Played
<1>. QED  BY <1>1, <1>6, <1>7, <1>8 DEF TreeInv

(* The file in the root is popped and its path is played again; elsewhere the *)
(* nodes do not have it below them.                                           *)
LEMMA MergeInv ==
    ASSUME NEW h, TreeInv(h), NULL \notin Nat, Merge
    PROVE  TreeInv(h)'
<1>1. /\ pc = "merge" /\ ~is_empty /\ ngrams' = ngrams
      /\ parent' = parent /\ left' = left /\ right' = right
  BY DEF Merge, links
<1>2. FilesOK /\ Height(h) /\ Linked(h, parent, left, right) /\ Leaves(h, fd)
      /\ Holds(h, cur_off, fd, num)
  BY <1>1 DEF TreeInv
<1>3. Tree(h) /\ Files \subseteq Nat  BY <1>2 DEF Tree, FilesOK
<1>4. PICK f \in Files : f = fd[root] /\ have_vals(cur_off, f)  BY <1>1, RootHolds
<1>5. PICK off \in [Files -> Nat] :
         off = [cur_off EXCEPT ![f] = @ + 1] /\ \A g \in Files : g # f => off[g] = cur_off[g]
  <2>1. cur_off \in [Files -> Nat] /\ cur_off[f] + 1 \in Nat  BY <1>2 DEF FilesOK
  <2>. QED  BY <2>1
<1>6. cur_off' = off /\ fd' = update_tree(fd, off, f)  BY <1>1, <1>4, <1>5 DEF Merge
<1>7. pc' \in {"merge", "exit88"}  BY <1>1, <1>4 DEF Merge, Collect
<1>8. ASSUME NEW k, NEW j, Inner(h, k, j), Played(k + 1, j, num), Off[k + 1][f] # j
      PROVE  First(off, Under(k + 1, j), fd[Node(k + 1, j)])
  <2>1. First(cur_off, Under(k + 1, j), fd[Node(k + 1, j)])  BY <1>2, <1>8 DEF Holds
  <2>2. \A g \in Under(k + 1, j) : cur_off[g] = off[g]  BY <1>5, <1>8 DEF Under
  <2>3. NULL \notin Files /\ Under(k + 1, j) \in SUBSET Files  BY <1>3 DEF Under
  <2>. QED  BY <2>1, <2>2, <2>3, FirstSame
<1>9. PICK n : n = num  OBVIOUS
<1>10. Leaves(h, fd') /\ Holds(h, off, fd', n)
  BY <1>2, <1>3, <1>6, <1>8, <1>9, UpdateHolds DEF FilesOK
<1>11. FilesOK' /\ Height(h)'
  <2>1. cur_off' \in [Files -> Nat]  BY <1>6
  <2>. QED  BY <1>1, <1>2, <2>1, SameShape DEF FilesOK, NgramsOK
<1>12. Linked(h, parent, left, right)' /\ Leaves(h, fd)'  BY <1>1, <1>2, <1>10, SameFirst
<1>13. Holds(h, cur_off, fd, num)'
  <2>1. num' = n  BY <1>1, <1>9, SameShape
  <2>2. Holds(h, cur_off', fd', n)  BY <1>6, <1>10
  <2>3. Holds(h, cur_off, fd, n)'  BY <1>1, <2>2, SameFirst
  <2>. QED  BY <2>1, <2>3 DEF Holds, Played
<1>. QED  BY <1>7, <1>11, <1>12, <1>13 DEF TreeInv

(* steps that leave the tree alone *)
LEMMA UnchangedInv ==
    ASSUME NEW h, TreeInv(h), pc' = pc \/ (pc = "merge" /\ pc' = "done"),
           UNCHANGED <<ngrams, cur_off, links, fd, last_fid_popped>>
    PROVE  TreeInv(h)'
<1>1. /\ ngrams' = ngrams /\ cur_off' = cur_off /\ fd' = fd /\ last_fid_popped' = last_fid_popped
      /\ parent' = parent /\ left' = left /\ right' = right
  BY DEF links
<1>2. FilesOK' /\ Height(h)'  BY <1>1, SameShape DEF TreeInv, FilesOK, NgramsOK
<1>3. pc # "link" => Linked(h, parent, left, right)' /\ Leaves(h, fd)'
  BY <1>1, SameFirst DEF TreeInv
<1>4. ASSUME NEW m, Holds(h, cur_off, fd, m) PROVE Holds(h, cur_off, fd, m)'
  <2>1. Holds(h, cur_off', fd', m)  BY <1>1, <1>4
  <2>. QED  BY <1>1, <2>1, SameFirst
<1>5. Holds(h, cur_off, fd, num) => Holds(h, cur_off, fd, num)'
  <2>1. PICK n : n = num  OBVIOUS
  <2>2. num' = n  BY <1>1, <2>1, SameShape
  <2>. QED  BY <1>4, <2>1, <2>2 DEF Holds, Played
<1>6. pc = "link" => (fd = [n \in Nodes |-> IF n \in Files THEN n ELSE NULL])'
  BY <1>1, SameShape DEF TreeInv
<1>7. pc = "play" => \E p \in Nat : (last_fid_popped = 2 * p)' /\ Holds(h, cur_off, fd, 2 * p)'
  BY <1>1, <1>4 DEF TreeInv
<1>8. CASE pc' = pc
  BY <1>1, <1>2, <1>3, <1>5, <1>6, <1>7, <1>8 DEF TreeInv
<1>9. CASE pc = "merge" /\ pc' = "done"
  BY <1>1, <1>2, <1>3, <1>5, <1>9 DEF TreeInv
<1>. QED  BY <1>8, <1>9

(* the invariant is inductive *)
LEMMA NextTreeInv ==
    ASSUME NEW h, TreeInv(h), NULL \notin Nat, [Next]_vars
    PROVE  TreeInv(h)'
<1>1. ASSUME MergeDone PROVE TreeInv(h)'  BY <1>1, UnchangedInv DEF MergeDone
<1>2. ASSUME UNCHANGED vars PROVE TreeInv(h)'  BY <1>2, UnchangedInv DEF vars
<1>3. ASSUME Done PROVE TreeInv(h)'  BY <1>2, <1>3 DEF Done
<1>. QED  BY <1>1, <1>2, <1>3, LinkTreeInv, PlayLeafInv, StartMergeInv, MergeInv DEF Next

(* A file's n-grams are ascending, and there is one *)
Sorted(s) == s \in Seq(Grams) /\ s # <<>> /\ \A i, k \in 1 .. Len(s) : i < k => s[i] < s[k]

(* main gives the tree files with n-grams, each file sorted *)
LEMMA InitFiles ==
    Init => FilesOK /\ \A f \in Files : Sorted(ngrams[f])
<1>. SUFFICES ASSUME Init PROVE FilesOK /\ \A f \in Files : Sorted(ngrams[f])
  OBVIOUS
<1>1. PICK n \in FileCounts : ngrams \in [0 .. n - 1 -> {Ordered(g) : g \in (SUBSET Grams) \ {{}}}]
  BY DEF Init
<1>2. n \in Nat \ {0, 1}  BY FileCountsAssumption
<1>3. Files = 0 .. n - 1  BY <1>1 DEF Files
<1>4. num = n
  <2>1. Cardinality(0 .. n - 1) = n
    <3>1. 0 \in Int /\ n - 1 \in Int /\ ~(0 > n - 1) /\ (n - 1) - 0 + 1 = n  BY <1>2
    <3>. QED  BY <3>1, FS_Interval
  <2>. QED  BY <1>3, <2>1 DEF num
<1>5. ASSUME NEW f \in Files PROVE Sorted(ngrams[f])
  <2>1. PICK g \in (SUBSET Grams) \ {{}} : ngrams[f] = Ordered(g)  BY <1>1, <1>3
  <2>2. g \in SUBSET Nat /\ IsFiniteSet(g)  BY GramsAssumption, FS_Subset
  <2>3. Cardinality(g) \in Nat /\ Cardinality(g) # 0  BY <2>1, <2>2, FS_CardinalityType, FS_EmptySet
  <2>4. PICK c \in Nat \ {0} : c = Cardinality(g)  BY <2>3
  <2>5. PICK s : s = Ordered(g)  OBVIOUS
  <2>6. s \in [1 .. c -> g] /\ \A i, k \in 1 .. c : i < k => s[i] < s[k]
    BY <2>2, <2>4, <2>5, OrderedIs
  <2>7. s \in Seq(Grams) /\ Len(s) = c
    <3>1. s \in [1 .. c -> Grams]  BY <2>6
    <3>. QED  BY <3>1
  <2>. QED  BY <2>1, <2>4, <2>5, <2>6, <2>7 DEF Sorted
<1>6. NgramsOK
  <2>1. ngrams = [f \in Files |-> ngrams[f]]  BY <1>1, <1>3
  <2>2. ASSUME NEW f \in Files PROVE ngrams[f] \in Seq(Nat)
    <3>1. PICK s \in Seq(Grams) : s = ngrams[f]  BY <1>5 DEF Sorted
    <3>2. Grams \subseteq Nat /\ Len(s) \in Nat /\ s \in [1 .. Len(s) -> Grams]
      BY GramsAssumption
    <3>3. s \in [1 .. Len(s) -> Nat]  BY <3>2
    <3>4. s \in Seq(Nat)  BY <3>2, <3>3
    <3>. QED  BY <3>1, <3>4
  <2>. QED  BY <2>1, <2>2 DEF NgramsOK
<1>7. cur_off \in [Files -> Nat]  BY DEF Init
<1>. QED  BY <1>2, <1>3, <1>4, <1>5, <1>6, <1>7 DEF FilesOK

(* the invariant holds at first *)
LEMMA InitTreeInv == Init => \E h : TreeInv(h)
<1>. SUFFICES ASSUME Init PROVE \E h : TreeInv(h)
  OBVIOUS
<1>1. FilesOK  BY InitFiles
<1>2. PICK h : Height(h)  BY <1>1, HeightIs DEF FilesOK
<1>3. TreeInv(h)  BY <1>1, <1>2 DEF Init, TreeInv
<1>. QED  BY <1>3

(* The invariant says what the property says, level by level *)
LEMMA TreeInvIs ==
    ASSUME NEW h, TreeInv(h), NULL \notin Nat
    PROVE  EveryNodeHoldsItsFirst
<1>. SUFFICES ASSUME pc \in {"merge", "done"}, NEW n \in num .. root
              PROVE  LET alive == {f \in LeavesBelow(n) : have_vals(cur_off, f)}
                     IN  IF alive = {} THEN fd[n] = NULL
                         ELSE fd[n] \in alive /\ \A g \in alive : Before(cur_off, fd[n], g)
  BY DEF EveryNodeHoldsItsFirst
<1>1. /\ FilesOK /\ Tree(h) /\ Height(h) /\ Leaves(h, fd) /\ Holds(h, cur_off, fd, num)
      /\ num \in Nat \ {0, 1} /\ Files = 0 .. num - 1
  BY DEF TreeInv, Tree, FilesOK
<1>2. n \in Nodes /\ n \notin Files  BY <1>1 DEF Nodes
<1>3. PICK k, j : Place(h, k, j) /\ n = Node(k, j)  BY <1>1, <1>2, NodeOnto
<1>4. SUFFICES First(cur_off, LeavesBelow(n), fd[n])  BY DEF First
<1>5. ~(k = 0 /\ j \in Files)
  <2>1. SUFFICES ASSUME k = 0, j \in Files PROVE FALSE  OBVIOUS
  <2>2. Node(0, j) = j  BY <1>1, <2>1, UnderLeaf
  <2>. QED  BY <1>2, <1>3, <2>1, <2>2
<1>6. CASE Phantom(h, k, j)
  <2>1. fd[n] = NULL  BY <1>1, <1>3, <1>6 DEF Leaves
  <2>2. LeavesBelow(n) = {}
    <3>1. SUFFICES ASSUME NEW f \in Files, n \in Ancestors[f] PROVE FALSE
      BY <1>2 DEF LeavesBelow
    <3>2. PICK i \in 1 .. h : n = Node(i, Off[i][f])  BY <1>1, <3>1, AncestorsAre
    <3>3. i \in 0 .. h  BY <3>2
    <3>4. Place(h, i, Off[i][f])  BY <1>1, <3>3, PathIs
    <3>5. k = i /\ j = Off[i][f]  BY <1>1, <1>3, <3>2, <3>4, NodeUnique
    <3>6. f \in Under(k, j)  BY <3>5 DEF Under
    <3>. QED  BY <1>1, <1>6, <3>6, UnderPhantom
  <2>. QED  BY <2>1, <2>2 DEF First
<1>7. ASSUME NEW i, k = i + 1, Inner(h, i, j) PROVE First(cur_off, LeavesBelow(n), fd[n])
  <2>1. i \in 0 .. h - 1 /\ h \in Nat  BY <1>1, <1>7, InnerIs DEF Height
  <2>2. k \in 1 .. h  BY <1>7, <2>1
  <2>3. LeavesBelow(n) = Under(k, j)  BY <1>1, <1>3, <2>2, BelowIsUnder
  <2>4. Played(k, j, num)  BY <1>1 DEF Played, Under
  <2>. QED  BY <1>1, <1>3, <1>7, <2>3, <2>4 DEF Holds
<1>. QED  BY <1>1, <1>3, <1>5, <1>6, <1>7, PlaceKinds

(* Whatever has been popped, every inner node of the tree holds the first of *)
(* the unexhausted files below it, for any number of files and any n-grams.  *)
THEOREM NodesHoldTheirFirst == Spec => []EveryNodeHoldsItsFirst
<1>. DEFINE Inv == \E h : TreeInv(h)
<1>0. NULL \notin Nat  BY GramsAssumption
<1>1. Init => Inv  BY InitTreeInv
<1>2. Inv /\ [Next]_vars => Inv'
  <2>1. SUFFICES ASSUME NEW h, TreeInv(h), [Next]_vars PROVE TreeInv(h)'  OBVIOUS
  <2>. QED  BY <1>0, <2>1, NextTreeInv
<1>3. Inv => EveryNodeHoldsItsFirst  BY <1>0, TreeInvIs
<1>. QED  BY <1>1, <1>2, <1>3, PTL DEF Spec

-----------------------------------------------------------------------------
(* What the files contain *)

(* the n-grams of a file, all n-grams, and the files with an n-gram *)
SortedFiles == \A f \in Files : Sorted(ngrams[f])
All == UNION {GramsOf(f) : f \in Files}
With(g) == {f \in Files : g \in GramsOf(f)}

(* all of this is finite and not empty *)
LEMMA GramsAre ==
    ASSUME FilesOK, SortedFiles
    PROVE  /\ \A f \in Files : /\ Len(ngrams[f]) \in Nat \ {0}
                               /\ \A i \in 1 .. Len(ngrams[f]) :
                                     ngrams[f][i] \in Nat /\ ngrams[f][i] \in All /\ f \in With(ngrams[f][i])
                               /\ \A i, k \in 1 .. Len(ngrams[f]) :
                                     (i < k => ngrams[f][i] < ngrams[f][k])
           /\ \A g : \A f \in With(g) : f \in Files /\ \E i \in 1 .. Len(ngrams[f]) : g = ngrams[f][i]
           /\ \A g \in All : g \in Nat /\ With(g) # {}
           /\ All \in SUBSET Nat /\ IsFiniteSet(All)
<1>1. ASSUME NEW f \in Files
      PROVE  /\ Len(ngrams[f]) \in Nat \ {0} /\ DOMAIN ngrams[f] = 1 .. Len(ngrams[f])
             /\ \A i \in 1 .. Len(ngrams[f]) : ngrams[f][i] \in Grams /\ ngrams[f][i] \in Nat
             /\ \A i, k \in 1 .. Len(ngrams[f]) : (i < k => ngrams[f][i] < ngrams[f][k])
  <2>1. PICK s \in Seq(Grams) : s = ngrams[f] /\ s # <<>>  BY DEF SortedFiles, Sorted
  <2>2. Len(s) \in Nat \ {0} /\ DOMAIN s = 1 .. Len(s) /\ \A i \in 1 .. Len(s) : s[i] \in Grams
    BY <2>1
  <2>3. \A i, k \in 1 .. Len(s) : i < k => s[i] < s[k]  BY <2>1 DEF SortedFiles, Sorted
  <2>. QED  BY <2>1, <2>2, <2>3, GramsAssumption
<1>2. \A f \in Files : GramsOf(f) = {ngrams[f][i] : i \in 1 .. Len(ngrams[f])}
  BY <1>1 DEF GramsOf, ToSet
<1>3. All \subseteq Grams  BY <1>1, <1>2 DEF All
<1>4. IsFiniteSet(All) /\ All \in SUBSET Nat  BY <1>3, GramsAssumption, FS_Subset
<1>5. \A g \in All : g \in Nat /\ With(g) # {}  BY <1>4 DEF All, With
<1>6. \A f \in Files : \A i \in 1 .. Len(ngrams[f]) : ngrams[f][i] \in All /\ f \in With(ngrams[f][i])
  BY <1>2 DEF All, With
<1>7. \A g : \A f \in With(g) : f \in Files /\ \E i \in 1 .. Len(ngrams[f]) : g = ngrams[f][i]
  BY <1>2 DEF With
<1>. QED  BY <1>1, <1>4, <1>5, <1>6, <1>7

(* x is the i-th n-gram of g *)
Occurs(x, g, i) == g \in Files /\ i \in 1 .. Len(ngrams[g]) /\ x = ngrams[g][i]

(* every n-gram is one of a file *)
LEMMA OccursSomewhere ==
    ASSUME FilesOK, SortedFiles, NEW x \in All
    PROVE  \E g : \E i : Occurs(x, g, i)
<1>1. With(x) # {}  BY GramsAre
<1>2. PICK g \in Files : g \in With(x)  BY <1>1 DEF With
<1>3. PICK i \in 1 .. Len(ngrams[g]) : x = ngrams[g][i]  BY <1>2, GramsAre
<1>. QED  BY <1>2, <1>3 DEF Occurs

(* What has been popped: the n-grams before v, and v of the files F, the first *)
(* of those that have it                                                       *)
ItemPopped(F, off, v) ==
    /\ F \subseteq With(v)
    /\ \A a \in F, b \in With(v) \ F : a < b
    /\ \A f \in Files : \A i \in 1 .. Len(ngrams[f]) :
          i <= off[f] <=> (ngrams[f][i] < v \/ (ngrams[f][i] = v /\ f \in F))

(* f's next n-gram comes first *)
Leads(off, f) == have_vals(off, f) /\ \A g \in Files : have_vals(off, g) => Before(off, f, g)

(* An n-gram that has not been popped is not before the leader's *)
LEMMA LeaderIsFirst ==
    ASSUME FilesOK, SortedFiles, NEW off \in [Files -> Nat], NEW f \in Files, Leads(off, f),
           NEW g \in Files, NEW i \in 1 .. Len(ngrams[g]), ~(i <= off[g])
    PROVE  /\ val(off, f) \in Nat
           /\ val(off, f) < ngrams[g][i] \/ (val(off, f) = ngrams[g][i] /\ f <= g)
<1>1. PICK l \in Nat : l = Len(ngrams[g])  BY GramsAre
<1>2. PICK o \in Nat : o = off[g]  OBVIOUS
<1>3. o + 1 \in 1 .. l /\ o < l /\ (o + 1 = i \/ o + 1 < i)  BY <1>1, <1>2
<1>4. PICK n \in 1 .. l : n = o + 1  BY <1>3
<1>5. have_vals(off, g) /\ val(off, g) = ngrams[g][n]
  BY <1>1, <1>2, <1>3, <1>4 DEF have_vals, val
<1>6. PICK x \in Nat, y \in Nat : x = ngrams[g][n] /\ y = ngrams[g][i] /\ (x < y \/ x = y)
  <2>1. n = i \/ n < i  BY <1>3, <1>4
  <2>. QED  BY <1>1, <2>1, GramsAre
<1>7. PICK z \in Nat : z = val(off, f)
  <2>1. NgramsOK  BY DEF FilesOK
  <2>. QED  BY <2>1, ValIs DEF Leads
<1>8. z < x \/ (z = x /\ f <= g)  BY <1>5, <1>6, <1>7 DEF Leads, Before
<1>. QED  BY <1>6, <1>7, <1>8

(* the leader's n-gram is the one at its cursor *)
LEMMA LeaderIs ==
    ASSUME FilesOK, NEW off \in [Files -> Nat], NEW f \in Files, Leads(off, f)
    PROVE  \E n \in 1 .. Len(ngrams[f]) : n = off[f] + 1 /\ val(off, f) = ngrams[f][n]
<1>1. PICK o \in Nat : o = off[f]  OBVIOUS
<1>2. PICK l \in Nat : l = Len(ngrams[f])  BY DEF FilesOK, NgramsOK
<1>3. o + 1 \in 1 .. l  BY <1>1, <1>2 DEF Leads, have_vals
<1>. QED  BY <1>1, <1>2, <1>3 DEF val

(* The leader's n-gram and those of f up to it are popped next *)
LEMMA UpToLeader ==
    ASSUME FilesOK, SortedFiles, NEW off \in [Files -> Nat], NEW f \in Files, Leads(off, f),
           NEW i \in 1 .. Len(ngrams[f])
    PROVE  i <= off[f] + 1 <=> (ngrams[f][i] < val(off, f) \/ ngrams[f][i] = val(off, f))
<1>1. PICK n \in 1 .. Len(ngrams[f]) : n = off[f] + 1 /\ val(off, f) = ngrams[f][n]  BY LeaderIs
<1>2. PICK x \in Nat, y \in Nat : x = ngrams[f][i] /\ y = ngrams[f][n]  BY GramsAre
<1>3. (i < n => x < y) /\ (n < i => y < x) /\ (i = n => x = y)  BY <1>2, GramsAre
<1>4. i \in Nat /\ n \in Nat  BY GramsAre
<1>. QED  BY <1>1, <1>2, <1>3, <1>4

(* the leader's n-gram does not go backwards, and it has not been collected *)
LEMMA PopNotBefore ==
    ASSUME FilesOK, SortedFiles, NEW off \in [Files -> Nat], NEW f \in Files, Leads(off, f),
           NEW v \in Nat, NEW F, ItemPopped(F, off, v)
    PROVE  /\ val(off, f) \in Nat /\ (val(off, f) = v \/ v < val(off, f))
           /\ val(off, f) \in All /\ f \in With(val(off, f))
           /\ val(off, f) = v => f \notin F
<1>1. PICK n \in 1 .. Len(ngrams[f]) : n = off[f] + 1 /\ val(off, f) = ngrams[f][n]  BY LeaderIs
<1>2. PICK x \in Nat : x = ngrams[f][n] /\ x \in All /\ f \in With(x)  BY GramsAre
<1>3. ~(n <= off[f])
  <2>1. PICK o \in Nat : o = off[f]  OBVIOUS
  <2>. QED  BY <1>1, <2>1
<1>4. ~(x < v) /\ ~(x = v /\ f \in F)  BY <1>2, <1>3 DEF ItemPopped
<1>. QED  BY <1>1, <1>2, <1>4

(* the leader has the current n-gram, too: it is the next file of it *)
LEMMA PopSame ==
    ASSUME FilesOK, SortedFiles, NEW off \in [Files -> Nat], NEW f \in Files, Leads(off, f),
           NEW v \in Nat, NEW F, ItemPopped(F, off, v), val(off, f) = v,
           NEW new \in [Files -> Nat], new[f] = off[f] + 1, \A g \in Files : g # f => new[g] = off[g]
    PROVE  /\ \A a \in F : a < f
           /\ ItemPopped(F \cup {f}, new, v)
<1>1. f \notin F /\ f \in With(v)  BY PopNotBefore
<1>2. \A a \in F : a < f  BY <1>1 DEF ItemPopped
<1>3. ASSUME NEW b \in With(v), b \notin F, b # f PROVE f < b
  <2>1. PICK i \in 1 .. Len(ngrams[b]) : v = ngrams[b][i] /\ b \in Files  BY GramsAre
  <2>2. ~(i <= off[b])  BY <1>3, <2>1 DEF ItemPopped
  <2>3. f <= b  BY <2>1, <2>2, LeaderIsFirst
  <2>4. f \in Nat /\ b \in Nat  BY <2>1 DEF FilesOK
  <2>. QED  BY <1>3, <2>3, <2>4
<1>4. ASSUME NEW g \in Files, NEW i \in 1 .. Len(ngrams[g])
      PROVE  i <= new[g] <=> (ngrams[g][i] < v \/ (ngrams[g][i] = v /\ g \in F \cup {f}))
  <2>1. CASE g = f  BY <2>1, UpToLeader
  <2>2. CASE g # f  BY <2>2 DEF ItemPopped
  <2>. QED  BY <2>1, <2>2
<1>5. ItemPopped(F \cup {f}, new, v)
  <2>1. F \cup {f} \subseteq With(v)  BY <1>1 DEF ItemPopped
  <2>2. \A a \in F \cup {f}, b \in With(v) \ (F \cup {f}) : a < b  BY <1>3 DEF ItemPopped
  <2>. QED  BY <1>4, <2>1, <2>2 DEF ItemPopped
<1>. QED  BY <1>2, <1>5

(* As soon as the leader's n-gram is a later one, the current one is complete *)
LEMMA PopComplete ==
    ASSUME FilesOK, SortedFiles, NEW off \in [Files -> Nat], NEW f \in Files, Leads(off, f),
           NEW v \in Nat, NEW F, ItemPopped(F, off, v), v < val(off, f)
    PROVE  F = With(v)
<1>1. PICK w \in Nat : w = val(off, f) /\ v < w /\ f \in With(w)  BY PopNotBefore
<1>2. ASSUME NEW g \in Files, NEW i \in 1 .. Len(ngrams[g]), ~(i <= off[g])
      PROVE  w < ngrams[g][i] \/ (w = ngrams[g][i] /\ f <= g)
  BY <1>1, <1>2, LeaderIsFirst
<1>3. ASSUME NEW b \in With(v), b \notin F PROVE FALSE
  <2>1. PICK i \in 1 .. Len(ngrams[b]) : v = ngrams[b][i] /\ b \in Files  BY GramsAre
  <2>2. ~(i <= off[b])  BY <1>3, <2>1 DEF ItemPopped
  <2>3. w < v \/ w = v  BY <1>2, <2>1, <2>2
  <2>. QED  BY <1>1, <2>3
<1>. QED  BY <1>3 DEF ItemPopped

(* otherwise it has the next of all n-grams, and is the first file of it *)
LEMMA PopNext ==
    ASSUME FilesOK, SortedFiles, NEW off \in [Files -> Nat], NEW f \in Files, Leads(off, f),
           NEW v \in Nat, NEW F, ItemPopped(F, off, v), v < val(off, f),
           NEW new \in [Files -> Nat], new[f] = off[f] + 1, \A g \in Files : g # f => new[g] = off[g]
    PROVE  /\ \A x \in All : v < x => val(off, f) <= x
           /\ ItemPopped({f}, new, val(off, f))
<1>1. PICK w \in Nat : w = val(off, f) /\ v < w /\ f \in With(w)  BY PopNotBefore
<1>2. ASSUME NEW g \in Files, NEW i \in 1 .. Len(ngrams[g]), ~(i <= off[g])
      PROVE  w < ngrams[g][i] \/ (w = ngrams[g][i] /\ f <= g)
  BY <1>1, <1>2, LeaderIsFirst
<1>3. ASSUME NEW x \in All, v < x PROVE w <= x
  <2>1. PICK g : \E i : Occurs(x, g, i)  BY OccursSomewhere
  <2>2. PICK i \in 1 .. Len(ngrams[g]) : x = ngrams[g][i] /\ g \in Files  BY <2>1 DEF Occurs
  <2>3. x \in Nat  BY GramsAre
  <2>4. ~(i <= off[g])  BY <1>3, <2>2, <2>3 DEF ItemPopped
  <2>5. w < x \/ w = x  BY <1>2, <2>2, <2>4
  <2>. QED  BY <2>3, <2>5
<1>4. ASSUME NEW b \in With(w), b # f PROVE f < b
  <2>1. PICK i \in 1 .. Len(ngrams[b]) : w = ngrams[b][i] /\ b \in Files  BY GramsAre
  <2>2. ~(i <= off[b])  BY <1>1, <2>1 DEF ItemPopped
  <2>3. f <= b  BY <1>1, <1>2, <2>1, <2>2
  <2>4. f \in Nat /\ b \in Nat  BY <2>1 DEF FilesOK
  <2>. QED  BY <1>4, <2>3, <2>4
<1>5. ASSUME NEW g \in Files, NEW i \in 1 .. Len(ngrams[g])
      PROVE  i <= new[g] <=> (ngrams[g][i] < w \/ (ngrams[g][i] = w /\ g \in {f}))
  <2>1. CASE g = f  BY <1>1, <2>1, UpToLeader
  <2>2. CASE g # f
    <3>1. PICK x \in Nat : x = ngrams[g][i]  BY GramsAre
    <3>2. i <= off[g] => x < w  BY <1>1, <3>1 DEF ItemPopped
    <3>3. ~(i <= off[g]) => ~(x < w)  BY <1>1, <1>2, <3>1
    <3>. QED  BY <2>2, <3>1, <3>2, <3>3
  <2>. QED  BY <2>1, <2>2
<1>6. ItemPopped({f}, new, w)
  <2>1. {f} \subseteq With(w)  BY <1>1
  <2>2. \A a \in {f}, b \in With(w) \ {f} : a < b  BY <1>4
  <2>. QED  BY <1>5, <2>1, <2>2 DEF ItemPopped
<1>. QED  BY <1>1, <1>3, <1>6

(* the first look at the root finds the first n-gram *)
LEMMA PopFirst ==
    ASSUME FilesOK, SortedFiles, NEW off \in [Files -> Nat], NEW f \in Files, Leads(off, f),
           \A g \in Files : off[g] = 0
    PROVE  /\ val(off, f) \in All /\ \A x \in All : val(off, f) <= x
           /\ ItemPopped({}, off, val(off, f))
<1>1. ASSUME NEW g \in Files, NEW i \in 1 .. Len(ngrams[g])
      PROVE  ~(i <= off[g]) /\ val(off, f) \in Nat /\ ngrams[g][i] \in Nat /\ val(off, f) <= ngrams[g][i]
  <2>1. ~(i <= off[g])  OBVIOUS
  <2>2. val(off, f) \in Nat /\ (val(off, f) < ngrams[g][i] \/ val(off, f) = ngrams[g][i])
    BY <2>1, LeaderIsFirst
  <2>3. PICK x \in Nat : x = ngrams[g][i]  BY GramsAre
  <2>. QED  BY <2>1, <2>2, <2>3
<1>2. val(off, f) \in All
  <2>1. PICK n \in 1 .. Len(ngrams[f]) : n = off[f] + 1 /\ val(off, f) = ngrams[f][n]  BY LeaderIs
  <2>. QED  BY <2>1, GramsAre
<1>3. ASSUME NEW x \in All PROVE val(off, f) <= x
  <2>1. PICK g : \E i : Occurs(x, g, i)  BY OccursSomewhere
  <2>2. PICK i \in 1 .. Len(ngrams[g]) : x = ngrams[g][i] /\ g \in Files  BY <2>1 DEF Occurs
  <2>. QED  BY <1>1, <2>2
<1>4. ASSUME NEW g \in Files, NEW i \in 1 .. Len(ngrams[g])
      PROVE  i <= off[g] <=> (ngrams[g][i] < val(off, f) \/ (ngrams[g][i] = val(off, f) /\ g \in {}))
  <2>1. PICK x \in Nat, y \in Nat : x = ngrams[g][i] /\ y = val(off, f) /\ y <= x  BY <1>1
  <2>. QED  BY <1>1, <2>1
<1>5. ItemPopped({}, off, val(off, f))  BY <1>4 DEF ItemPopped
<1>. QED  BY <1>2, <1>3, <1>5

(* once all files are exhausted, the current n-gram is complete and the last *)
LEMMA PopLast ==
    ASSUME FilesOK, SortedFiles, NEW off \in [Files -> Nat], \A f \in Files : ~have_vals(off, f),
           NEW v \in Nat, NEW F, ItemPopped(F, off, v)
    PROVE  F = With(v) /\ \A x \in All : x <= v
<1>1. ASSUME NEW g \in Files, NEW i \in 1 .. Len(ngrams[g])
      PROVE  ngrams[g][i] < v \/ (ngrams[g][i] = v /\ g \in F)
  <2>1. PICK l \in Nat, o \in Nat : l = Len(ngrams[g]) /\ o = off[g]  BY GramsAre
  <2>2. ~(o < l)  BY <2>1 DEF have_vals
  <2>3. i <= off[g]  BY <2>1, <2>2
  <2>. QED  BY <2>3 DEF ItemPopped
<1>2. ASSUME NEW x \in All PROVE x <= v
  <2>1. PICK g : \E i : Occurs(x, g, i)  BY OccursSomewhere
  <2>2. PICK i \in 1 .. Len(ngrams[g]) : x = ngrams[g][i] /\ g \in Files  BY <2>1 DEF Occurs
  <2>3. x \in Nat  BY GramsAre
  <2>. QED  BY <1>1, <2>2, <2>3
<1>3. ASSUME NEW g \in With(v) PROVE g \in F
  <2>1. PICK i \in 1 .. Len(ngrams[g]) : v = ngrams[g][i] /\ g \in Files  BY GramsAre
  <2>. QED  BY <1>1, <2>1
<1>. QED  BY <1>2, <1>3 DEF ItemPopped

-----------------------------------------------------------------------------
(* Where an n-gram is among all of them *)

Occurring == Ordered(All)
Many == Cardinality(All)

(* Occurring lists all n-grams in order *)
LEMMA OccurringIs ==
    ASSUME FilesOK, SortedFiles
    PROVE  /\ Many \in Nat /\ Occurring \in [1 .. Many -> All] /\ Len(Occurring) = Many
           /\ \A i, k \in 1 .. Many : i < k => Occurring[i] < Occurring[k]
           /\ \A x \in All : \E k \in 1 .. Many : Occurring[k] = x
           /\ \A k \in 1 .. Many : Occurring[k] \in Nat /\ Occurring[k] \in All
<1>1. All \in SUBSET Nat /\ IsFiniteSet(All)  BY GramsAre
<1>2. Many \in Nat  BY <1>1, FS_CardinalityType DEF Many
<1>3. /\ Occurring \in [1 .. Many -> All]
      /\ \A i, k \in 1 .. Many : i < k => Occurring[i] < Occurring[k]
      /\ \A x \in All : \E k \in 1 .. Many : Occurring[k] = x
  BY <1>1, OrderedIs DEF Occurring, Many
<1>4. Len(Occurring) = Many
  <2>1. Occurring \in Seq(All)  BY <1>2, <1>3
  <2>. QED  BY <1>2, <1>3, <2>1
<1>. QED  BY <1>1, <1>2, <1>3, <1>4

(* so that the least is the first, *)
LEMMA FirstOccurs ==
    ASSUME FilesOK, SortedFiles, NEW w \in All, \A x \in All : w <= x
    PROVE  1 \in 1 .. Many /\ w = Occurring[1]
<1>1. PICK k \in 1 .. Many : Occurring[k] = w  BY OccurringIs
<1>2. 1 \in 1 .. Many /\ (k = 1 \/ 1 < k)  BY <1>1, OccurringIs
<1>3. ~(1 < k)
  <2>1. SUFFICES ASSUME 1 < k PROVE FALSE  OBVIOUS
  <2>2. PICK x \in Nat, y \in Nat : x = Occurring[1] /\ y = w /\ x < y  BY <1>1, <1>2, <2>1, OccurringIs
  <2>3. y <= x  BY <1>2, <2>2, OccurringIs
  <2>. QED  BY <2>2, <2>3
<1>. QED  BY <1>1, <1>2, <1>3

(* the next greater one the next, *)
LEMMA NextOccurs ==
    ASSUME FilesOK, SortedFiles, NEW m \in 1 .. Many, NEW v \in Nat, v = Occurring[m],
           NEW w \in All, v < w, \A x \in All : v < x => w <= x
    PROVE  m + 1 \in 1 .. Many /\ w = Occurring[m + 1]
<1>1. PICK k \in 1 .. Many : Occurring[k] = w  BY OccurringIs
<1>2. Many \in Nat /\ m \in Nat /\ k \in Nat  BY OccurringIs
<1>3. w \in Nat  BY <1>1, OccurringIs
<1>4. ~(k < m) /\ k # m
  <2>1. k < m => w < v  BY <1>1, OccurringIs
  <2>2. k = m => w = v  BY <1>1
  <2>. QED  BY <1>3, <2>1, <2>2
<1>5. m + 1 \in 1 .. Many /\ (k = m + 1 \/ m + 1 < k)  BY <1>2, <1>4
<1>6. ~(m + 1 < k)
  <2>1. SUFFICES ASSUME m + 1 < k PROVE FALSE  OBVIOUS
  <2>2. PICK n \in 1 .. Many : n = m + 1 /\ m < n /\ n < k  BY <1>2, <1>5, <2>1
  <2>3. PICK x \in All : x = Occurring[n] /\ x \in Nat  BY OccurringIs
  <2>4. v < x /\ x < w  BY <1>1, <2>2, <2>3, OccurringIs
  <2>5. w <= x  BY <2>3, <2>4
  <2>. QED  BY <1>3, <2>3, <2>4, <2>5
<1>. QED  BY <1>1, <1>5, <1>6

(* and the greatest the last *)
LEMMA LastOccurs ==
    ASSUME FilesOK, SortedFiles, NEW m \in 1 .. Many, NEW v \in Nat, v = Occurring[m],
           \A x \in All : x <= v
    PROVE  m = Many
<1>1. Many \in Nat /\ m \in Nat /\ Many \in 1 .. Many  BY OccurringIs
<1>2. PICK x \in All : x = Occurring[Many] /\ x \in Nat  BY <1>1, OccurringIs
<1>3. m < Many => v < x  BY <1>1, <1>2, OccurringIs
<1>4. x <= v  BY <1>2
<1>. QED  BY <1>1, <1>2, <1>3, <1>4

(* The beginning of the inverted index *)
Beginning(k) == [i \in 1 .. k |-> Inverted[i]]

(* an entry of the inverted index for each n-gram *)
LEMMA InvertedIs ==
    ASSUME FilesOK, SortedFiles
    PROVE  /\ DOMAIN Inverted = 1 .. Many
           /\ \A k \in 1 .. Many : Inverted[k] = [order |-> k - 1, ngram |-> Occurring[k],
                                                  fids |-> Ordered(With(Occurring[k]))]
           /\ Inverted = Beginning(Many)
<1>1. Len(Occurring) = Many /\ Many \in Nat  BY OccurringIs
<1>2. Inverted = [k \in 1 .. Many |-> [order |-> k - 1, ngram |-> Occurring[k],
                                       fids |-> Ordered(With(Occurring[k]))]]
  BY <1>1 DEF Inverted, Occurring, All, With
<1>3. Inverted = [k \in 1 .. Many |-> Inverted[k]]  BY <1>2
<1>. QED  BY <1>2, <1>3 DEF Beginning

(* beginnings are prefixes, and grow by an entry *)
LEMMA BeginningIs ==
    ASSUME FilesOK, SortedFiles, NEW k \in Nat, k <= Many
    PROVE  /\ Len(Beginning(k)) = k /\ IsPrefix(Beginning(k), Inverted)
           /\ Beginning(0) = <<>>
           /\ k < Many => Append(Beginning(k), Inverted[k + 1]) = Beginning(k + 1)
<1>. DEFINE S == {Inverted[i] : i \in 1 .. Many}
<1>1. Many \in Nat  BY OccurringIs
<1>2. /\ Inverted = Beginning(Many) /\ DOMAIN Inverted = 1 .. Many
      /\ Inverted \in Seq(S) /\ Len(Inverted) = Many
  <2>1. Inverted = Beginning(Many) /\ DOMAIN Inverted = 1 .. Many  BY InvertedIs
  <2>2. PICK s : s = Inverted  OBVIOUS
  <2>3. s \in [1 .. Many -> S]  BY <2>1, <2>2 DEF Beginning
  <2>. HIDE DEF S
  <2>4. s \in Seq(S) /\ Len(s) = Many  BY <1>1, <2>3
  <2>. QED  BY <2>1, <2>2, <2>4
<1>3. Beginning(k) \in Seq(S) /\ Len(Beginning(k)) = k
  <2>1. Beginning(k) \in [1 .. k -> S]  BY <1>1 DEF Beginning
  <2>. QED  BY <2>1
<1>4. IsPrefix(Beginning(k), Inverted)
  <2>1. SubSeq(Beginning(k), 1, k) = Beginning(k)  BY <1>3
  <2>2. SubSeq(Inverted, 1, k) = Beginning(k)  BY <1>1, <1>2 DEF Beginning
  <2>. QED  BY <1>2, <1>3, <2>1, <2>2 DEF IsPrefix
<1>5. Beginning(0) = <<>>  BY DEF Beginning
<1>6. k < Many => Append(Beginning(k), Inverted[k + 1]) = Beginning(k + 1)
  <2>1. SUFFICES ASSUME k < Many PROVE Append(Beginning(k), Inverted[k + 1]) = Beginning(k + 1)  OBVIOUS
  <2>2. k + 1 \in Nat /\ k + 1 <= Many  BY <1>1, <2>1
  <2>3. Beginning(k + 1) \in [1 .. k + 1 -> S]  BY <1>1, <2>2 DEF Beginning
  <2>4. \A i \in 1 .. k : Beginning(k)[i] = Beginning(k + 1)[i]  BY DEF Beginning
  <2>5. Beginning(k + 1)[k + 1] = Inverted[k + 1]  BY <2>2 DEF Beginning
  <2>6. Inverted[k + 1] \in S  BY <1>1, <2>2
  <2>. HIDE DEF S
  <2>7. /\ Append(Beginning(k), Inverted[k + 1]) \in [1 .. k + 1 -> S]
        /\ \A i \in 1 .. k : Append(Beginning(k), Inverted[k + 1])[i] = Beginning(k)[i]
        /\ Append(Beginning(k), Inverted[k + 1])[k + 1] = Inverted[k + 1]
    <3>1. PICK s \in Seq(S), x \in S : s = Beginning(k) /\ x = Inverted[k + 1] /\ Len(s) = k
      BY <1>3, <2>6
    <3>2. Append(s, x) \in Seq(S) /\ Len(Append(s, x)) = k + 1  BY <3>1
    <3>3. (\A i \in 1 .. k : Append(s, x)[i] = s[i]) /\ Append(s, x)[k + 1] = x  BY <3>1
    <3>4. Append(s, x) \in [1 .. k + 1 -> S]
      <4>1. PICK t \in Seq(S) : t = Append(s, x) /\ Len(t) = k + 1  BY <3>2
      <4>2. t \in [1 .. Len(t) -> S]  OBVIOUS
      <4>. QED  BY <4>1, <4>2
    <3>. QED  BY <3>1, <3>3, <3>4
  <2>8. \A i \in 1 .. k + 1 : i \in 1 .. k \/ i = k + 1  OBVIOUS
  <2>. QED  BY <2>3, <2>4, <2>5, <2>7, <2>8
<1>. QED  BY <1>3, <1>4, <1>5, <1>6

(* The n-gram being collected, the m-th, with its files F so far *)
Collecting(m, F) ==
    /\ m \in 1 .. Many /\ last_ngram = Occurring[m]
    /\ sent = Beginning(m - 1)
    /\ Enumerates(fids, F) /\ ItemPopped(F, cur_off, last_ngram)

(* when all files of the n-gram are collected, the notification is its entry *)
LEMMA NotificationIs ==
    ASSUME FilesOK, SortedFiles, NEW m, NEW F, Collecting(m, F), F = With(last_ngram)
    PROVE  /\ Notification = Inverted[m] /\ fids # <<>>
           /\ Append(sent, Notification) = Beginning(m)
<1>1. /\ Many \in Nat /\ m \in 1 .. Many /\ m \in Nat /\ last_ngram = Occurring[m]
      /\ sent = Beginning(m - 1) /\ Enumerates(fids, F)
      /\ last_ngram \in All
  BY OccurringIs DEF Collecting
<1>2. F \in SUBSET Nat /\ IsFiniteSet(F) /\ F # {}
  <2>1. With(last_ngram) # {}  BY <1>1, GramsAre
  <2>2. Files \in SUBSET Nat /\ IsFiniteSet(Files)
    <3>1. Files = 0 .. num - 1 /\ num \in Nat  BY DEF FilesOK
    <3>2. 0 \in Int /\ num - 1 \in Int  BY <3>1
    <3>. QED  BY <3>1, <3>2, FS_Interval
  <2>3. With(last_ngram) \subseteq Files  BY DEF With
  <2>. QED  BY <2>1, <2>2, <2>3, FS_Subset
<1>3. fids = Ordered(With(last_ngram)) /\ fids # <<>>  BY <1>1, <1>2, EnumerationIs
<1>4. PICK k \in Nat : k = m - 1 /\ k + 1 = m /\ k < Many /\ k <= Many  BY <1>1
<1>5. Len(sent) = m - 1 /\ Append(sent, Inverted[m]) = Beginning(m)  BY <1>1, <1>4, BeginningIs
<1>6. Notification = Inverted[m]  BY <1>1, <1>3, <1>5, InvertedIs DEF Notification
<1>. QED  BY <1>3, <1>5, <1>6

(* All of this is fixed by the files' n-grams *)
LEMMA SameIndex ==
    ASSUME ngrams' = ngrams
    PROVE  /\ Inverted' = Inverted /\ (SortedFiles => SortedFiles')
           /\ \A m, F : /\ m \in 1 .. Many /\ last_ngram' = Occurring[m]
                        /\ sent' = Beginning(m - 1)
                        /\ Enumerates(fids', F) /\ ItemPopped(F, cur_off', last_ngram')
                        => Collecting(m, F)'
<1>1. Files' = Files /\ \A f : GramsOf(f)' = GramsOf(f)  BY DEF Files, GramsOf
<1>2. All' = All /\ \A g : With(g)' = With(g)  BY <1>1 DEF All, With
<1>3. Occurring' = Occurring /\ Many' = Many
  <2>1. PICK a : a = All  OBVIOUS
  <2>2. a = All'  BY <1>2, <2>1
  <2>. QED  BY <2>1, <2>2 DEF Occurring, Many
<1>4. Inverted' = Inverted  BY DEF Inverted, Files, GramsOf
<1>5. SortedFiles => SortedFiles'  BY <1>1 DEF SortedFiles, Sorted
<1>6. \A k : Beginning(k)' = Beginning(k)  BY <1>4 DEF Beginning
<1>7. \A F, off, v : ItemPopped(F, off, v)' <=> ItemPopped(F, off, v)  BY <1>1, <1>2 DEF ItemPopped
<1>8. ASSUME NEW m, NEW F, m \in 1 .. Many, last_ngram' = Occurring[m], sent' = Beginning(m - 1),
             Enumerates(fids', F), ItemPopped(F, cur_off', last_ngram')
      PROVE  Collecting(m, F)'
  <2>1. ItemPopped(F, cur_off, last_ngram)'  BY <1>1, <1>2, <1>8 DEF ItemPopped
  <2>2. (m \in 1 .. Many)' /\ (last_ngram = Occurring[m])'  BY <1>3, <1>8
  <2>3. (sent = Beginning(m - 1))' /\ Enumerates(fids, F)'  BY <1>6, <1>8 DEF Enumerates
  <2>. QED  BY <2>1, <2>2, <2>3 DEF Collecting
<1>. QED  BY <1>4, <1>5, <1>8

(* what is first in the root leads *)
LEMMA FirstLeads ==
    ASSUME NULL \notin Nat, Files \subseteq Nat, NEW off, NEW x, First(off, Files, x)
    PROVE  \/ x \in Files /\ Leads(off, x)
           \/ x = NULL /\ \A f \in Files : ~have_vals(off, f)
<1>. DEFINE alive == {f \in Files : have_vals(off, f)}
<1>1. CASE alive = {}
  <2>1. x = NULL  BY <1>1 DEF First
  <2>2. \A f \in Files : ~have_vals(off, f)  BY <1>1
  <2>. QED  BY <2>1, <2>2
<1>2. CASE alive # {}
  <2>1. x \in alive /\ \A g \in alive : Before(off, x, g)  BY <1>2 DEF First
  <2>. QED  BY <2>1 DEF Leads
<1>. QED  BY <1>1, <1>2

(* The invariant of the loop.  The n-grams before the current one have been *)
(* sent, each with all its files.                                           *)
SendInv ==
    /\ SortedFiles
    /\ pc # "exit88"
    /\ pc \in {"link", "play"} => sent = <<>> /\ fids = <<>> /\ \A f \in Files : cur_off[f] = 0
    /\ pc = "merge" => \E m, F : Collecting(m, F)
    /\ pc = "done" => sent = Inverted

(* the first n-gram is to be collected, with no file yet *)
LEMMA StartMergeSends ==
    ASSUME NEW h, TreeInv(h), SendInv, NULL \notin Nat, StartMerge
    PROVE  SendInv'
<1>1. /\ pc = "play" /\ pc' = "merge" /\ ngrams' = ngrams /\ cur_off' = cur_off
      /\ fids' = fids /\ sent' = sent /\ last_fid_popped >= num
      /\ last_ngram' = IF InPlay(cur_off, fd[root]) THEN val(cur_off, fd[root]) ELSE 0
  BY DEF StartMerge
<1>2. /\ FilesOK /\ Tree(h) /\ SortedFiles /\ Files \subseteq Nat /\ cur_off \in [Files -> Nat]
      /\ sent = <<>> /\ fids = <<>> /\ \A f \in Files : cur_off[f] = 0
  BY <1>1 DEF TreeInv, FilesOK, Tree, SendInv
<1>3. Holds(h, cur_off, fd, num)
  <2>1. PICK p \in Nat : last_fid_popped = 2 * p /\ Holds(h, cur_off, fd, 2 * p)
    BY <1>1 DEF TreeInv
  <2>2. PICK m \in Nat : m = 2 * p  OBVIOUS
  <2>. QED  BY <1>1, <1>2, <2>1, <2>2, HoldsAll
<1>4. PICK x : x = fd[root]  OBVIOUS
<1>5. x \in Files /\ Leads(cur_off, x)
  <2>1. First(cur_off, Files, x)  BY <1>2, <1>3, <1>4, RootFirst
  <2>2. 0 \in Files /\ have_vals(cur_off, 0)
    <3>1. 0 \in Files  BY <1>2 DEF FilesOK
    <3>2. Len(ngrams[0]) \in Nat \ {0}  BY <1>2, <3>1, GramsAre
    <3>. QED  BY <1>2, <3>1, <3>2 DEF have_vals
  <2>. QED  BY <1>2, <2>1, <2>2, FirstLeads
<1>6. last_ngram' = val(cur_off, x)
  <2>1. x # NULL  BY <1>2, <1>5
  <2>. QED  BY <1>1, <1>4, <1>5, <2>1 DEF InPlay, Leads
<1>7. ItemPopped({}, cur_off', last_ngram') /\ 1 \in 1 .. Many /\ last_ngram' = Occurring[1]
  BY <1>1, <1>2, <1>5, <1>6, PopFirst, FirstOccurs
<1>8. Enumerates(fids', {})
  <2>1. 0 \in Nat  OBVIOUS
  <2>. QED  BY <1>1, <1>2, <2>1, OneEnumerates
<1>9. sent' = Beginning(1 - 1)  BY <1>1, <1>2 DEF Beginning
<1>10. Collecting(1, {})'  BY <1>1, <1>7, <1>8, <1>9, SameIndex
<1>11. SortedFiles'  BY <1>1, <1>2, SameIndex
<1>. QED  BY <1>1, <1>10, <1>11 DEF SendInv

(* a pop adds a file to the current n-gram, or completes it and starts the next *)
LEMMA MergeSends ==
    ASSUME NEW h, TreeInv(h), SendInv, NULL \notin Nat, Merge
    PROVE  SendInv'
<1>1. pc = "merge" /\ ~is_empty /\ ngrams' = ngrams  BY DEF Merge
<1>2. /\ FilesOK /\ SortedFiles /\ Files \subseteq Nat /\ cur_off \in [Files -> Nat]
  BY DEF TreeInv, FilesOK, SendInv
<1>3. PICK m, F : Collecting(m, F)  BY <1>1 DEF SendInv
<1>4. PICK f \in Files : f = fd[root] /\ have_vals(cur_off, f) /\ Leads(cur_off, f)
  <2>1. First(cur_off, Files, fd[root]) /\ fd[root] \in Files /\ have_vals(cur_off, fd[root])
    BY <1>1, RootHolds
  <2>. QED  BY <1>2, <2>1, FirstLeads
<1>5. PICK off \in [Files -> Nat] :
         /\ off = [cur_off EXCEPT ![f] = @ + 1]
         /\ off[f] = cur_off[f] + 1 /\ \A g \in Files : g # f => off[g] = cur_off[g]
  <2>1. PICK new : new = [cur_off EXCEPT ![f] = @ + 1]  OBVIOUS
  <2>2. cur_off[f] + 1 \in Nat  BY <1>2
  <2>3. new \in [Files -> Nat] /\ new[f] = cur_off[f] + 1  BY <1>2, <2>1, <2>2
  <2>4. \A g \in Files : g # f => new[g] = cur_off[g]  BY <1>2, <2>1
  <2>. QED  BY <2>1, <2>3, <2>4
<1>6. PICK w : w = val(cur_off, f)  OBVIOUS
<1>7. PICK v \in Nat : /\ v = last_ngram /\ v = Occurring[m] /\ m \in 1 .. Many /\ m \in Nat
                       /\ Many \in Nat /\ sent = Beginning(m - 1)
                       /\ Enumerates(fids, F) /\ ItemPopped(F, cur_off, v)
  BY <1>2, <1>3, OccurringIs DEF Collecting
<1>8. cur_off' = off /\ Collect(w, f)  BY <1>1, <1>4, <1>5, <1>6 DEF Merge
<1>9. w \in Nat /\ w \in All /\ f \in With(w) /\ (w = v \/ v < w)
  BY <1>2, <1>4, <1>6, <1>7, PopNotBefore
<1>10. SortedFiles'  BY <1>1, <1>2, SameIndex
<1>11. pc' = "merge" /\ \E n, G : Collecting(n, G)'
  <2>1. CASE w = v
    <3>1. fids' = Append(fids, f) /\ pc' = pc /\ last_ngram' = v /\ sent' = sent
      BY <1>7, <1>8, <2>1 DEF Collect
    <3>2. (\A a \in F : a < f) /\ ItemPopped(F \cup {f}, off, v)
      BY <1>2, <1>4, <1>5, <1>6, <1>7, <2>1, PopSame
    <3>3. F \in SUBSET Nat  BY <1>2, <1>7 DEF ItemPopped, With
    <3>4. Enumerates(fids', F \cup {f})  BY <1>2, <1>7, <3>1, <3>2, <3>3, EnumerationAppends
    <3>5. Collecting(m, F \cup {f})'  BY <1>1, <1>7, <1>8, <3>1, <3>2, <3>4, SameIndex
    <3>. QED  BY <1>1, <3>1, <3>5
  <2>2. CASE v < w
    <3>1. ~(w < v) /\ w # v  BY <1>9, <2>2
    <3>2. fids' = <<f>> /\ pc' = pc /\ last_ngram' = w /\ sent' = Append(sent, Notification)
      BY <1>7, <1>8, <3>1 DEF Collect
    <3>3. /\ F = With(v) /\ \A x \in All : v < x => w <= x
          /\ ItemPopped({f}, off, w)
      <4>1. v < val(cur_off, f)  BY <1>6, <2>2
      <4>2. SortedFiles /\ FilesOK /\ Leads(cur_off, f) /\ ItemPopped(F, cur_off, v) /\ cur_off \in [Files -> Nat]
        BY <1>2, <1>4, <1>7
      <4>3. ItemPopped({f}, off, val(cur_off, f))  BY <1>5, <4>1, <4>2, PopNext
      <4>4. \A x \in All : v < x => val(cur_off, f) <= x  BY <1>5, <4>1, <4>2, PopNext
      <4>5. F = With(v)  BY <4>1, <4>2, PopComplete
      <4>. QED  BY <1>6, <4>3, <4>4, <4>5
    <3>4. m + 1 \in 1 .. Many /\ w = Occurring[m + 1]
      BY <1>2, <1>7, <1>9, <2>2, <3>3, NextOccurs
    <3>5. sent' = Beginning(m)  BY <1>2, <1>3, <1>7, <3>2, <3>3, NotificationIs
    <3>6. PICK n \in 1 .. Many : n = m + 1 /\ n - 1 = m  BY <1>7, <3>4
    <3>7. Enumerates(fids', {f})  BY <1>2, <3>2, OneEnumerates
    <3>8. last_ngram' = Occurring[n] /\ sent' = Beginning(n - 1) /\ ItemPopped({f}, cur_off', last_ngram')
      BY <1>8, <3>2, <3>3, <3>4, <3>5, <3>6
    <3>9. Collecting(n, {f})'  BY <1>1, <3>6, <3>7, <3>8, SameIndex
    <3>. QED  BY <1>1, <3>2, <3>9
  <2>. QED  BY <1>9, <2>1, <2>2
<1>. QED  BY <1>10, <1>11 DEF SendInv

(* the last n-gram is complete when nothing is left to pop *)
LEMMA MergeDoneSends ==
    ASSUME NEW h, TreeInv(h), SendInv, NULL \notin Nat, MergeDone
    PROVE  SendInv'
<1>1. /\ pc = "merge" /\ pc' = "done" /\ is_empty /\ ngrams' = ngrams
      /\ sent' = IF fids # <<>> THEN Append(sent, Notification) ELSE sent
  BY DEF MergeDone
<1>2. /\ FilesOK /\ SortedFiles /\ Files \subseteq Nat /\ cur_off \in [Files -> Nat]
  BY DEF TreeInv, FilesOK, SendInv
<1>3. PICK m, F : Collecting(m, F)  BY <1>1 DEF SendInv
<1>4. \A f \in Files : ~have_vals(cur_off, f)
  <2>1. First(cur_off, Files, fd[root]) /\ ~(fd[root] \in Files /\ have_vals(cur_off, fd[root]))
    BY <1>1, RootHolds
  <2>. QED  BY <1>2, <2>1, FirstLeads DEF Leads
<1>5. PICK v \in Nat : /\ v = last_ngram /\ v = Occurring[m] /\ m \in 1 .. Many
                       /\ ItemPopped(F, cur_off, v)
  BY <1>2, <1>3, OccurringIs DEF Collecting
<1>6. F = With(v) /\ m = Many  BY <1>2, <1>4, <1>5, PopLast, LastOccurs
<1>7. Append(sent, Notification) = Beginning(Many) /\ fids # <<>>
  BY <1>2, <1>3, <1>5, <1>6, NotificationIs
<1>8. sent' = Inverted  BY <1>1, <1>2, <1>7, InvertedIs
<1>9. Inverted' = Inverted /\ SortedFiles'  BY <1>1, <1>2, SameIndex
<1>. QED  BY <1>1, <1>8, <1>9 DEF SendInv

(* steps that neither pop nor send *)
LEMMA UnsentInv ==
    ASSUME SendInv, ngrams' = ngrams, cur_off' = cur_off, last_ngram' = last_ngram, fids' = fids,
           sent' = sent, pc' = pc \/ (pc \in {"link", "play"} /\ pc' \in {"link", "play"})
    PROVE  SendInv'
<1>1. SortedFiles' /\ Inverted' = Inverted  BY SameIndex DEF SendInv
<1>2. ASSUME NEW m, NEW F, Collecting(m, F) PROVE Collecting(m, F)'
  BY <1>2, SameIndex DEF Collecting
<1>3. pc \in {"link", "play"} => (\A f \in Files : cur_off[f] = 0)'  BY DEF SendInv, Files
<1>. QED  BY <1>1, <1>2, <1>3 DEF SendInv

(* the invariant is inductive *)
LEMMA NextSends ==
    ASSUME NEW h, TreeInv(h), SendInv, NULL \notin Nat, [Next]_vars
    PROVE  SendInv'
<1>1. ASSUME LinkTree PROVE SendInv'  BY <1>1, UnsentInv DEF LinkTree
<1>2. ASSUME PlayLeaf PROVE SendInv'  BY <1>2, UnsentInv DEF PlayLeaf
<1>3. ASSUME UNCHANGED vars PROVE SendInv'  BY <1>3, UnsentInv DEF vars
<1>4. ASSUME Done PROVE SendInv'  BY <1>3, <1>4 DEF Done
<1>. QED  BY <1>1, <1>2, <1>3, <1>4, StartMergeSends, MergeSends, MergeDoneSends DEF Next

(* and says what the property says *)
LEMMA SendInvIs ==
    ASSUME FilesOK, SendInv,
           pc \in {"link", "play", "merge", "done", "exit88"}
    PROVE  SendsTheInvertedIndex
<1>1. Many \in Nat /\ SortedFiles  BY OccurringIs DEF SendInv
<1>2. PICK k \in Nat : k <= Many /\ sent = Beginning(k)
  <2>1. CASE pc \in {"link", "play"}
    <3>1. 0 \in Nat /\ 0 <= Many  BY <1>1
    <3>. QED  BY <1>1, <2>1, <3>1, BeginningIs DEF SendInv
  <2>2. CASE pc = "merge"
    <3>1. PICK m, F : Collecting(m, F)  BY <2>2 DEF SendInv
    <3>2. m - 1 \in Nat /\ m - 1 <= Many  BY <1>1, <3>1 DEF Collecting
    <3>. QED  BY <3>1, <3>2 DEF Collecting
  <2>3. CASE pc = "done"
    <3>1. sent = Beginning(Many) /\ Many <= Many  BY <1>1, <2>3, InvertedIs DEF SendInv
    <3>. QED  BY <1>1, <3>1
  <2>. QED  BY <2>1, <2>2, <2>3 DEF SendInv
<1>3. IsPrefix(sent, Inverted)  BY <1>1, <1>2, BeginningIs
<1>. QED  BY <1>3 DEF SendsTheInvertedIndex, SendInv

(* What the merge sends is at every moment the beginning of the inverted    *)
(* index of the files, and all of it at the end; no n-gram goes backwards.  *)
THEOREM SendsInOrder == Spec => []SendsTheInvertedIndex
<1>. DEFINE Inv == (\E h : TreeInv(h)) /\ SendInv
<1>0. NULL \notin Nat  BY GramsAssumption
<1>1. Init => Inv
  <2>1. Init => SendInv  BY InitFiles DEF Init, SendInv, SortedFiles
  <2>. QED  BY <2>1, InitTreeInv
<1>2. Inv /\ [Next]_vars => Inv'
  <2>1. SUFFICES ASSUME NEW h, TreeInv(h), SendInv, [Next]_vars PROVE TreeInv(h)' /\ SendInv'
    OBVIOUS
  <2>. QED  BY <1>0, <2>1, NextTreeInv, NextSends
<1>3. Inv => SendsTheInvertedIndex  BY SendInvIs DEF TreeInv
<1>. QED  BY <1>1, <1>2, <1>3, PTL DEF Spec
=============================================================================

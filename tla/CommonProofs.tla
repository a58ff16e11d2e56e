---------------------------- MODULE CommonProofs -----------------------------
(***************************************************************************)
(* What the proofs of several modules need.                                *)
(*                                                                         *)
(* Of natural numbers, functions and sequences: the library states         *)
(* induction for an operator; here it is stated for a set, from the fact   *)
(* that every set of naturals has a least element, and recursion for a     *)
(* function that makes each value from the one before.                     *)
(*                                                                         *)
(* Of bgQueue: each of its steps keeps the type, and changes what it says  *)
(* it changes.                                                             *)
(***************************************************************************)
EXTENDS BgQueue, Ascending, SequencesExt, FiniteSetTheorems, FunctionTheorems,
        WellFoundedInduction, TLAPS

LEMMA LeastElement ==
    ASSUME NEW T \in SUBSET Nat, T # {}
    PROVE  \E m \in T : \A k \in T : m <= k
<1>. DEFINE R == OpToRel(<, Nat)
<1>1. IsWellFoundedOn(R, Nat)  BY NatLessThanWellFounded
<1>2. \A x, y \in Nat : <<y, x>> \in R <=> y < x  BY DEF OpToRel
<1>. HIDE DEF R
<1>3. \E x \in T : \A y \in T : ~(<<y, x>> \in R)  BY <1>1, WFMin
<1>4. PICK x \in T : \A y \in T : ~(y < x)  BY <1>2, <1>3
<1>5. \A y \in T : x <= y  BY <1>4
<1>. QED  BY <1>5

LEMMA Induction ==
    ASSUME NEW T, 0 \in T, \A n \in Nat : n \in T => n + 1 \in T
    PROVE  Nat \subseteq T
<1>. SUFFICES ASSUME Nat \ T # {} PROVE FALSE
  OBVIOUS
<1>1. PICK m \in Nat \ T : \A k \in Nat \ T : m <= k
  BY LeastElement
<1>2. m - 1 \in Nat /\ m - 1 \in T /\ m - 1 + 1 = m
  BY <1>1
<1>. QED  BY <1>1, <1>2

(* f starts with c, and F[n] makes f[n + 1] of f[n] *)
StepsIn(F, S) == F \in [Nat -> [S -> S]]
Recurses(f, S, c, F) ==
    /\ f \in [Nat -> S]
    /\ f[0] = c
    /\ \A n \in Nat : f[n+1] = F[n][f[n]]

(* The values up to any number exist, and are the same however far one goes *)
LEMMA Recursion ==
    ASSUME NEW S, NEW c \in S, NEW F, StepsIn(F, S)
    PROVE  \E f : Recurses(f, S, c, F)
<1>. F \in [Nat -> [S -> S]]  BY DEF StepsIn
<1>. DEFINE Good(n, h) == h[0] = c /\ \A i \in 0 .. n-1 : h[i+1] = F[i][h[i]]
            T == {n \in Nat : \E h \in [0 .. n -> S] : Good(n, h)}
<1>1. 0 \in T
  <2>1. [i \in 0 .. 0 |-> c] \in [0 .. 0 -> S] /\ Good(0, [i \in 0 .. 0 |-> c])
    OBVIOUS
  <2>. QED  BY <2>1
<1>2. ASSUME NEW n \in Nat, n \in T PROVE n + 1 \in T
  <2>1. PICK h \in [0 .. n -> S] : Good(n, h)  BY <1>2
  <2>. DEFINE g == [i \in 0 .. n+1 |-> IF i = n + 1 THEN F[n][h[n]] ELSE h[i]]
  <2>2. g \in [0 .. n+1 -> S]  OBVIOUS
  <2>3. Good(n+1, g)
    <3>1. (\A i \in 0 .. n : g[i] = h[i]) /\ g[n+1] = F[n][h[n]]  OBVIOUS
    <3>. HIDE DEF g
    <3>. QED  BY <3>1, <2>1
  <2>. HIDE DEF g, Good
  <2>. QED  BY <2>2, <2>3
<1>3. Nat \subseteq T
  <2>. HIDE DEF T
  <2>. QED  BY <1>1, <1>2, Induction
<1>4. ASSUME NEW n \in Nat, NEW g \in [0 .. n -> S], NEW h \in [0 .. n+1 -> S],
             Good(n, g), Good(n+1, h)
      PROVE g[n] = h[n]
  <2>. DEFINE U == {i \in Nat : i <= n => g[i] = h[i]}
  <2>1. 0 \in U  BY <1>4
  <2>2. ASSUME NEW i \in Nat, i \in U PROVE i + 1 \in U  BY <2>2, <1>4
  <2>3. Nat \subseteq U
    <3>. HIDE DEF U
    <3>. QED  BY <2>1, <2>2, Induction
  <2>. QED  BY <2>3
<1>. DEFINE H(n) == CHOOSE h \in [0 .. n -> S] : Good(n, h)
            f == [n \in Nat |-> H(n)[n]]
<1>5. \A n \in Nat : H(n) \in [0 .. n -> S] /\ Good(n, H(n))
  <2>. HIDE DEF Good
  <2>. QED  BY <1>3
<1>6. f \in [Nat -> S]
  <2>. HIDE DEF H, Good
  <2>. QED  BY <1>5
<1>7. f[0] = c  BY <1>5
<1>8. ASSUME NEW n \in Nat PROVE f[n+1] = F[n][f[n]]
  <2>. HIDE DEF H
  <2>1. f[n+1] = H(n+1)[n+1] /\ f[n] = H(n)[n]  OBVIOUS
  <2>2. H(n+1)[n+1] = F[n][H(n+1)[n]]  BY <1>5
  <2>3. H(n)[n] = H(n+1)[n]
    <3>. HIDE DEF Good
    <3>1. n + 1 \in Nat  OBVIOUS
    <3>2. H(n) \in [0 .. n -> S] /\ Good(n, H(n))  BY <1>5
    <3>3. H(n+1) \in [0 .. n+1 -> S] /\ Good(n+1, H(n+1))  BY <1>5, <3>1
    <3>. QED  BY <1>4, <3>2, <3>3
  <2>. QED  BY <2>1, <2>2, <2>3
<1>. QED  BY <1>6, <1>7, <1>8 DEF Recurses

(* Induction over a measure *)
LEMMA MeasureInduction ==
    ASSUME NEW D, NEW mu \in [D -> Nat], NEW T,
           \A v \in D : (\A w \in D : mu[w] < mu[v] => w \in T) => v \in T
    PROVE  D \subseteq T
<1>. DEFINE U == {n \in Nat : \A v \in D : mu[v] < n => v \in T}
<1>1. 0 \in U  OBVIOUS
<1>2. ASSUME NEW n \in Nat, n \in U PROVE n + 1 \in U
  <2>1. SUFFICES ASSUME NEW v \in D, mu[v] < n + 1 PROVE v \in T
    OBVIOUS
  <2>2. \A w \in D : mu[w] < mu[v] => mu[w] < n  BY <2>1
  <2>3. \A w \in D : mu[w] < mu[v] => w \in T  BY <1>2, <2>2
  <2>. QED  BY <2>3
<1>3. Nat \subseteq U
  <2>. HIDE DEF U
  <2>. QED  BY <1>1, <1>2, Induction
<1>4. ASSUME NEW v \in D PROVE v \in T
  <2>1. mu[v] + 1 \in U /\ mu[v] < mu[v] + 1  BY <1>3
  <2>. QED  BY <2>1
<1>. QED  BY <1>4

(* f is base on B; elsewhere F[v] makes it from the value at d[v], and d     *)
(* comes closer to B                                                         *)
Falls(d, mu, D, B) ==
    /\ mu \in [D -> Nat]
    /\ \A v \in D \ B : d[v] \in D /\ mu[d[v]] < mu[v]
BuildsOn(base, F, D, S) == base \in [D -> S] /\ F \in [D -> [S -> S]]
Unfolds(f, D, S, B, base, F, d) ==
    /\ f \in [D -> S]
    /\ \A v \in D : f[v] = IF v \in B THEN base[v] ELSE F[v][f[d[v]]]

(* Such a function exists: G[n] is right wherever d is n steps from B or less *)
LEMMA FallingRecursion ==
    ASSUME NEW D, NEW S, NEW B, NEW base, NEW F, NEW d, NEW mu,
           Falls(d, mu, D, B), BuildsOn(base, F, D, S)
    PROVE  \E f : Unfolds(f, D, S, B, base, F, d)
<1>. mu \in [D -> Nat] /\ base \in [D -> S] /\ F \in [D -> [S -> S]]
  BY DEF Falls, BuildsOn
<1>0. \A v \in D \ B : d[v] \in D /\ mu[d[v]] < mu[v]  BY DEF Falls
<1>. DEFINE Maps == [D -> S]
            Next(g) == [v \in D |-> IF v \in B THEN base[v] ELSE F[v][g[d[v]]]]
            N == [n \in Nat |-> [g \in Maps |-> Next(g)]]
<1>1. \A g \in Maps : Next(g) \in Maps
  <2>1. SUFFICES ASSUME NEW g \in Maps, NEW v \in D \ B PROVE F[v][g[d[v]]] \in S
    OBVIOUS
  <2>. QED  BY <1>0
<1>. HIDE DEF Maps
<1>2. N \in [Nat -> [Maps -> Maps]]
  <2>. HIDE DEF Next
  <2>. QED  BY <1>1
<1>3. \A n \in Nat, g \in Maps : N[n][g] = Next(g)  OBVIOUS
<1>. HIDE DEF N
<1>4. PICK G : Recurses(G, Maps, base, N)
  <2>1. StepsIn(N, Maps) /\ base \in Maps  BY <1>2 DEF StepsIn, Maps
  <2>. QED  BY <2>1, Recursion
<1>5. G \in [Nat -> Maps] /\ \A n \in Nat : G[n + 1] = Next(G[n])
  <2>1. G \in [Nat -> Maps] /\ \A n \in Nat : G[n + 1] = N[n][G[n]]
    BY <1>4 DEF Recurses
  <2>2. \A n \in Nat : G[n] \in Maps  BY <2>1
  <2>. HIDE DEF Next
  <2>. QED  BY <1>3, <2>1, <2>2
<1>6. \A n \in Nat, v \in D :
         G[n + 1][v] = IF v \in B THEN base[v] ELSE F[v][G[n][d[v]]]
  <2>1. ASSUME NEW n \in Nat, NEW v \in D
        PROVE  G[n + 1][v] = IF v \in B THEN base[v] ELSE F[v][G[n][d[v]]]
    <3>1. G[n + 1] = Next(G[n])  BY <1>5
    <3>. QED  BY <3>1
  <2>. QED  BY <2>1
<1>. DEFINE T == {n \in Nat : \A v \in D : mu[v] < n => G[n][v] = G[n + 1][v]}
<1>7. 0 \in T  OBVIOUS
<1>8. ASSUME NEW n \in Nat, n \in T PROVE n + 1 \in T
  <2>1. SUFFICES ASSUME NEW v \in D, mu[v] < n + 1 PROVE G[n + 1][v] = G[n + 1 + 1][v]
    OBVIOUS
  <2>2. CASE v \in B
    <3>1. G[n + 1][v] = base[v]  BY <1>6, <2>2
    <3>2. n + 1 \in Nat  OBVIOUS
    <3>3. G[n + 1 + 1][v] = base[v]  BY <1>6, <2>2, <3>2
    <3>. QED  BY <3>1, <3>3
  <2>3. CASE v \notin B
    <3>1. d[v] \in D /\ mu[d[v]] < n  BY <1>0, <2>1, <2>3
    <3>2. G[n][d[v]] = G[n + 1][d[v]]  BY <1>8, <3>1
    <3>. QED  BY <1>6, <2>3, <3>2
  <2>. QED  BY <2>2, <2>3
<1>9. Nat \subseteq T
  <2>. HIDE DEF T
  <2>. QED  BY <1>7, <1>8, Induction
<1>10. ASSUME NEW v \in D, NEW m \in Nat, mu[v] < m PROVE \A k \in Nat : G[m][v] = G[m + k][v]
  <2>. DEFINE U == {k \in Nat : G[m][v] = G[m + k][v]}
  <2>1. 0 \in U  OBVIOUS
  <2>2. ASSUME NEW k \in Nat, k \in U PROVE k + 1 \in U
    <3>1. m + k \in T /\ mu[v] < m + k /\ m + (k + 1) = m + k + 1  BY <1>9, <1>10
    <3>. QED  BY <2>2, <3>1
  <2>3. Nat \subseteq U
    <3>. HIDE DEF U
    <3>. QED  BY <2>1, <2>2, Induction
  <2>. QED  BY <2>3
<1>. DEFINE f == [v \in D |-> G[mu[v] + 1][v]]
<1>11. f \in [D -> S]  BY <1>5 DEF Maps
<1>12. ASSUME NEW v \in D PROVE f[v] = IF v \in B THEN base[v] ELSE F[v][f[d[v]]]
  <2>1. CASE v \in B  BY <1>6, <2>1
  <2>2. CASE v \notin B
    <3>1. d[v] \in D /\ mu[d[v]] < mu[v]  BY <1>0, <2>2
    <3>2. PICK n \in Nat, k \in Nat : n = mu[d[v]] + 1 /\ mu[v] = n + k
      <4>1. mu[d[v]] + 1 \in Nat /\ mu[v] - (mu[d[v]] + 1) \in Nat
            /\ mu[v] = (mu[d[v]] + 1) + (mu[v] - (mu[d[v]] + 1))
        BY <3>1
      <4>. QED  BY <4>1
    <3>3. mu[d[v]] < n  BY <3>1, <3>2
    <3>4. G[n][d[v]] = G[n + k][d[v]]  BY <1>10, <3>1, <3>3
    <3>5. f[d[v]] = G[mu[v]][d[v]]  BY <3>1, <3>2, <3>4
    <3>6. f[v] = F[v][G[mu[v]][d[v]]]  BY <1>6, <2>2
    <3>. HIDE DEF f
    <3>. QED  BY <2>2, <3>5, <3>6
  <2>. QED  BY <2>1, <2>2
<1>. HIDE DEF f
<1>. QED  BY <1>11, <1>12 DEF Unfolds

-----------------------------------------------------------------------------
(* Powers of two: the number of subsets of a set of n elements is 2^n *)
LEMMA PowerStep ==
    ASSUME NEW n \in Nat
    PROVE  2^n \in Nat /\ 2^(n+1) = 2^n + 2^n
<1>. DEFINE S == 1 .. n
            x == n + 1
            A == SUBSET S
            B == {s \cup {x} : s \in A}
<1>1. IsFiniteSet(S) /\ Cardinality(S) = n  BY FS_Interval
<1>2. IsFiniteSet(1 .. n+1) /\ Cardinality(1 .. n+1) = n + 1  BY FS_Interval
<1>3. IsFiniteSet(A) /\ Cardinality(A) = 2^n  BY <1>1, FS_SUBSET
<1>4. Cardinality(SUBSET (1 .. n+1)) = 2^(n+1)  BY <1>2, FS_SUBSET
<1>5. SUBSET (1 .. n+1) = A \cup B
  <2>1. ASSUME NEW s \in SUBSET (1 .. n+1) PROVE s \in A \cup B
    <3>1. CASE x \in s
      <4>1. s \ {x} \in A /\ s = (s \ {x}) \cup {x}  BY <3>1
      <4>. QED  BY <4>1
    <3>2. CASE x \notin s  BY <3>2
    <3>. QED  BY <3>1, <3>2
  <2>2. A \cup B \subseteq SUBSET (1 .. n+1)
    <3>1. S \subseteq 1 .. n+1 /\ x \in 1 .. n+1  OBVIOUS
    <3>. HIDE DEF S, x
    <3>. QED  BY <3>1
  <2>. HIDE DEF A, B
  <2>. QED  BY <2>1, <2>2
<1>6. A \cap B = {}  OBVIOUS
<1>7. IsFiniteSet(B) /\ Cardinality(B) = Cardinality(A)
  <2>. DEFINE f == [s \in A |-> s \cup {x}]
  <2>1. f \in Bijection(A, B)
    <3>1. f \in [A -> B]  OBVIOUS
    <3>2. \A s, t \in A : f[s] = f[t] => s = t
      <4>. SUFFICES ASSUME NEW s \in A, NEW t \in A, s \cup {x} = t \cup {x} PROVE s = t
        OBVIOUS
      <4>1. x \notin s /\ x \notin t  OBVIOUS
      <4>. QED  BY <4>1
    <3>3. \A b \in B : \E s \in A : f[s] = b  OBVIOUS
    <3>. QED  BY <3>1, <3>2, <3>3 DEF Bijection, Injection, Surjection, IsInjective
  <2>. QED  BY <2>1, <1>3, FS_Bijection DEF ExistsBijection
<1>8. Cardinality(A \cap B) = 0  BY <1>6, FS_EmptySet
<1>9. 2^n \in Nat  BY <1>3, FS_CardinalityType
<1>10. Cardinality(A \cup B) = Cardinality(A) + Cardinality(B) - Cardinality(A \cap B)
  BY <1>3, <1>7, FS_Union
<1>. HIDE DEF A, B
<1>11. PICK a : a = 2^n  OBVIOUS
<1>12. PICK b : b = 2^(n+1)  OBVIOUS
<1>13. a \in Nat /\ Cardinality(A) = a /\ Cardinality(B) = a  BY <1>3, <1>7, <1>9, <1>11
<1>14. Cardinality(A \cup B) = b  BY <1>4, <1>5, <1>12
<1>15. b = a + a  BY <1>8, <1>10, <1>13, <1>14
<1>. QED  BY <1>11, <1>12, <1>13, <1>15

LEMMA PowerOfTwo == \A n \in Nat : 2^n \in Nat \ {0}
<1>. DEFINE T == {n \in Nat : 2^n \in Nat \ {0}}
<1>1. 0 \in T
  <2>1. 2^0 = 1  OBVIOUS
  <2>. QED  BY <2>1
<1>2. ASSUME NEW n \in Nat, n \in T PROVE n + 1 \in T
  <2>. PICK a : a = 2^n  OBVIOUS
  <2>. PICK b : b = 2^(n+1)  OBVIOUS
  <2>1. a \in Nat \ {0} /\ b = a + a  BY <1>2, PowerStep
  <2>. QED  BY <2>1
<1>3. Nat \subseteq T
  <2>. HIDE DEF T
  <2>. QED  BY <1>1, <1>2, Induction
<1>. QED  BY <1>3

LEMMA PowerSum ==
    ASSUME NEW m \in Nat
    PROVE  \A n \in Nat : 2^(m + n) = 2^m * 2^n
<1>. DEFINE T == {n \in Nat : 2^(m + n) = 2^m * 2^n}
<1>. PICK a : a = 2^m  OBVIOUS
<1>a. a \in Nat  BY PowerOfTwo
<1>1. 0 \in T
  <2>1. 2^0 = 1 /\ m + 0 = m  OBVIOUS
  <2>. QED  BY <2>1, <1>a
<1>2. ASSUME NEW n \in Nat, n \in T PROVE n + 1 \in T
  <2>1. PICK b : b = 2^n  OBVIOUS
  <2>2. PICK c : c = 2^(m + n)  OBVIOUS
  <2>3. b \in Nat /\ c \in Nat /\ c = a * b  BY <1>2, <2>1, <2>2, PowerOfTwo
  <2>4. 2^(n+1) = b + b  BY <2>1, PowerStep
  <2>5. 2^(m + n + 1) = c + c  BY <2>2, PowerStep
  <2>6. a * (b + b) = c + c  BY <1>a, <2>3
  <2>7. m + (n + 1) = m + n + 1  OBVIOUS
  <2>. QED  BY <2>4, <2>5, <2>6, <2>7
<1>3. Nat \subseteq T
  <2>. HIDE DEF T
  <2>. QED  BY <1>1, <1>2, Induction
<1>. QED  BY <1>3

-----------------------------------------------------------------------------
(* Division *)
LEMMA DivisionUnique ==
    ASSUME NEW w \in Nat \ {0}, NEW q \in Nat, NEW r \in 0 .. w - 1
    PROVE  (w * q + r) \div w = q /\ (w * q + r) % w = r
  OBVIOUS

LEMMA Division ==
    ASSUME NEW w \in Nat \ {0}, NEW g \in Nat
    PROVE  /\ g \div w \in Nat /\ g % w \in 0 .. w - 1
           /\ g = w * (g \div w) + (g % w)
<1>. DEFINE T == {n \in Nat : \E q \in Nat, r \in 0 .. w - 1 : n = w * q + r}
<1>1. 0 \in T
  <2>1. 0 = w * 0 + 0 /\ 0 \in 0 .. w - 1  OBVIOUS
  <2>. QED  BY <2>1
<1>2. ASSUME NEW n \in Nat, n \in T PROVE n + 1 \in T
  <2>1. PICK q \in Nat, r \in 0 .. w - 1 : n = w * q + r  BY <1>2
  <2>2. CASE r = w - 1
    <3>1. w * (q + 1) = w * q + w /\ w * q \in Nat  OBVIOUS
    <3>2. n + 1 = w * (q + 1) + 0  BY <2>1, <2>2, <3>1
    <3>3. q + 1 \in Nat /\ 0 \in 0 .. w - 1  OBVIOUS
    <3>4. \E p \in Nat, s \in 0 .. w - 1 : n + 1 = w * p + s
      <4>. WITNESS q + 1 \in Nat, 0 \in 0 .. w - 1
      <4>. QED  BY <3>2
    <3>. QED  BY <3>4
  <2>3. CASE r # w - 1
    <3>1. n + 1 = w * q + (r + 1) /\ r + 1 \in 0 .. w - 1  BY <2>1, <2>3
    <3>. QED  BY <3>1
  <2>. QED  BY <2>2, <2>3
<1>3. Nat \subseteq T
  <2>. HIDE DEF T
  <2>. QED  BY <1>1, <1>2, Induction
<1>4. PICK q \in Nat, r \in 0 .. w - 1 : g = w * q + r  BY <1>3
<1>5. g \div w = q /\ g % w = r  BY <1>4, DivisionUnique
<1>6. g \div w \in Nat /\ g % w \in 0 .. w - 1  BY <1>5
<1>7. g = w * (g \div w) + (g % w)
  <2>1. w * (g \div w) = w * q  BY <1>5
  <2>. QED  BY <1>4, <1>5, <2>1
<1>. QED  BY <1>6, <1>7

LEMMA DivisionMonotone ==
    ASSUME NEW w \in Nat \ {0}, NEW g \in Nat, NEW h \in Nat, g <= h
    PROVE  g \div w <= h \div w
  OBVIOUS

-----------------------------------------------------------------------------
(* The least and the greatest of a set of numbers are in it *)
LEMMA MinIsLeast ==
    ASSUME NEW S \in SUBSET Nat, S # {}
    PROVE  /\ (CHOOSE x \in S : \A y \in S : x =< y) \in S
           /\ \A y \in S : (CHOOSE x \in S : \A z \in S : x =< z) <= y
  BY LeastElement

LEMMA MaxIsGreatest ==
    ASSUME NEW b \in Nat, NEW S \in SUBSET (0 .. b), S # {}
    PROVE  /\ (CHOOSE x \in S : \A y \in S : x >= y) \in S
           /\ \A y \in S : (CHOOSE x \in S : \A z \in S : x >= z) >= y
<1>. DEFINE T == {b - x : x \in S}
<1>1. T \subseteq Nat /\ T # {}
  <2>1. \A x \in S : b - x \in Nat  OBVIOUS
  <2>. QED  BY <2>1
<1>2. PICK m \in T : \A k \in T : m <= k  BY <1>1, LeastElement
<1>3. PICK x \in S : m = b - x  BY <1>2
<1>4. \A y \in S : x >= y
  <2>1. TAKE y \in S
  <2>2. b - x <= b - y  BY <1>2, <1>3
  <2>. QED  BY <2>2
<1>. QED  BY <1>4

(* Ordered(S) has each element of S once, in order *)
LEMMA RankBijection ==
    ASSUME NEW S \in SUBSET Nat, IsFiniteSet(S)
    PROVE  /\ Cardinality(S) \in Nat
           /\ \A x \in S : Cardinality({y \in S : y < x}) \in 0 .. Cardinality(S) - 1
           /\ \A x, z \in S : x < z =>
                Cardinality({y \in S : y < x}) < Cardinality({y \in S : y < z})
           /\ \A k \in 0 .. Cardinality(S) - 1 :
                \E x \in S : Cardinality({y \in S : y < x}) = k
<1>. DEFINE Below(x) == {y \in S : y < x}
            n == Cardinality(S)
            rank == [x \in S |-> Cardinality(Below(x))]
<1>1. n \in Nat  BY FS_CardinalityType
<1>2. \A x \in S : IsFiniteSet(Below(x)) /\ Cardinality(Below(x)) \in 0 .. n - 1
  <2>1. TAKE x \in S
  <2>2. Below(x) \subseteq S /\ Below(x) # S  OBVIOUS
  <2>3. /\ IsFiniteSet(Below(x)) /\ Cardinality(Below(x)) <= n
        /\ Cardinality(Below(x)) = n => Below(x) = S
    BY <2>2, FS_Subset
  <2>4. Cardinality(Below(x)) \in Nat  BY <2>3, FS_CardinalityType
  <2>. HIDE DEF Below, n
  <2>. QED  BY <1>1, <2>2, <2>3, <2>4
<1>3. \A x, z \in S : x < z => Cardinality(Below(x)) < Cardinality(Below(z))
  <2>1. SUFFICES ASSUME NEW x \in S, NEW z \in S, x < z
                 PROVE  Cardinality(Below(x)) < Cardinality(Below(z))
    OBVIOUS
  <2>2. Below(x) \subseteq Below(z) /\ x \in Below(z) /\ x \notin Below(x)
    <3>1. \A y \in S : y \in Nat  OBVIOUS
    <3>2. \A y \in S : y < x => y < z  BY <2>1, <3>1
    <3>3. ~(x < x)  BY <3>1
    <3>. QED  BY <2>1, <3>2, <3>3
  <2>3. IsFiniteSet(Below(z)) /\ Cardinality(Below(z)) \in Nat /\ Cardinality(Below(x)) \in Nat
    BY <1>2
  <2>4. /\ Cardinality(Below(x)) <= Cardinality(Below(z))
        /\ Cardinality(Below(x)) = Cardinality(Below(z)) => Below(x) = Below(z)
    BY <2>2, <2>3, FS_Subset
  <2>. HIDE DEF Below
  <2>. QED  BY <2>2, <2>3, <2>4
<1>4. \A k \in 0 .. n - 1 : \E x \in S : Cardinality(Below(x)) = k
  <2>1. rank \in [S -> 0 .. n - 1]  BY <1>2
  <2>2. \A x, z \in S : rank[x] = rank[z] => x = z
    <3>. SUFFICES ASSUME NEW x \in S, NEW z \in S, Cardinality(Below(x)) = Cardinality(Below(z))
                  PROVE  x = z
      OBVIOUS
    <3>. PICK a : a = Cardinality(Below(x))  OBVIOUS
    <3>1. a \in Nat  BY <1>2
    <3>. HIDE DEF Below
    <3>2. ~(x < z) /\ ~(z < x)  BY <1>3, <3>1
    <3>. QED  BY <3>2
  <2>3. IsFiniteSet(0 .. n - 1) /\ Cardinality(0 .. n - 1) = n
    <3>1. n - 1 \in Int  BY <1>1
    <3>2. IsFiniteSet(0 .. n - 1) /\ Cardinality(0 .. n - 1) =
              IF 0 > n - 1 THEN 0 ELSE n - 1 - 0 + 1
      BY <3>1, FS_Interval
    <3>. QED  BY <1>1, <3>2
  <2>4. rank \in Injection(S, 0 .. n - 1)
    BY <2>1, <2>2 DEF Injection, IsInjective
  <2>5. rank \in Surjection(S, 0 .. n - 1)
    BY <2>3, <2>4, FS_Injection DEF ExistsInjection
  <2>6. \A k \in 0 .. n - 1 : \E x \in S : rank[x] = k
    BY <2>5 DEF Surjection
  <2>. QED  BY <2>6
<1>. QED  BY <1>1, <1>2, <1>3, <1>4

LEMMA OrderedIs ==
    ASSUME NEW S \in SUBSET Nat, IsFiniteSet(S)
    PROVE  /\ Ordered(S) \in [1 .. Cardinality(S) -> S]
           /\ \A i, k \in 1 .. Cardinality(S) : i < k => Ordered(S)[i] < Ordered(S)[k]
           /\ \A x \in S : \E k \in 1 .. Cardinality(S) : Ordered(S)[k] = x
<1>. DEFINE n == Cardinality(S)
            rank(x) == Cardinality({y \in S : y < x})
<1>1. /\ n \in Nat /\ \A x \in S : rank(x) \in 0 .. n - 1
      /\ \A x, z \in S : x < z => rank(x) < rank(z)
      /\ \A k \in 0 .. n - 1 : \E x \in S : rank(x) = k
  BY RankBijection
<1>2. DOMAIN Ordered(S) = 1 .. n /\ \A k \in 1 .. n : Ordered(S)[k] = Nth(S, k - 1)
  BY DEF Ordered
<1>3. \A k \in 0 .. n - 1 : Nth(S, k) \in S /\ rank(Nth(S, k)) = k
  BY <1>1 DEF Nth
<1>. HIDE DEF n, rank
<1>4. \A k \in 1 .. n : Ordered(S)[k] \in S /\ rank(Ordered(S)[k]) = k - 1
  BY <1>1, <1>2, <1>3
<1>5. Ordered(S) \in [1 .. n -> S]
  BY <1>2, <1>4 DEF Ordered, n
<1>6. ASSUME NEW i \in 1 .. n, NEW k \in 1 .. n, i < k PROVE Ordered(S)[i] < Ordered(S)[k]
  <2>1. PICK a \in S : a = Ordered(S)[i]  BY <1>4
  <2>2. PICK b \in S : b = Ordered(S)[k]  BY <1>4
  <2>3. rank(a) = i - 1 /\ rank(b) = k - 1  BY <1>4, <2>1, <2>2
  <2>4. ~(b < a) /\ a # b  BY <1>1, <1>6, <2>3
  <2>. QED  BY <2>1, <2>2, <2>4
<1>7. ASSUME NEW x \in S PROVE \E k \in 1 .. n : Ordered(S)[k] = x
  <2>1. PICK k \in 1 .. n : k = rank(x) + 1  BY <1>1
  <2>2. PICK a \in S : a = Ordered(S)[k]  BY <1>4
  <2>3. rank(a) = rank(x)  BY <1>1, <1>4, <2>1, <2>2
  <2>4. ~(a < x) /\ ~(x < a)  BY <1>1, <2>3
  <2>. QED  BY <2>2, <2>4
<1>. QED  BY <1>5, <1>6, <1>7 DEF n

(* A sequence of the elements of S in ascending order *)
Enumerates(s, S) ==
    /\ s \in Seq(S)
    /\ \A i, k \in 1 .. Len(s) : i < k => s[i] < s[k]
    /\ \A x \in S : \E k \in 1 .. Len(s) : s[k] = x

(* Ordered(S) is the only one *)
LEMMA OrderedIsOnly ==
    ASSUME NEW S \in SUBSET Nat, IsFiniteSet(S), NEW s, Enumerates(s, S)
    PROVE  s = Ordered(S)
<1>0. PICK n \in Nat : n = Len(s)  BY DEF Enumerates
<1>. /\ s \in [1 .. n -> S] /\ \A i, k \in 1 .. n : i < k => s[i] < s[k]
     /\ \A x \in S : \E k \in 1 .. n : s[k] = x
  BY <1>0 DEF Enumerates
<1>1. ASSUME NEW i \in 1 .. n, NEW k \in 1 .. n, s[i] = s[k] PROVE i = k
  <2>1. s[i] \in Nat /\ s[k] \in Nat  OBVIOUS
  <2>2. ~(i < k) /\ ~(k < i)  BY <1>1, <2>1
  <2>. QED  BY <2>2
<1>2. Cardinality(S) = n
  <2>1. s \in Bijection(1 .. n, S)
    BY <1>1 DEF Bijection, Injection, Surjection, IsInjective
  <2>2. IsFiniteSet(1 .. n) /\ Cardinality(1 .. n) = n  BY FS_Interval
  <2>. QED  BY <2>1, <2>2, FS_Bijection DEF ExistsBijection
<1>3. ASSUME NEW k \in 1 .. n PROVE Nth(S, k - 1) = s[k]
  <2>1. \A j \in 1 .. n : Cardinality({y \in S : y < s[j]}) = j - 1
    <3>1. TAKE j \in 1 .. n
    <3>. DEFINE B == {y \in S : y < s[j]}
                f == [i \in 1 .. j - 1 |-> s[i]]
    <3>2. \A i \in 1 .. n : s[i] < s[j] <=> i < j
      <4>1. \A i \in 1 .. n : s[i] \in Nat /\ (j < i => s[j] < s[i])  OBVIOUS
      <4>. QED  BY <4>1
    <3>3. f \in Bijection(1 .. j - 1, B)
      <4>1. f \in [1 .. j - 1 -> B]  BY <3>2
      <4>2. \A i, k2 \in 1 .. j - 1 : f[i] = f[k2] => i = k2  BY <1>1
      <4>3. \A y \in B : \E i \in 1 .. j - 1 : f[i] = y
        <5>1. TAKE y \in B
        <5>2. PICK i \in 1 .. n : s[i] = y  OBVIOUS
        <5>3. i \in 1 .. j - 1  BY <3>2, <5>2
        <5>. QED  BY <5>2, <5>3
      <4>. HIDE DEF f, B
      <4>. QED  BY <4>1, <4>2, <4>3 DEF Bijection, Injection, Surjection, IsInjective
    <3>4. IsFiniteSet(1 .. j - 1) /\ Cardinality(1 .. j - 1) = j - 1  BY FS_Interval
    <3>. HIDE DEF f, B
    <3>5. Cardinality(B) = j - 1  BY <3>3, <3>4, FS_Bijection DEF ExistsBijection
    <3>. QED  BY <3>5 DEF B
  <2>2. \A x \in S : Cardinality({y \in S : y < x}) = k - 1 => x = s[k]
    <3>1. TAKE x \in S
    <3>2. PICK j \in 1 .. n : s[j] = x  OBVIOUS
    <3>. QED  BY <2>1, <3>2
  <2>3. s[k] \in S /\ Cardinality({y \in S : y < s[k]}) = k - 1  BY <2>1
  <2>. QED  BY <2>2, <2>3 DEF Nth
<1>. QED  BY <1>2, <1>3 DEF Ordered

LEMMA EnumerationIs ==
    ASSUME NEW S \in SUBSET Nat, IsFiniteSet(S), NEW s, Enumerates(s, S)
    PROVE  s = Ordered(S) /\ (s = <<>> <=> S = {})
<1>1. s \in Seq(S)  BY DEF Enumerates
<1>2. Len(s) \in Nat /\ s \in [1 .. Len(s) -> S]  BY <1>1
<1>3. s = Ordered(S)  BY OrderedIsOnly
<1>4. s = <<>> <=> S = {}
  <2>1. ASSUME s = <<>> PROVE S = {}
    <3>1. Len(s) = 0  BY <2>1
    <3>. QED  BY <3>1 DEF Enumerates
  <2>2. ASSUME S = {} PROVE s = <<>>
    <3>1. Len(s) = 0
      <4>1. SUFFICES ASSUME 1 \in 1 .. Len(s) PROVE FALSE  BY <1>2
      <4>. QED  BY <1>2, <2>2, <4>1
    <3>. QED  BY <1>1, <3>1
  <2>. QED  BY <2>1, <2>2
<1>. QED  BY <1>3, <1>4

(* one more element, greater than all, comes last *)
LEMMA EnumerationAppends ==
    ASSUME NEW S \in SUBSET Nat, NEW s, Enumerates(s, S), NEW x \in Nat, \A y \in S : y < x
    PROVE  Enumerates(Append(s, x), S \cup {x})
<1>. DEFINE T == S \cup {x}
            t == Append(s, x)
<1>1. s \in Seq(S) /\ s \in Seq(T) /\ Len(s) \in Nat  BY DEF Enumerates
<1>2. /\ t \in Seq(T) /\ Len(t) = Len(s) + 1 /\ t[Len(s) + 1] = x
      /\ \A i \in 1 .. Len(s) : t[i] = s[i] /\ s[i] \in S
  BY <1>1
<1>. HIDE DEF t
<1>3. ASSUME NEW i \in 1 .. Len(t), NEW k \in 1 .. Len(t), i < k PROVE t[i] < t[k]
  <2>1. i \in 1 .. Len(s)  BY <1>1, <1>2, <1>3
  <2>2. CASE k = Len(s) + 1  BY <1>2, <2>1, <2>2
  <2>3. CASE k # Len(s) + 1
    <3>1. k \in 1 .. Len(s)  BY <1>1, <1>2, <2>3
    <3>. QED  BY <1>2, <1>3, <2>1, <3>1 DEF Enumerates
  <2>. QED  BY <2>2, <2>3
<1>4. ASSUME NEW y \in T PROVE \E k \in 1 .. Len(t) : t[k] = y
  <2>1. CASE y = x
    <3>1. Len(s) + 1 \in 1 .. Len(t)  BY <1>1, <1>2
    <3>. QED  BY <1>2, <2>1, <3>1
  <2>2. CASE y \in S
    <3>1. PICK k \in 1 .. Len(s) : s[k] = y  BY <2>2 DEF Enumerates
    <3>2. k \in 1 .. Len(t)  BY <1>1, <1>2
    <3>. QED  BY <1>2, <3>1, <3>2
  <2>. QED  BY <2>1, <2>2
<1>. QED  BY <1>2, <1>3, <1>4 DEF Enumerates, t

LEMMA OneEnumerates ==
    ASSUME NEW x \in Nat
    PROVE  Enumerates(<<x>>, {x}) /\ Enumerates(<<>>, {})
BY DEF Enumerates

(* one more element, smaller than all, comes first *)
LEMMA EnumerationGrows ==
    ASSUME NEW S \in SUBSET Nat, NEW s, Enumerates(s, S), NEW x \in Nat, \A y \in S : x < y
    PROVE  Enumerates(<<x>> \o s, S \cup {x})
<1>. DEFINE T == S \cup {x}
            t == <<x>> \o s
<1>1. s \in Seq(S) /\ s \in Seq(T) /\ <<x>> \in Seq(T) /\ Len(s) \in Nat  BY DEF Enumerates
<1>2. /\ t \in Seq(T) /\ Len(t) = Len(s) + 1 /\ t[1] = x
      /\ \A i \in 1 .. Len(s) : t[i + 1] = s[i] /\ s[i] \in S
  BY <1>1
<1>. HIDE DEF t
<1>3. ASSUME NEW i \in 1 .. Len(t), NEW k \in 1 .. Len(t), i < k PROVE t[i] < t[k]
  <2>1. k - 1 \in 1 .. Len(s) /\ k = (k - 1) + 1  BY <1>1, <1>2, <1>3
  <2>2. t[k] = s[k - 1] /\ s[k - 1] \in S  BY <1>2, <2>1
  <2>3. CASE i = 1  BY <1>2, <2>2, <2>3
  <2>4. CASE i # 1
    <3>1. i - 1 \in 1 .. Len(s) /\ i = (i - 1) + 1 /\ i - 1 < k - 1  BY <1>1, <1>2, <1>3, <2>4
    <3>2. t[i] = s[i - 1]  BY <1>2, <3>1
    <3>. QED  BY <2>1, <2>2, <3>1, <3>2 DEF Enumerates
  <2>. QED  BY <2>3, <2>4
<1>4. ASSUME NEW y \in T PROVE \E k \in 1 .. Len(t) : t[k] = y
  <2>1. CASE y = x
    <3>1. 1 \in 1 .. Len(t)  BY <1>1, <1>2
    <3>. QED  BY <1>2, <2>1, <3>1
  <2>2. CASE y \in S
    <3>1. PICK k \in 1 .. Len(s) : s[k] = y  BY <2>2 DEF Enumerates
    <3>2. k + 1 \in 1 .. Len(t) /\ t[k + 1] = y  BY <1>1, <1>2, <3>1
    <3>. QED  BY <3>2
  <2>. QED  BY <2>1, <2>2
<1>. QED  BY <1>2, <1>3, <1>4 DEF Enumerates, t

-----------------------------------------------------------------------------
(* A sequence that lies within another one *)
Lies(part, s, at) ==
    /\ at \in Nat \ {0}
    /\ \A j \in 1 .. Len(part) : at + j - 1 \in 1 .. Len(s) /\ s[at + j - 1] = part[j]

LEMMA LiesInItself ==
    ASSUME NEW X, NEW s \in Seq(X)
    PROVE  Lies(s, s, 1)
<1>1. \A j \in 1 .. Len(s) : 1 + j - 1 = j  OBVIOUS
<1>. QED  BY <1>1 DEF Lies

LEMMA BothLie ==
    ASSUME NEW X, NEW p \in Seq(X), NEW q \in Seq(X), NEW s, NEW at, Lies(p \o q, s, at)
    PROVE  Lies(p, s, at) /\ Lies(q, s, at + Len(p))
<1>1. /\ Len(p) \in Nat /\ Len(q) \in Nat /\ Len(p \o q) = Len(p) + Len(q)
      /\ \A j \in 1 .. Len(p) : (p \o q)[j] = p[j]
      /\ \A j \in 1 .. Len(q) : (p \o q)[Len(p) + j] = q[j]
      /\ at \in Nat \ {0}
  BY DEF Lies
<1>2. Lies(p, s, at)
  <2>1. \A j \in 1 .. Len(p) : j \in 1 .. Len(p \o q)  BY <1>1
  <2>. QED  BY <1>1, <2>1 DEF Lies
<1>3. Lies(q, s, at + Len(p))
  <2>1. ASSUME NEW j \in 1 .. Len(q)
        PROVE  at + Len(p) + j - 1 \in 1 .. Len(s) /\ s[at + Len(p) + j - 1] = q[j]
    <3>1. PICK i \in 1 .. Len(p \o q) : i = Len(p) + j  BY <1>1
    <3>2. at + i - 1 \in 1 .. Len(s) /\ s[at + i - 1] = (p \o q)[i]  BY DEF Lies
    <3>3. at + i - 1 = at + Len(p) + j - 1 /\ (p \o q)[i] = q[j]  BY <1>1, <3>1
    <3>. QED  BY <3>2, <3>3
  <2>2. at + Len(p) \in Nat \ {0}  BY <1>1
  <2>. QED  BY <2>1, <2>2 DEF Lies
<1>. QED  BY <1>2, <1>3

LEMMA PartOfPart ==
    ASSUME NEW X, NEW q \in Seq(X), NEW p, NEW s, NEW at, NEW k, Lies(p, s, at), Lies(q, p, k)
    PROVE  Lies(q, s, at + k - 1)
<1>1. at \in Nat \ {0} /\ k \in Nat \ {0} /\ at + k - 1 \in Nat \ {0}  BY DEF Lies
<1>2. ASSUME NEW j \in 1 .. Len(q)
      PROVE  at + k - 1 + j - 1 \in 1 .. Len(s) /\ s[at + k - 1 + j - 1] = q[j]
  <2>1. k + j - 1 \in 1 .. Len(p) /\ p[k + j - 1] = q[j]  BY DEF Lies
  <2>2. PICK i \in 1 .. Len(p) : i = k + j - 1  BY <2>1
  <2>3. at + i - 1 \in 1 .. Len(s) /\ s[at + i - 1] = p[i]  BY DEF Lies
  <2>4. at + i - 1 = at + k - 1 + j - 1  BY <1>1, <2>2
  <2>. QED  BY <2>1, <2>2, <2>3, <2>4
<1>. QED  BY <1>1, <1>2 DEF Lies

(* The sequences that FlattenSeq puts together, as far as the i-th *)
UpTo(c, s, X) ==
    /\ c \in [0 .. Len(s) -> Seq(X)]
    /\ c[0] = <<>>
    /\ \A i \in 1 .. Len(s) : c[i] = c[i - 1] \o s[i]

LEMMA FlattenIs ==
    ASSUME NEW X, NEW s \in Seq(Seq(X))
    PROVE  \E c : UpTo(c, s, X) /\ FlattenSeq(s) = c[Len(s)]
<1>. DEFINE n == Len(s)
<1>1. n \in Nat /\ s \in [1 .. n -> Seq(X)]  OBVIOUS
<1>2. CASE n = 0
  <2>. DEFINE c == [i \in 0 .. 0 |-> <<>>]
  <2>1. s = <<>>  BY <1>2
  <2>2. FlattenSeq(s) = <<>>  BY <1>2, <2>1 DEF FlattenSeq
  <2>3. c \in [0 .. n -> Seq(X)] /\ c[0] = <<>> /\ 1 .. n = {} /\ c[n] = <<>>
    <3>1. <<>> \in Seq(X)  OBVIOUS
    <3>. QED  BY <1>2, <3>1
  <2>. HIDE DEF c
  <2>. QED  BY <2>2, <2>3 DEF UpTo
<1>3. CASE n # 0
  <2>. DEFINE D == 1 .. n
              Body(f) == [i \in D |-> IF i = 1 THEN s[i] ELSE f[i - 1] \o s[i]]
              flatten == CHOOSE f : f = Body(f)
              B == {1}
              base == [i \in D |-> s[i]]
              d == [i \in D |-> i - 1]
              mu == [i \in D |-> i]
              S == Seq(X)
              F == [i \in D |-> [t \in S |-> t \o s[i]]]
  <2>1. FlattenSeq(s) = flatten[n]  BY <1>3 DEF FlattenSeq
  <2>. HIDE DEF n
  <2>2. \A i \in D : i # 1 => i - 1 \in D /\ i - 1 < i  BY <1>1
  <2>3. Falls(d, mu, D, B)
    <3>1. mu \in [D -> Nat]  BY <1>1
    <3>. QED  BY <2>2, <3>1 DEF Falls
  <2>4. BuildsOn(base, F, D, S)
    <3>1. \A i \in D : s[i] \in S  BY <1>1
    <3>2. \A t \in S, u \in S : t \o u \in S  OBVIOUS
    <3>. HIDE DEF S, D
    <3>. QED  BY <3>1, <3>2 DEF BuildsOn
  <2>5. PICK f : Unfolds(f, D, S, B, base, F, d)
    <3>. HIDE DEF D, B, base, d, mu, S, F
    <3>. QED  BY <2>3, <2>4, FallingRecursion
  <2>6. f \in [D -> S] /\ f = Body(f)
    <3>1. f \in [D -> S] /\ \A i \in D : f[i] = IF i \in B THEN base[i] ELSE F[i][f[d[i]]]
      BY <2>5 DEF Unfolds
    <3>2. \A i \in D : i # 1 => f[i - 1] \in S  BY <2>2, <3>1
    <3>3. \A i \in D, t \in S : F[i][t] = t \o s[i]  OBVIOUS
    <3>4. \A i \in D : base[i] = s[i] /\ d[i] = i - 1  OBVIOUS
    <3>. HIDE DEF S, D, F, base, d
    <3>5. \A i \in D : f[i] = IF i = 1 THEN s[i] ELSE f[i - 1] \o s[i]
      <4>1. TAKE i \in D
      <4>2. CASE i = 1  BY <3>1, <3>4, <4>2
      <4>3. CASE i # 1
        <5>1. f[i] = F[i][f[i - 1]]  BY <3>1, <3>4, <4>3
        <5>. QED  BY <3>2, <3>3, <4>3, <5>1
      <4>. QED  BY <4>2, <4>3
    <3>. QED  BY <3>1, <3>5
  <2>7. flatten = Body(flatten)  BY <2>6
  <2>. HIDE DEF flatten
  <2>8. DOMAIN flatten = D /\ flatten[1] = s[1]
        /\ \A i \in D : i # 1 => flatten[i] = flatten[i - 1] \o s[i]
    <3>1. 1 \in D  BY <1>1, <1>3
    <3>. QED  BY <2>7, <3>1
  <2>. DEFINE T == {i \in Nat : i + 1 <= n => flatten[i + 1] \in S}
  <2>9. Nat \subseteq T
    <3>1. 0 \in T  BY <1>1, <1>3, <2>8
    <3>2. ASSUME NEW i \in Nat, i \in T PROVE i + 1 \in T
      <4>1. SUFFICES ASSUME i + 1 + 1 <= n PROVE flatten[i + 1 + 1] \in S
        OBVIOUS
      <4>2. flatten[i + 1] \in S  BY <1>1, <3>2, <4>1
      <4>3. i + 1 + 1 \in D /\ i + 1 + 1 # 1 /\ (i + 1 + 1) - 1 = i + 1  BY <1>1, <4>1
      <4>4. flatten[i + 1 + 1] = flatten[i + 1] \o s[i + 1 + 1]  BY <2>8, <4>3
      <4>5. s[i + 1 + 1] \in S  BY <1>1, <4>3
      <4>. QED  BY <4>2, <4>4, <4>5
    <3>. HIDE DEF T
    <3>. QED  BY <3>1, <3>2, Induction
  <2>10. flatten \in [D -> S]
    <3>1. ASSUME NEW i \in D PROVE flatten[i] \in S
      <4>1. i - 1 \in Nat /\ (i - 1) + 1 = i /\ i <= n  BY <1>1
      <4>2. i - 1 \in T
        <5>. HIDE DEF T
        <5>. QED  BY <2>9, <4>1
      <4>. QED  BY <4>1, <4>2
    <3>. QED  BY <2>7, <3>1
  <2>. DEFINE c == [i \in 0 .. n |-> IF i = 0 THEN <<>> ELSE flatten[i]]
  <2>11. c \in [0 .. n -> Seq(X)]  BY <1>1, <2>10
  <2>12. c[0] = <<>> /\ c[n] = flatten[n]  BY <1>1, <1>3
  <2>13. ASSUME NEW i \in 1 .. n PROVE c[i] = c[i - 1] \o s[i]
    <3>1. c[i] = flatten[i] /\ i \in D  BY <1>1
    <3>2. CASE i = 1
      <4>1. i - 1 = 0 /\ flatten[i] = s[i] /\ s[i] \in Seq(X)  BY <1>1, <2>8, <3>2
      <4>2. c[i - 1] = <<>>  BY <2>12, <4>1
      <4>3. <<>> \o s[i] = s[i]  BY <4>1
      <4>. QED  BY <3>1, <4>1, <4>2, <4>3
    <3>3. CASE i # 1
      <4>1. c[i - 1] = flatten[i - 1]  BY <1>1, <3>3
      <4>. QED  BY <2>8, <3>1, <3>3, <4>1
    <3>. QED  BY <3>2, <3>3
  <2>. HIDE DEF c
  <2>14. UpTo(c, s, X)  BY <2>11, <2>12, <2>13 DEF UpTo, n
  <2>. QED  BY <2>1, <2>12, <2>14 DEF n
<1>. QED  BY <1>2, <1>3

(* where the i-th of them lies *)
LEMMA PartsLie ==
    ASSUME NEW X, NEW s \in Seq(Seq(X)), NEW c, UpTo(c, s, X), NEW i \in 1 .. Len(s)
    PROVE  /\ Len(c[i]) = Len(c[i - 1]) + Len(s[i])
           /\ Lies(s[i], c[Len(s)], Len(c[i - 1]) + 1)
<1>. DEFINE n == Len(s)
            at == Len(c[i - 1]) + 1
            T == {k \in Nat : i + k <= n => Lies(s[i], c[i + k], at)}
<1>1. n \in Nat /\ s \in [1 .. n -> Seq(X)] /\ c \in [0 .. n -> Seq(X)] /\ i \in Nat
      /\ c[i - 1] \in Seq(X) /\ s[i] \in Seq(X) /\ c[i] = c[i - 1] \o s[i] /\ c[i] \in Seq(X)
  <2>1. n \in Nat /\ s \in [1 .. n -> Seq(X)] /\ c \in [0 .. n -> Seq(X)]  BY DEF UpTo
  <2>2. i \in Nat /\ i - 1 \in 0 .. n /\ i \in 0 .. n  BY <2>1
  <2>3. c[i] = c[i - 1] \o s[i]  BY DEF UpTo
  <2>. HIDE DEF n
  <2>. QED  BY <2>1, <2>2, <2>3 DEF n
<1>2. Len(c[i - 1]) \in Nat /\ at \in Nat \ {0}  BY <1>1
<1>3. 0 \in T
  <2>1. Lies(c[i], c[i], 1)  BY <1>1, LiesInItself
  <2>2. Lies(s[i], c[i], 1 + Len(c[i - 1]))  BY <1>1, <2>1, BothLie
  <2>3. i + 0 = i /\ 1 + Len(c[i - 1]) = at  BY <1>1, <1>2
  <2>. QED  BY <2>2, <2>3
<1>4. ASSUME NEW k \in Nat, k \in T PROVE k + 1 \in T
  <2>1. SUFFICES ASSUME i + (k + 1) <= n PROVE Lies(s[i], c[i + (k + 1)], at)
    OBVIOUS
  <2>. HIDE DEF n, at
  <2>2. PICK m \in 0 .. n - 1 : m = i + k  BY <1>1, <2>1
  <2>3. Lies(s[i], c[m], at)  BY <1>1, <1>4, <2>2
  <2>4. m + 1 \in 1 .. n /\ (m + 1) - 1 = m /\ i + (k + 1) = m + 1  BY <1>1, <2>2
  <2>5. c[m + 1] = c[m] \o s[m + 1] /\ c[m] \in Seq(X) /\ s[m + 1] \in Seq(X)
        /\ c[m + 1] \in Seq(X)
    <3>1. \A j \in 1 .. n : c[j] = c[j - 1] \o s[j]  BY DEF UpTo, n
    <3>2. c[m + 1] = c[(m + 1) - 1] \o s[m + 1]  BY <2>4, <3>1
    <3>3. m \in 0 .. n /\ m + 1 \in 0 .. n  BY <1>1, <2>2, <2>4
    <3>. QED  BY <1>1, <2>4, <3>2, <3>3
  <2>6. Lies(c[m] \o s[m + 1], c[m + 1], 1)  BY <2>5, LiesInItself
  <2>7. Lies(c[m], c[m + 1], 1)  BY <2>5, <2>6, BothLie
  <2>8. Lies(s[i], c[m + 1], 1 + at - 1)  BY <1>1, <2>3, <2>7, PartOfPart
  <2>9. 1 + at - 1 = at  BY <1>2
  <2>. QED  BY <2>4, <2>8, <2>9
<1>5. Nat \subseteq T
  <2>. HIDE DEF T
  <2>. QED  BY <1>3, <1>4, Induction
<1>6. n - i \in Nat /\ i + (n - i) = n  BY <1>1
<1>7. Lies(s[i], c[n], at)
  <2>1. n - i \in T
    <3>. HIDE DEF T
    <3>. QED  BY <1>5, <1>6
  <2>. HIDE DEF at
  <2>2. i + (n - i) <= n  BY <1>1, <1>6
  <2>. QED  BY <1>6, <2>1, <2>2
<1>8. Len(c[i]) = Len(c[i - 1]) + Len(s[i])  BY <1>1
<1>. QED  BY <1>7, <1>8

-----------------------------------------------------------------------------
(* bgQueue *)

(* What a push adds to a queue. *)
LEMMA AppendInSeq ==
    ASSUME NEW S, NEW s \in Seq(S), NEW x \in S
    PROVE  /\ Append(s, x) \in Seq(S)
           /\ Append(s, x) # <<>>
           /\ Range(Append(s, x)) = Range(s) \cup {x}
           /\ IsInjective(s) /\ x \notin Range(s) => IsInjective(Append(s, x))
<1>. DEFINE t == Append(s, x)
<1>1. t \in Seq(S) /\ Len(t) = Len(s) + 1 /\ Len(s) \in Nat  OBVIOUS
<1>2. /\ Len(s) \in Nat /\ DOMAIN s = 1 .. Len(s) /\ DOMAIN t = 1 .. Len(s) + 1
      /\ t[Len(s) + 1] = x /\ \A i \in 1 .. Len(s) : t[i] = s[i]
  OBVIOUS
<1>. HIDE DEF t
<1>3. \A i \in DOMAIN t : (i \in DOMAIN s /\ t[i] = s[i]) \/ (i = Len(s) + 1 /\ t[i] = x)
  BY <1>2
<1>4. \A i \in DOMAIN s : i \in DOMAIN t /\ t[i] = s[i]  BY <1>2
<1>5. Len(s) + 1 \in DOMAIN t /\ t[Len(s) + 1] = x  BY <1>2
<1>6. Range(t) = Range(s) \cup {x}  BY <1>3, <1>4, <1>5 DEF Range
<1>7. ASSUME IsInjective(s), x \notin Range(s) PROVE IsInjective(t)
  BY <1>3, <1>7 DEF Range, IsInjective
<1>8. t # <<>>
  <2>1. Len(t) # 0  BY <1>1
  <2>. QED  BY <2>1
<1>. QED  BY <1>1, <1>6, <1>7, <1>8 DEF t

(* What a pop takes from a queue. *)
LEMMA TailInSeq ==
    ASSUME NEW S, NEW s \in Seq(S), s # <<>>
    PROVE  /\ Tail(s) \in Seq(S)
           /\ Head(s) \in S
           /\ Range(s) = Range(Tail(s)) \cup {Head(s)}
           /\ IsInjective(s) => IsInjective(Tail(s)) /\ Head(s) \notin Range(Tail(s))
<1>1. Len(s) \in Nat \ {0} /\ Tail(s) \in Seq(S) /\ Head(s) = s[1] /\ Head(s) \in S
  OBVIOUS
<1>2. Len(Tail(s)) = Len(s) - 1 /\ \A i \in 1 .. Len(s) - 1 : Tail(s)[i] = s[i+1]
  BY <1>1
<1>3. Range(s) = Range(Tail(s)) \cup {Head(s)}
  <2>1. \A i \in DOMAIN s : i = 1 \/ (i - 1 \in DOMAIN Tail(s) /\ Tail(s)[i - 1] = s[i])
    BY <1>1, <1>2
  <2>2. Range(s) \subseteq Range(Tail(s)) \cup {Head(s)}
    BY <1>1, <2>1 DEF Range
  <2>3. \A i \in DOMAIN Tail(s) : i + 1 \in DOMAIN s /\ Tail(s)[i] = s[i + 1]
    BY <1>1, <1>2
  <2>4. Range(Tail(s)) \cup {Head(s)} \subseteq Range(s)
    <3>1. 1 \in DOMAIN s /\ Head(s) = s[1]  BY <1>1
    <3>. QED  BY <2>3, <3>1 DEF Range
  <2>. QED  BY <2>2, <2>4
<1>4. ASSUME IsInjective(s) PROVE IsInjective(Tail(s)) /\ Head(s) \notin Range(Tail(s))
  BY <1>1, <1>2, <1>4 DEF Range, IsInjective
<1>. QED  BY <1>1, <1>3, <1>4

-----------------------------------------------------------------------------
(* The steps that leave the items alone: the mutex is taken, the thread    *)
(* goes to sleep, the mutex is given back, quit() sets its flag and wakes  *)
(* everybody, and a notify or a spurious return wakes one.                 *)
LEMMA QueueControl ==
    ASSUME NEW I, NEW T, NEW t \in T, NEW q \in QueueOf(I, T)
    PROVE  /\ Locked(q, t) \in QueueOf(I, T) /\ Locked(q, t).holder = t
           /\ Locked(q, t).items = q.items /\ Locked(q, t).quit = q.quit
           /\ Locked(q, t).waiters = q.waiters
           /\ Slept(q, t) \in QueueOf(I, T) /\ Slept(q, t).holder = NoThread
           /\ Slept(q, t).items = q.items /\ Slept(q, t).quit = q.quit
           /\ Slept(q, t).waiters = q.waiters \cup {t}
  BY DEF QueueOf, Locked, Slept

LEMMA QueueRelease ==
    ASSUME NEW I, NEW T, NEW q \in QueueOf(I, T)
    PROVE  /\ Released(q) \in QueueOf(I, T) /\ Released(q).holder = NoThread
           /\ Released(q).items = q.items /\ Released(q).quit = q.quit
           /\ Released(q).waiters = q.waiters
  BY DEF QueueOf, Released

LEMMA QueueQuit ==
    ASSUME NEW I, NEW T, NEW q \in QueueOf(I, T)
    PROVE  /\ QuitSet(q) \in QueueOf(I, T) /\ QuitSet(q).holder = q.holder
           /\ QuitSet(q).items = q.items /\ QuitSet(q).quit
           /\ QuitSet(q).waiters = q.waiters
           /\ AllWoken(q) \in QueueOf(I, T) /\ AllWoken(q).holder = q.holder
           /\ AllWoken(q).items = q.items /\ AllWoken(q).quit = q.quit
           /\ AllWoken(q).waiters = {}
  BY DEF QueueOf, QuitSet, AllWoken

LEMMA QueueWake ==
    ASSUME NEW I, NEW T, NEW q \in QueueOf(I, T), NEW r \in OneWoken(q) \cup Spurious(q)
    PROVE  /\ r \in QueueOf(I, T) /\ r.holder = q.holder
           /\ r.items = q.items /\ r.quit = q.quit
           /\ r.waiters \subseteq q.waiters
  BY DEF QueueOf, OneWoken, Spurious

(* notify_one does wake one when there is one. *)
LEMMA QueueNotify ==
    ASSUME NEW I, NEW T, NEW q \in QueueOf(I, T), NEW r \in OneWoken(q)
    PROVE  q.waiters = {} \/ \E t \in q.waiters : t \notin r.waiters
  BY DEF QueueOf, OneWoken

(* push and pop *)
LEMMA QueuePush ==
    ASSUME NEW I, NEW T, NEW q \in QueueOf(I, T), NEW x \in I
    PROVE  /\ Pushed(q, x) \in QueueOf(I, T) /\ Pushed(q, x).holder = q.holder
           /\ Pushed(q, x).items = Append(q.items, x) /\ Pushed(q, x).quit = q.quit
           /\ Pushed(q, x).items # <<>>
           /\ Pushed(q, x).waiters = q.waiters
<1>1. q.items \in Seq(I)  BY DEF QueueOf
<1>2. Append(q.items, x) \in Seq(I) /\ Append(q.items, x) # <<>>  BY <1>1, AppendInSeq
<1>. QED  BY <1>1, <1>2 DEF QueueOf, Pushed

LEMMA QueuePop ==
    ASSUME NEW I, NEW T, NEW q \in QueueOf(I, T), q.items # <<>>
    PROVE  /\ Popped(q) \in QueueOf(I, T) /\ Popped(q).holder = NoThread
           /\ Popped(q).items = Tail(q.items) /\ Popped(q).quit = q.quit
           /\ Popped(q).waiters = q.waiters
           /\ Head(q.items) \in I
<1>1. q.items \in Seq(I)  BY DEF QueueOf
<1>2. Tail(q.items) \in Seq(I) /\ Head(q.items) \in I  BY <1>1, TailInSeq
<1>. QED  BY <1>1, <1>2 DEF QueueOf, Popped
=============================================================================

---------------------------- MODULE AnswersProofs ----------------------------
(***************************************************************************)
(* Proofs about Answers, for all files, search strings, lists and options: *)
(* the Horspool search finds every occurrence, files that contain the      *)
(* strings are candidates, and lists are read back.                        *)
(***************************************************************************)
EXTENDS Answers, CommonProofs

-----------------------------------------------------------------------------
(* bgverify's search *)

Occurs(pattern, file) ==
    {o \in 0 .. Len(file) - Len(pattern) : SubSeq(file, o + 1, o + Len(pattern)) = pattern}

(* the offsets that a search whose pattern's end is at k has still to find *)
From(k, pattern, file) == {o \in Occurs(pattern, file) : k <= o + Len(pattern)}

LEMMA SkipIs ==
    ASSUME NEW pattern \in Seq(Byte), pattern # <<>>, NEW byte
    PROVE  /\ skip(pattern, byte) \in 1 .. Len(pattern)
           /\ \A k \in 1 .. Len(pattern) - 1 :
                 pattern[k] = byte => skip(pattern, byte) <= Len(pattern) - k
<1>. DEFINE m == Len(pattern)
            at == {k \in 1 .. m - 1 : pattern[k] = byte}
<1>1. m \in Nat /\ m >= 1  OBVIOUS
<1>2. skip(pattern, byte) = IF at = {} THEN m ELSE m - Max(at)  BY DEF skip
<1>3. CASE at = {}  BY <1>1, <1>2, <1>3
<1>4. CASE at # {}
  <2>. HIDE DEF m
  <2>1. at \in SUBSET (0 .. m)  BY <1>1
  <2>2. Max(at) \in at /\ \A k \in at : Max(at) >= k
    <3>. HIDE DEF at
    <3>. QED  BY <1>1, <1>4, <2>1, MaxIsGreatest DEF Max
  <2>3. PICK x \in 1 .. m - 1 : x = Max(at)  BY <2>2
  <2>4. skip(pattern, byte) = m - x /\ \A k \in at : x >= k  BY <1>2, <1>4, <2>2, <2>3
  <2>5. m - x \in 1 .. m  BY <1>1, <2>3
  <2>6. ASSUME NEW k \in at PROVE m - x <= m - k
    <3>1. k \in Nat /\ x >= k  BY <1>1, <2>4
    <3>. QED  BY <1>1, <2>3, <3>1
  <2>. QED  BY <2>4, <2>5, <2>6 DEF m
<1>. QED  BY <1>3, <1>4

(* No occurrence ends at a place that is skipped *)
LEMMA SkipIsSafe ==
    ASSUME NEW pattern \in Seq(Byte), pattern # <<>>, NEW file \in Seq(Byte),
           NEW k \in Len(pattern) .. Len(file), NEW o \in Occurs(pattern, file),
           k < o + Len(pattern)
    PROVE  k + skip(pattern, file[k]) <= o + Len(pattern)
<1>. DEFINE m == Len(pattern)
            j == k - o
<1>1. m \in Nat /\ m >= 1 /\ Len(file) \in Nat /\ o \in Nat /\ o + m <= Len(file)
  BY DEF Occurs
<1>2. skip(pattern, file[k]) \in 1 .. m  BY SkipIs
<1>3. CASE k <= o  BY <1>1, <1>2, <1>3
<1>4. CASE k > o
  <2>1. j \in 1 .. m - 1 /\ k = o + j  BY <1>1, <1>4
  <2>2. SubSeq(file, o + 1, o + m) = pattern  BY DEF Occurs
  <2>3. pattern[j] = file[k]  BY <1>1, <2>1, <2>2
  <2>4. skip(pattern, file[k]) <= m - j  BY <2>1, <2>3, SkipIs
  <2>5. PICK x \in Nat : x = skip(pattern, file[k])  BY <1>2
  <2>. HIDE DEF m, j
  <2>6. x <= m - j /\ j \in Nat  BY <2>1, <2>4, <2>5
  <2>7. o + j + x <= o + m  BY <1>1, <2>6
  <2>8. k + x <= o + m  BY <2>1, <2>7
  <2>. QED  BY <2>5, <2>8 DEF m
<1>. QED  BY <1>1, <1>3, <1>4

(* The search lists all occurrences in order, or the first of them *)
LEMMA FoundIs ==
    ASSUME NEW pattern \in Seq(Byte), pattern # <<>>, NEW file \in Seq(Byte)
    PROVE  /\ Found(pattern, file, FALSE) = Ordered(Occurs(pattern, file))
           /\ \A onlyone \in BOOLEAN :
                 Found(pattern, file, onlyone) = <<>> <=> Occurs(pattern, file) = {}
<1>. DEFINE m == Len(pattern)
            len == Len(file)
            next(k) == k + skip(pattern, file[k])
            here(k) == SubSeq(file, k - m + 1, k) = pattern
            Offsets(k) == From(k, pattern, file)
            Body(f, onlyone) ==
              [k \in Nat |->
                 IF k > len THEN <<>>
                 ELSE IF ~here(k) THEN f[next(k)]
                 ELSE IF onlyone THEN <<k - m>>
                 ELSE <<k - m>> \o f[next(k)]]
            from(onlyone) == CHOOSE f : f = Body(f, onlyone)
<1>1. \A onlyone \in BOOLEAN : Found(pattern, file, onlyone) = from(onlyone)[m]
  BY DEF Found
<1>2. m \in Nat /\ m >= 1 /\ len \in Nat  OBVIOUS
<1>3. \A k \in Nat : next(k) \in Nat /\ next(k) > k /\ next(k) <= k + m
  <2>1. \A k \in Nat : skip(pattern, file[k]) \in 1 .. m  BY SkipIs
  <2>. HIDE DEF m
  <2>2. ASSUME NEW k \in Nat PROVE next(k) \in Nat /\ next(k) > k /\ next(k) <= k + m
    <3>1. PICK x \in 1 .. m : x = skip(pattern, file[k])  BY <2>1
    <3>2. next(k) = k + x  BY <3>1
    <3>. HIDE DEF next
    <3>. QED  BY <1>2, <3>1, <3>2
  <2>. QED  BY <2>2
<1>4. \A k \in m .. len : \A o \in Occurs(pattern, file) : k < o + m => next(k) <= o + m
  BY SkipIsSafe
<1>5. /\ \A o \in Occurs(pattern, file) : o \in Nat /\ o + m <= len
      /\ \A k \in m .. len : here(k) <=> k - m \in Occurs(pattern, file)
  <2>1. \A k \in m .. len : (k - m) + 1 = k - m + 1 /\ (k - m) + m = k /\ k - m \in 0 .. len - m
    BY <1>2
  <2>. QED  BY <1>2, <2>1 DEF Occurs
<1>. HIDE DEF m, len, next, here
<1>6. \A k \in Nat : k > len => Offsets(k) = {}  BY <1>2, <1>5 DEF From, m
<1>7. \A k \in m .. len : ~here(k) => Offsets(k) = Offsets(next(k))
  <2>1. TAKE k \in m .. len
  <2>2. HAVE ~here(k)
  <2>3. \A o \in Occurs(pattern, file) : k <= o + m <=> next(k) <= o + m
    <3>1. TAKE o \in Occurs(pattern, file)
    <3>0. k \in Nat  BY <1>2
    <3>2. k \in Nat /\ o \in Nat /\ next(k) \in Nat /\ next(k) > k  BY <1>3, <1>5, <3>0
    <3>3. k # o + m
      <4>1. k = o + m => k - m = o  BY <1>2, <3>2
      <4>. QED  BY <1>5, <2>2, <4>1
    <3>. QED  BY <1>2, <1>4, <3>2, <3>3
  <2>. QED  BY <2>3 DEF From, m
<1>8. \A k \in m .. len : here(k) =>
         /\ k - m \in Nat /\ Offsets(k) = Offsets(next(k)) \cup {k - m}
         /\ \A o \in Offsets(next(k)) : k - m < o
  <2>1. TAKE k \in m .. len
  <2>2. HAVE here(k)
  <2>3. \A o \in Occurs(pattern, file) :
           /\ k <= o + m <=> next(k) <= o + m \/ o = k - m
           /\ next(k) <= o + m => k - m < o
    <3>1. TAKE o \in Occurs(pattern, file)
    <3>0. k \in Nat  BY <1>2
    <3>2. k \in Nat /\ o \in Nat /\ next(k) \in Nat /\ next(k) > k  BY <1>3, <1>5, <3>0
    <3>. QED  BY <1>2, <1>4, <3>2
  <2>4. k - m \in Occurs(pattern, file) /\ k - m \in Nat  BY <1>2, <1>5, <2>2
  <2>. QED  BY <2>3, <2>4 DEF From, m
<1>. DEFINE mu == [k \in Nat |-> IF k > len THEN 0 ELSE len + 1 - k]
            B == {k \in Nat : k > len}
            S == Seq(Int)
            base == [k \in Nat |-> <<>>]
            d == [k \in Nat |-> next(k)]
<1>9. mu \in [Nat -> Nat] /\ \A k \in Nat \ B : next(k) \in Nat /\ mu[next(k)] < mu[k]
  <2>1. mu \in [Nat -> Nat]
    <3>1. \A k \in Nat : ~(k > len) => len + 1 - k \in Nat  BY <1>2
    <3>. QED  BY <3>1
  <2>2. ASSUME NEW k \in Nat \ B PROVE next(k) \in Nat /\ mu[next(k)] < mu[k]
    <3>1. PICK x \in Nat : x = next(k) /\ x > k  BY <1>3
    <3>2. mu[x] < mu[k]  BY <1>2, <3>1
    <3>. QED  BY <3>1, <3>2
  <2>. QED  BY <2>1, <2>2
<1>10. \A onlyone \in BOOLEAN : from(onlyone) = Body(from(onlyone), onlyone)
  <2>1. TAKE onlyone \in BOOLEAN
  <2>. DEFINE Step(k, s) == IF ~here(k) THEN s
                            ELSE IF onlyone THEN <<k - m>> ELSE <<k - m>> \o s
              F == [k \in Nat |-> [s \in S |-> Step(k, s)]]
  <2>2. \A k \in Nat, s \in S : Step(k, s) \in S
    <3>1. \A k \in Nat : <<k - m>> \in S  BY <1>2
    <3>2. \A s, t \in S : s \o t \in S  OBVIOUS
    <3>. HIDE DEF S
    <3>. QED  BY <3>1, <3>2
  <2>3. BuildsOn(base, F, Nat, S)
    <3>1. <<>> \in S  OBVIOUS
    <3>. HIDE DEF S, Step
    <3>. QED  BY <2>2, <3>1 DEF BuildsOn
  <2>4. Falls(d, mu, Nat, B)  BY <1>9 DEF Falls
  <2>. HIDE DEF S, base, d, mu, F
  <2>5. PICK f : Unfolds(f, Nat, S, B, base, F, d)
    BY <2>3, <2>4, FallingRecursion
  <2>6. f = Body(f, onlyone)
    <3>1. f \in [Nat -> S] /\ \A k \in Nat : f[k] = IF k \in B THEN base[k] ELSE F[k][f[d[k]]]
      BY <2>5 DEF Unfolds
    <3>2. \A k \in Nat : d[k] = next(k) /\ base[k] = <<>>  BY DEF d, base
    <3>3. \A k \in Nat : f[next(k)] \in S  BY <1>3, <3>1
    <3>4. \A k \in Nat, s \in S : F[k][s] = Step(k, s)  BY DEF F
    <3>5. \A k \in Nat : f[k] = IF k > len THEN <<>> ELSE Step(k, f[next(k)])
      <4>. HIDE DEF Step
      <4>. QED  BY <3>1, <3>2, <3>3, <3>4
    <3>. QED  BY <3>1, <3>5
  <2>. QED  BY <2>6
<1>. HIDE DEF from
<1>11. \A onlyone \in BOOLEAN, k \in Nat :
          from(onlyone)[k] = IF k > len THEN <<>>
                             ELSE IF ~here(k) THEN from(onlyone)[next(k)]
                             ELSE IF onlyone THEN <<k - m>>
                             ELSE <<k - m>> \o from(onlyone)[next(k)]
  BY <1>10
<1>. DEFINE T == {k \in Nat : k >= m =>
                    /\ Enumerates(from(FALSE)[k], Offsets(k))
                    /\ from(TRUE)[k] = <<>> <=> Offsets(k) = {}}
<1>12. ASSUME NEW k \in Nat, \A j \in Nat : mu[j] < mu[k] => j \in T PROVE k \in T
  <2>1. SUFFICES ASSUME k >= m
                 PROVE /\ Enumerates(from(FALSE)[k], Offsets(k))
                       /\ from(TRUE)[k] = <<>> <=> Offsets(k) = {}
    OBVIOUS
  <2>2. CASE k > len
    <3>1. \A b \in BOOLEAN : from(b)[k] = <<>>  BY <1>11, <2>2
    <3>2. Enumerates(<<>>, {})  BY DEF Enumerates
    <3>. QED  BY <1>6, <2>2, <3>1, <3>2
  <2>3. CASE k <= len
    <3>1. k \in m .. len /\ ~(k > len) /\ next(k) \in T /\ next(k) >= m /\ next(k) \in Nat
      <4>1. k \in Nat \ B /\ k \in m .. len /\ ~(k > len)  BY <1>2, <2>1, <2>3
      <4>2. PICK x \in Nat : x = next(k) /\ x > k /\ mu[x] < mu[k]  BY <1>3, <1>9, <4>1
      <4>. HIDE DEF T, mu
      <4>3. x \in T  BY <1>12, <4>2
      <4>4. x >= m  BY <1>2, <2>1, <4>2
      <4>. QED  BY <4>1, <4>2, <4>3, <4>4
    <3>2. /\ Enumerates(from(FALSE)[next(k)], Offsets(next(k)))
          /\ from(TRUE)[next(k)] = <<>> <=> Offsets(next(k)) = {}
      BY <3>1
    <3>3. CASE ~here(k)
      <4>1. \A b \in BOOLEAN : from(b)[k] = from(b)[next(k)]  BY <1>11, <3>1, <3>3
      <4>. QED  BY <1>7, <3>1, <3>2, <3>3, <4>1
    <3>4. CASE here(k)
      <4>1. from(TRUE)[k] = <<k - m>> /\ from(FALSE)[k] = <<k - m>> \o from(FALSE)[next(k)]
        BY <1>11, <3>1, <3>4
      <4>2. /\ k - m \in Nat /\ Offsets(k) = Offsets(next(k)) \cup {k - m}
            /\ \A o \in Offsets(next(k)) : k - m < o
        BY <1>8, <3>1, <3>4
      <4>3. Offsets(next(k)) \in SUBSET Nat  BY <1>5 DEF From
      <4>4. Enumerates(from(FALSE)[k], Offsets(k))
        <5>. HIDE DEF Offsets
        <5>. QED  BY <3>2, <4>1, <4>2, <4>3, EnumerationGrows
      <4>5. from(TRUE)[k] # <<>> /\ Offsets(k) # {}
        <5>1. k - m \in Offsets(k)
          <6>. HIDE DEF Offsets
          <6>. QED  BY <4>2
        <5>2. <<k - m>> # <<>>  OBVIOUS
        <5>. QED  BY <4>1, <5>1, <5>2
      <4>. QED  BY <4>4, <4>5
    <3>. QED  BY <3>3, <3>4
  <2>4. k > len \/ k <= len  BY <1>2
  <2>. QED  BY <2>2, <2>3, <2>4
<1>13. Nat \subseteq T
  <2>. HIDE DEF T, mu
  <2>. QED  BY <1>9, <1>12, MeasureInduction
<1>14. Offsets(m) = Occurs(pattern, file)  BY <1>2, <1>5 DEF From, m
<1>15. Occurs(pattern, file) \in SUBSET Nat /\ IsFiniteSet(Occurs(pattern, file))
  <2>1. Occurs(pattern, file) \subseteq 0 .. len  BY <1>2, <1>5
  <2>2. IsFiniteSet(0 .. len)  BY <1>2, FS_Interval
  <2>. QED  BY <1>5, <2>1, <2>2, FS_Subset
<1>16. /\ Enumerates(from(FALSE)[m], Occurs(pattern, file))
       /\ from(TRUE)[m] = <<>> <=> Occurs(pattern, file) = {}
  <2>0. m \in T
    <3>. HIDE DEF T
    <3>. QED  BY <1>2, <1>13
  <2>1. m >= m  BY <1>2
  <2>2. /\ Enumerates(from(FALSE)[m], Offsets(m))
        /\ from(TRUE)[m] = <<>> <=> Offsets(m) = {}
    BY <2>0, <2>1
  <2>. HIDE DEF Offsets
  <2>. QED  BY <1>14, <2>2
<1>17. /\ from(FALSE)[m] = Ordered(Occurs(pattern, file))
       /\ from(FALSE)[m] = <<>> <=> Occurs(pattern, file) = {}
  BY <1>15, <1>16, EnumerationIs
<1>. QED  BY <1>1, <1>16, <1>17

-----------------------------------------------------------------------------
(* The n-grams *)

LEMMA CutOff == 2^24 = 256 * (256 * 256)
<1>1. 2^1 = 2  OBVIOUS
<1>2. 2^(1 + 1) = 2^1 * 2^1 /\ 2^(2 + 2) = 2^2 * 2^2 /\ 2^(4 + 4) = 2^4 * 2^4
      /\ 2^(8 + 8) = 2^8 * 2^8 /\ 2^(8 + 16) = 2^8 * 2^16
  BY PowerSum
<1>3. 1 + 1 = 2 /\ 2 + 2 = 4 /\ 4 + 4 = 8 /\ 8 + 8 = 16 /\ 8 + 16 = 24  OBVIOUS
<1>4. 2^2 = 4  BY <1>1, <1>2, <1>3
<1>5. 2^4 = 16  BY <1>2, <1>3, <1>4
<1>6. 2^8 = 256  BY <1>2, <1>3, <1>5
<1>7. 2^16 = 256 * 256  BY <1>2, <1>3, <1>6
<1>. QED  BY <1>2, <1>3, <1>6, <1>7

Three(x, y, z) == x + 256 * (y + 256 * z)
Four(x, y, z, b) == x + 256 * (y + 256 * (z + 256 * b))

LEMMA Bytes ==
    ASSUME NEW x \in Byte, NEW y \in Byte, NEW z \in Byte, NEW b \in Byte
    PROVE  /\ Three(x, y, z) \in Nat /\ Three(x, y, z) < 256 * (256 * 256) /\ b \in Nat
           /\ Four(x, y, z, b) = (256 * (256 * 256)) * b + Three(x, y, z)
           /\ Four(b, x, y, z) = 256 * Three(x, y, z) + b
<1>. x \in 0 .. 255 /\ y \in 0 .. 255 /\ z \in 0 .. 255 /\ b \in 0 .. 255  BY DEF Byte
<1>1. x + 256 * (y + 256 * z) \in Nat /\ b \in Nat  OBVIOUS
<1>2. x + 256 * (y + 256 * z) < 256 * (256 * 256)  OBVIOUS
<1>3. x + 256 * (y + 256 * (z + 256 * b))
         = (256 * (256 * 256)) * b + (x + 256 * (y + 256 * z))
  OBVIOUS
<1>4. b + 256 * (x + 256 * (y + 256 * z)) = 256 * (x + 256 * (y + 256 * z)) + b
  BY <1>1
<1>. QED  BY <1>1, <1>2, <1>3, <1>4 DEF Three, Four

LEMMA ByteOrIs ==
    ASSUME NEW bytes \in Seq(Byte), NEW other \in Byte
    PROVE  /\ \A k : ByteOr(bytes, k, other) \in Byte
           /\ \A k \in 1 .. Len(bytes) : ByteOr(bytes, k, other) = bytes[k]
  BY DEF ByteOr

(* The bytes at k, whatever is read beside them *)
Gram(size, bytes, k) ==
    IF size = 4 THEN Four(bytes[k], bytes[k + 1], bytes[k + 2], bytes[k + 3])
    ELSE Three(bytes[k], bytes[k + 1], bytes[k + 2])

LEMMA NgramIs ==
    ASSUME NEW bytes \in Seq(Byte), NEW other \in Byte, NEW size \in {3, 4},
           NEW k \in 1 .. Len(bytes) - size + 1
    PROVE  Ngram(size, bytes, k, other) = Gram(size, bytes, k)
<1>1. \A j : Word(bytes, j, other) =
               Four(ByteOr(bytes, j + 0, other), ByteOr(bytes, j + 1, other),
                    ByteOr(bytes, j + 2, other), ByteOr(bytes, j + 3, other))
  BY DEF Word, Four
<1>2. Len(bytes) \in Nat /\ k \in Nat /\ k + 0 = k  OBVIOUS
<1>3. /\ ByteOr(bytes, k + 0, other) = bytes[k] /\ ByteOr(bytes, k + 1, other) = bytes[k + 1]
      /\ ByteOr(bytes, k + 2, other) = bytes[k + 2]
      /\ bytes[k] \in Byte /\ bytes[k + 1] \in Byte /\ bytes[k + 2] \in Byte
  <2>1. k \in 1 .. Len(bytes) /\ k + 1 \in 1 .. Len(bytes) /\ k + 2 \in 1 .. Len(bytes)
    BY <1>2
  <2>. QED  BY <1>2, <2>1, ByteOrIs
<1>4. PICK x \in Byte, y \in Byte, z \in Byte : x = bytes[k] /\ y = bytes[k + 1] /\ z = bytes[k + 2]
  BY <1>3
<1>. DEFINE A == Three(x, y, z)
<1>5. CASE size = 4
  <2>1. k + 3 \in 1 .. Len(bytes)  BY <1>2, <1>5
  <2>2. ByteOr(bytes, k + 3, other) = bytes[k + 3]  BY <2>1, ByteOrIs
  <2>. QED  BY <1>1, <1>3, <1>5, <2>2 DEF Ngram, Gram
<1>6. CASE size = 3 /\ k < Len(bytes) - size + 1
  <2>1. PICK b \in Byte : b = ByteOr(bytes, k + 3, other)  BY ByteOrIs
  <2>2. PICK w \in Nat \ {0} : w = 2^24 /\ w = 256 * (256 * 256)  BY CutOff, PowerOfTwo
  <2>3. A \in Nat /\ A < w /\ b \in Nat /\ Four(x, y, z, b) = w * b + A
    BY <2>2, Bytes
  <2>4. Word(bytes, k, other) = w * b + A  BY <1>1, <1>3, <1>4, <2>1, <2>3
  <2>5. Ngram(size, bytes, k, other) = (w * b + A) % w
    BY <1>6, <2>2, <2>4 DEF Ngram
  <2>. HIDE DEF A
  <2>6. (w * b + A) % w = A
    <3>1. A \in 0 .. w - 1  BY <2>2, <2>3
    <3>. QED  BY <2>3, <3>1, DivisionUnique
  <2>. QED  BY <1>4, <1>6, <2>5, <2>6 DEF Gram, A
<1>7. CASE size = 3 /\ ~(k < Len(bytes) - size + 1)
  <2>1. PICK b \in Byte : b = ByteOr(bytes, (k - 1) + 0, other)  BY ByteOrIs
  <2>2. (k - 1) + 1 = k + 0 /\ (k - 1) + 2 = k + 1 /\ (k - 1) + 3 = k + 2  OBVIOUS
  <2>3. Word(bytes, k - 1, other) = Four(b, x, y, z)
    <3>1. Word(bytes, k - 1, other) =
               Four(ByteOr(bytes, (k - 1) + 0, other), ByteOr(bytes, (k - 1) + 1, other),
                    ByteOr(bytes, (k - 1) + 2, other), ByteOr(bytes, (k - 1) + 3, other))
      BY <1>1
    <3>. QED  BY <1>3, <1>4, <2>1, <2>2, <3>1
  <2>4. Four(b, x, y, z) = 256 * A + b /\ A \in Nat  BY Bytes
  <2>5. Ngram(size, bytes, k, other) = (256 * A + b) \div 256
    BY <1>7, <2>3, <2>4 DEF Ngram
  <2>. HIDE DEF A
  <2>6. (256 * A + b) \div 256 = A
    <3>1. b \in 0 .. 256 - 1 /\ 256 \in Nat \ {0}  BY DEF Byte
    <3>. QED  BY <2>4, <3>1, DivisionUnique
  <2>. QED  BY <1>4, <1>7, <2>5, <2>6 DEF Gram, A
<1>. QED  BY <1>5, <1>6, <1>7

(* The n-grams of a string are among those of a file that contains it *)
LEMMA PartOfFile ==
    ASSUME NEW pattern \in Seq(Byte), NEW file \in Seq(Byte), NEW other \in Byte,
           NEW size \in {3, 4}, Len(file) >= 4, Occurs(pattern, file) # {}
    PROVE  StringNgrams(size, pattern, other) \subseteq FileNgrams(size, file, other)
<1>1. SUFFICES ASSUME ~(Len(pattern) < size), NEW k \in 1 .. Len(pattern) - size + 1
               PROVE  Ngram(size, pattern, k, other) \in FileNgrams(size, file, other)
  BY DEF StringNgrams
<1>2. PICK o \in 0 .. Len(file) - Len(pattern) :
         SubSeq(file, o + 1, o + Len(pattern)) = pattern
  BY DEF Occurs
<1>3. Len(pattern) \in Nat /\ Len(file) \in Nat  OBVIOUS
<1>4. \A j \in 1 .. Len(pattern) : pattern[j] = file[o + j]  BY <1>2, <1>3
<1>5. Gram(size, pattern, k) = Gram(size, file, o + k)
  <2>1. \A j \in 0 .. size - 1 : pattern[k + j] = file[o + k + j]
    <3>1. TAKE j \in 0 .. size - 1
    <3>2. k + j \in 1 .. Len(pattern) /\ o + (k + j) = o + k + j  BY <1>1, <1>3
    <3>. QED  BY <1>4, <3>2
  <2>2. pattern[k + 0] = file[o + k + 0] /\ pattern[k + 1] = file[o + k + 1]
        /\ pattern[k + 2] = file[o + k + 2] /\ (size = 4 => pattern[k + 3] = file[o + k + 3])
    <3>1. 0 \in 0 .. size - 1 /\ 1 \in 0 .. size - 1 /\ 2 \in 0 .. size - 1
          /\ (size = 4 => 3 \in 0 .. size - 1)
      OBVIOUS
    <3>. QED  BY <2>1, <3>1
  <2>3. k + 0 = k /\ o + k + 0 = o + k  OBVIOUS
  <2>. QED  BY <2>2, <2>3 DEF Gram
<1>6. o + k \in 1 .. Len(file) - size + 1  BY <1>1, <1>3
<1>7. Ngram(size, pattern, k, other) = Ngram(size, file, o + k, other)
  BY <1>5, <1>6, NgramIs
<1>. QED  BY <1>6, <1>7 DEF FileNgrams

-----------------------------------------------------------------------------
(* VarByte *)

LEMMA Sevens ==
    ASSUME NEW v \in Nat
    PROVE  /\ v \div 128 \in Nat /\ v % 128 \in 0 .. 127
           /\ v = 128 * (v \div 128) + (v % 128)
           /\ v >= 128 => v \div 128 < v
           /\ v < 128 => v % 128 = v
<1>1. v \div 128 \in Nat /\ v % 128 \in 0 .. 127 /\ v = 128 * (v \div 128) + (v % 128)
  <2>1. 128 \in Nat \ {0} /\ 128 - 1 = 127  OBVIOUS
  <2>. QED  BY <2>1, Division
<1>2. PICK q \in Nat, r \in 0 .. 127 : q = v \div 128 /\ r = v % 128  BY <1>1
<1>3. v = 128 * q + r  BY <1>1, <1>2
<1>. QED  BY <1>1, <1>2, <1>3

LEMMA EncodingIs ==
    ASSUME NEW v \in Nat
    PROVE  /\ VarByte(v) = IF v < 128 THEN <<v>>
                           ELSE <<128 + (v % 128)>> \o VarByte(v \div 128)
           /\ VarByte(v) \in Seq(Byte) /\ VarByte(v) # <<>>
<1>. DEFINE Body(f) == [u \in Nat |-> IF u < 128 THEN <<u>>
                                      ELSE <<128 + (u % 128)>> \o f[u \div 128]]
            B == 0 .. 127
            S == Seq(Byte)
            base == [u \in Nat |-> IF u < 128 THEN <<u>> ELSE <<>>]
            d == [u \in Nat |-> u \div 128]
            mu == [u \in Nat |-> u]
            F == [u \in Nat |-> [t \in S |-> <<128 + (u % 128)>> \o t]]
<1>1. encoding = CHOOSE f : f = Body(f)  BY DEF encoding
<1>2. Falls(d, mu, Nat, B)
  <2>1. \A u \in Nat \ B : u \div 128 \in Nat /\ u \div 128 < u
    <3>1. TAKE u \in Nat \ B
    <3>2. u >= 128  OBVIOUS
    <3>. QED  BY <3>2, Sevens
  <2>2. \A u \in Nat \ B : d[u] = u \div 128 /\ mu[u] = u  OBVIOUS
  <2>3. mu \in [Nat -> Nat]  OBVIOUS
  <2>4. \A u \in Nat : mu[u] = u  OBVIOUS
  <2>. HIDE DEF d, mu, B
  <2>. QED  BY <2>1, <2>2, <2>3, <2>4 DEF Falls
<1>3. \A u \in Nat : <<128 + (u % 128)>> \in S
  <2>1. \A u \in Nat : 128 + (u % 128) \in Byte  BY Sevens DEF Byte
  <2>. QED  BY <2>1
<1>4. \A s, t \in S : s \o t \in S  OBVIOUS
<1>5. BuildsOn(base, F, Nat, S)
  <2>1. ASSUME NEW u \in Nat PROVE base[u] \in S
    <3>1. CASE u < 128
      <4>1. u \in Byte /\ base[u] = <<u>>  BY <3>1 DEF Byte
      <4>. QED  BY <4>1
    <3>2. CASE ~(u < 128)
      <4>1. base[u] = <<>>  BY <3>2
      <4>. QED  BY <4>1
    <3>. QED  BY <3>1, <3>2
  <2>2. ASSUME NEW u \in Nat, NEW t \in S PROVE F[u][t] \in S
    <3>1. F[u][t] = <<128 + (u % 128)>> \o t  OBVIOUS
    <3>. QED  BY <1>3, <1>4, <3>1
  <2>3. base = [u \in Nat |-> base[u]] /\ F = [u \in Nat |-> [t \in S |-> F[u][t]]]  OBVIOUS
  <2>. HIDE DEF S, base, F
  <2>. QED  BY <2>1, <2>2, <2>3 DEF BuildsOn
<1>6. PICK f : Unfolds(f, Nat, S, B, base, F, d)
  <2>. HIDE DEF S, B, base, F, d, mu
  <2>. QED  BY <1>2, <1>5, FallingRecursion
<1>7. f = Body(f)
  <2>1. f \in [Nat -> S] /\ \A u \in Nat : f[u] = IF u \in B THEN base[u] ELSE F[u][f[d[u]]]
    <3>. HIDE DEF S, B, base, F, d
    <3>. QED  BY <1>6 DEF Unfolds
  <2>2. \A u \in Nat : f[u \div 128] \in S
    <3>. HIDE DEF S
    <3>. QED  BY <2>1, Sevens
  <2>3. ASSUME NEW u \in Nat
        PROVE  f[u] = IF u < 128 THEN <<u>> ELSE <<128 + (u % 128)>> \o f[u \div 128]
    <3>. HIDE DEF S
    <3>1. CASE u < 128
      <4>1. u \in B /\ base[u] = <<u>>  BY <3>1
      <4>. HIDE DEF B, base, F, d
      <4>. QED  BY <2>1, <3>1, <4>1
    <3>2. CASE ~(u < 128)
      <4>1. u \notin B /\ d[u] = u \div 128  BY <3>2
      <4>2. F[u][f[u \div 128]] = <<128 + (u % 128)>> \o f[u \div 128]  BY <2>2
      <4>. HIDE DEF B, base, F, d
      <4>. QED  BY <2>1, <3>2, <4>1, <4>2
    <3>. QED  BY <3>1, <3>2
  <2>. HIDE DEF S, B, base, F, d
  <2>. QED  BY <2>1, <2>3
<1>8. encoding = Body(encoding)  BY <1>1, <1>7
<1>9. \A u \in Nat : encoding[u] = IF u < 128 THEN <<u>>
                                   ELSE <<128 + (u % 128)>> \o encoding[u \div 128]
  BY <1>8
<1>10. \A u \in Nat : encoding[u] \in S /\ encoding[u] # <<>>
  <2>. DEFINE T == {u \in Nat : encoding[u] \in S /\ encoding[u] # <<>>}
  <2>1. ASSUME NEW u \in Nat, \A w \in Nat : mu[w] < mu[u] => w \in T PROVE u \in T
    <3>1. CASE u < 128
      <4>1. encoding[u] = <<u>>  BY <1>9, <3>1
      <4>2. u \in Byte  BY <3>1 DEF Byte
      <4>3. <<u>> # <<>> /\ <<u>> \in S  BY <4>2
      <4>. QED  BY <4>1, <4>3
    <3>2. CASE ~(u < 128)
      <4>1. u \div 128 \in Nat /\ u \div 128 < u  BY <3>2, Sevens
      <4>2. encoding[u \div 128] \in S  BY <2>1, <4>1
      <4>3. encoding[u] = <<128 + (u % 128)>> \o encoding[u \div 128]  BY <1>9, <3>2
      <4>4. Len(encoding[u]) # 0 /\ encoding[u] \in S  BY <1>3, <4>2, <4>3
      <4>. QED  BY <4>4
    <3>. QED  BY <3>1, <3>2
  <2>2. mu \in [Nat -> Nat]  OBVIOUS
  <2>. HIDE DEF T, mu
  <2>3. Nat \subseteq T  BY <2>1, <2>2, MeasureInduction
  <2>. QED  BY <2>3 DEF T
<1>. QED  BY <1>9, <1>10 DEF VarByte

(* What is read at a place, and where reading goes on *)
LEMMA VarByteAtIs ==
    ASSUME NEW bytes \in Seq(Byte), NEW k \in Places
    PROVE  LET this == VarByteAt(bytes, k)
               next == VarByteAt(bytes, k + 1)
               byte == ByteAt(bytes, k)
           IN  /\ this.val = IF byte < 128 THEN byte ELSE (byte % 128) + 128 * next.val
               /\ this.next = IF byte < 128 THEN k + 1 ELSE next.next
               /\ this = [val |-> this.val, next |-> this.next]
               /\ this.val \in Nat /\ this.next \in Nat /\ this.next > k /\ byte \in Byte
<1>. DEFINE Ends(j) == ByteAt(bytes, j) < 128
            low(j) == ByteAt(bytes, j) % 128
            VBody(f) == [j \in Places |-> low(j) + IF Ends(j) THEN 0 ELSE 128 * f[j + 1]]
            EBody(f) == [j \in Places |-> IF Ends(j) THEN j + 1 ELSE f[j + 1]]
            val == CHOOSE f : f = VBody(f)
            end == CHOOSE f : f = EBody(f)
            len == Len(bytes)
            B == {j \in Places : Ends(j)}
            d == [j \in Places |-> j + 1]
            mu == [j \in Places |-> IF j > len THEN 0 ELSE len + 1 - j]
<1>1. \A j : VarByteAt(bytes, j) = [val |-> val[j], next |-> end[j]]  BY DEF VarByteAt
<1>2. len \in Nat /\ \A j \in Places : j + 1 \in Places  BY DEF Places
<1>3. ASSUME NEW j \in Places
      PROVE  ByteAt(bytes, j) \in Byte /\ (j > len => ByteAt(bytes, j) = 0)
  <2>1. CASE j <= len  BY <2>1 DEF ByteAt, Places
  <2>2. CASE ~(j <= len)
    <3>1. ByteAt(bytes, j) = 0 /\ 0 \in Byte  BY <2>2 DEF ByteAt, Byte
    <3>. QED  BY <3>1
  <2>. QED  BY <2>1, <2>2, <1>2 DEF Places
<1>4. \A j \in Places : low(j) \in 0 .. 127 /\ (Ends(j) => low(j) = ByteAt(bytes, j))
  <2>. HIDE DEF Ends, len
  <2>1. \A j \in Places : ByteAt(bytes, j) \in Nat
    <3>1. Byte \subseteq Nat  BY DEF Byte
    <3>. QED  BY <1>3, <3>1
  <2>. USE DEF Ends
  <2>2. ASSUME NEW j \in Places
        PROVE  low(j) \in 0 .. 127 /\ (Ends(j) => low(j) = ByteAt(bytes, j))
    <3>1. PICK x \in Nat : x = ByteAt(bytes, j)  BY <2>1
    <3>2. x % 128 \in 0 .. 127 /\ (x < 128 => x % 128 = x)  BY Sevens
    <3>. QED  BY <3>1, <3>2
  <2>. QED  BY <2>2
<1>14. \A j \in Places : low(j) \in Nat
  <2>1. 0 .. 127 \subseteq Nat  OBVIOUS
  <2>. HIDE DEF low
  <2>. QED  BY <1>4, <2>1
<1>5. /\ mu \in [Places -> Nat]
      /\ \A j \in Places \ B : mu[j + 1] < mu[j]
  <2>1. ASSUME NEW j \in Places PROVE (IF j > len THEN 0 ELSE len + 1 - j) \in Nat
    BY <1>2 DEF Places
  <2>2. ASSUME NEW j \in Places \ B PROVE mu[j + 1] < mu[j]
    <3>1. ~(j > len) /\ j \in Nat  BY <1>3 DEF Places
    <3>2. mu[j] = len + 1 - j /\ (j + 1 > len => mu[j + 1] = 0)
          /\ (~(j + 1 > len) => mu[j + 1] = len + 1 - (j + 1))
      BY <1>2, <3>1
    <3>. QED  BY <1>2, <3>1, <3>2
  <2>. QED  BY <2>1, <2>2
<1>6. Falls(d, mu, Places, B)  BY <1>2, <1>5 DEF Falls
<1>. HIDE DEF len, mu, Ends, low
<1>7. val = VBody(val)
  <2>. DEFINE S == Nat
              base == [j \in Places |-> low(j)]
              F == [j \in Places |-> [x \in S |-> low(j) + 128 * x]]
  <2>1. BuildsOn(base, F, Places, S)
    <3>2. \A x \in Nat : 128 * x \in Nat  OBVIOUS
    <3>3. \A j \in Places, x \in Nat : low(j) + 128 * x \in Nat  BY <1>14, <3>2
    <3>. QED  BY <1>14, <3>3 DEF BuildsOn
  <2>2. PICK f : Unfolds(f, Places, S, B, base, F, d)
    <3>. HIDE DEF S, B, base, F, d
    <3>. QED  BY <1>6, <2>1, FallingRecursion
  <2>3. f \in [Places -> S] /\ \A j \in Places : f[j] = IF j \in B THEN base[j] ELSE F[j][f[d[j]]]
    BY <2>2 DEF Unfolds
  <2>4. ASSUME NEW j \in Places PROVE f[j] = low(j) + IF Ends(j) THEN 0 ELSE 128 * f[j + 1]
    <3>1. f[j + 1] \in Nat /\ low(j) \in Nat  BY <1>2, <1>14, <2>3
    <3>2. CASE Ends(j)
      <4>1. j \in B /\ base[j] = low(j)  BY <3>2
      <4>. HIDE DEF B, base, F, d
      <4>. QED  BY <2>3, <3>1, <3>2, <4>1
    <3>3. CASE ~Ends(j)
      <4>1. j \notin B /\ d[j] = j + 1 /\ F[j][f[j + 1]] = low(j) + 128 * f[j + 1]  BY <3>1, <3>3
      <4>. HIDE DEF B, base, F, d
      <4>. QED  BY <2>3, <3>3, <4>1
    <3>. QED  BY <3>2, <3>3
  <2>5. f = VBody(f)  BY <2>3, <2>4
  <2>. QED  BY <2>5
<1>8. end = EBody(end)
  <2>. DEFINE S == Nat
              base == [j \in Places |-> j + 1]
              F == [j \in Places |-> [x \in S |-> x]]
  <2>1. BuildsOn(base, F, Places, S)  BY DEF BuildsOn, Places
  <2>2. PICK f : Unfolds(f, Places, S, B, base, F, d)
    <3>. HIDE DEF S, B, base, F, d
    <3>. QED  BY <1>6, <2>1, FallingRecursion
  <2>3. f \in [Places -> S] /\ \A j \in Places : f[j] = IF j \in B THEN base[j] ELSE F[j][f[d[j]]]
    BY <2>2 DEF Unfolds
  <2>4. ASSUME NEW j \in Places PROVE f[j] = IF Ends(j) THEN j + 1 ELSE f[j + 1]
    <3>1. f[j + 1] \in Nat  BY <1>2, <2>3
    <3>. QED  BY <2>3, <3>1
  <2>5. f = EBody(f)  BY <2>3, <2>4
  <2>. QED  BY <2>5
<1>. HIDE DEF val, end
<1>9. \A j \in Places : /\ val[j] = low(j) + IF Ends(j) THEN 0 ELSE 128 * val[j + 1]
                        /\ end[j] = IF Ends(j) THEN j + 1 ELSE end[j + 1]
  BY <1>7, <1>8
<1>10. \A j \in Places : val[j] \in Nat /\ end[j] \in Nat /\ end[j] > j
  <2>. DEFINE T == {j \in Places : val[j] \in Nat /\ end[j] \in Nat /\ end[j] > j}
  <2>1. ASSUME NEW j \in Places, \A i \in Places : mu[i] < mu[j] => i \in T PROVE j \in T
    <3>1. low(j) \in Nat /\ j \in Nat  BY <1>14 DEF Places
    <3>2. CASE Ends(j)  BY <1>9, <3>1, <3>2
    <3>3. CASE ~Ends(j)
      <4>1. j + 1 \in T  BY <1>2, <1>5, <2>1, <3>3
      <4>. QED  BY <1>9, <3>1, <3>3, <4>1
    <3>. QED  BY <3>2, <3>3
  <2>. HIDE DEF T
  <2>2. Places \subseteq T  BY <1>5, <2>1, MeasureInduction
  <2>. QED  BY <2>2 DEF T
<1>11. /\ k + 1 \in Places /\ val[k] \in Nat /\ end[k] \in Nat /\ end[k] > k /\ low(k) \in Nat
       /\ Ends(k) => low(k) = ByteAt(bytes, k)
       /\ val[k] = low(k) + IF Ends(k) THEN 0 ELSE 128 * val[k + 1]
       /\ end[k] = IF Ends(k) THEN k + 1 ELSE end[k + 1]
       /\ ByteAt(bytes, k) \in Byte
  BY <1>2, <1>3, <1>4, <1>14, <1>9, <1>10
<1>12. /\ VarByteAt(bytes, k) = [val |-> val[k], next |-> end[k]]
       /\ VarByteAt(bytes, k + 1) = [val |-> val[k + 1], next |-> end[k + 1]]
  BY <1>1
<1>13. val[k] = IF Ends(k) THEN ByteAt(bytes, k) ELSE low(k) + 128 * val[k + 1]
  BY <1>11
<1>. QED  BY <1>11, <1>12, <1>13 DEF Ends, low

(* A number is read back wherever it lies *)
LEMMA VarByteReads ==
    ASSUME NEW bytes \in Seq(Byte), NEW v \in Nat, NEW at, Lies(VarByte(v), bytes, at)
    PROVE  VarByteAt(bytes, at) = [val |-> v, next |-> at + Len(VarByte(v))]
<1>. DEFINE Reads(u, k) == VarByteAt(bytes, k) = [val |-> u, next |-> k + Len(VarByte(u))]
            T == {u \in Nat : \A k \in Places : Lies(VarByte(u), bytes, k) => Reads(u, k)}
            mu == [u \in Nat |-> u]
<1>1. ASSUME NEW u \in Nat, \A w \in Nat : mu[w] < mu[u] => w \in T PROVE u \in T
  <2>1. SUFFICES ASSUME NEW k \in Places, Lies(VarByte(u), bytes, k) PROVE Reads(u, k)
    OBVIOUS
  <2>. DEFINE this == VarByteAt(bytes, k)
              next == VarByteAt(bytes, k + 1)
              byte == ByteAt(bytes, k)
  <2>2. /\ this.val = IF byte < 128 THEN byte ELSE (byte % 128) + 128 * next.val
        /\ this.next = IF byte < 128 THEN k + 1 ELSE next.next
        /\ this = [val |-> this.val, next |-> this.next]
    BY VarByteAtIs
  <2>3. VarByte(u) \in Seq(Byte) /\ VarByte(u) # <<>>  BY EncodingIs
  <2>4. byte = VarByte(u)[1]
    <3>1. 1 \in 1 .. Len(VarByte(u))  BY <2>3
    <3>2. k + 1 - 1 \in 1 .. Len(bytes) /\ bytes[k + 1 - 1] = VarByte(u)[1]
      BY <2>1, <3>1 DEF Lies
    <3>3. k + 1 - 1 = k  BY DEF Places
    <3>. QED  BY <3>2, <3>3 DEF ByteAt
  <2>. HIDE DEF this, next, byte
  <2>5. CASE u < 128
    <3>1. VarByte(u) = <<u>>  BY <2>5, EncodingIs
    <3>2. byte = u /\ Len(VarByte(u)) = 1  BY <2>4, <3>1
    <3>. QED  BY <2>2, <2>5, <3>2 DEF this
  <2>6. CASE ~(u < 128)
    <3>1. PICK q \in Nat, r \in 0 .. 127 : q = u \div 128 /\ r = u % 128 /\ u = 128 * q + r /\ q < u
      BY <2>6, Sevens
    <3>2. VarByte(u) = <<128 + r>> \o VarByte(q)
      <4>1. VarByte(u) = <<128 + (u % 128)>> \o VarByte(u \div 128)  BY <2>6, EncodingIs
      <4>. QED  BY <3>1, <4>1
    <3>3. VarByte(q) \in Seq(Byte) /\ 128 + r \in Byte
      <4>1. 128 + r \in Byte  BY <3>1 DEF Byte
      <4>2. VarByte(q) \in Seq(Byte)  BY <3>1, EncodingIs
      <4>. QED  BY <4>1, <4>2
    <3>4. Len(VarByte(u)) = 1 + Len(VarByte(q)) /\ VarByte(u)[1] = 128 + r /\ Len(VarByte(q)) \in Nat
      BY <3>2, <3>3
    <3>5. Lies(VarByte(q), bytes, k + 1)
      <4>1. <<128 + r>> \in Seq(Byte) /\ Len(<<128 + r>>) = 1  BY <3>3
      <4>2. PICK p \in Seq(Byte) : p = <<128 + r>> /\ Len(p) = 1  BY <4>1
      <4>3. Lies(p \o VarByte(q), bytes, k)  BY <2>1, <3>2, <4>2
      <4>4. Lies(VarByte(q), bytes, k + Len(p))  BY <3>3, <4>3, BothLie
      <4>. QED  BY <4>2, <4>4
    <3>6. Reads(q, k + 1)
      <4>1. q \in T  BY <1>1, <3>1
      <4>2. k + 1 \in Places  BY DEF Places
      <4>. QED  BY <3>5, <4>1, <4>2
    <3>7. next.val = q /\ next.next = k + 1 + Len(VarByte(q))  BY <3>6 DEF next
    <3>8. byte = 128 + r /\ ~(byte < 128) /\ byte % 128 = r
      <4>1. (128 * 1 + r) % 128 = r
        <5>1. r \in 0 .. 128 - 1 /\ 128 \in Nat \ {0} /\ 1 \in Nat  BY <3>1
        <5>. QED  BY <5>1, DivisionUnique
      <4>2. 128 * 1 + r = 128 + r  BY <3>1
      <4>. QED  BY <2>4, <3>1, <3>4, <4>1, <4>2
    <3>9. this.val = r + 128 * q /\ this.next = k + 1 + Len(VarByte(q))
      BY <2>2, <3>7, <3>8
    <3>10. r + 128 * q = u /\ k + 1 + Len(VarByte(q)) = k + Len(VarByte(u))
      BY <3>1, <3>4 DEF Places
    <3>. QED  BY <2>2, <3>9, <3>10 DEF this
  <2>. QED  BY <2>5, <2>6
<1>2. mu \in [Nat -> Nat]  OBVIOUS
<1>3. Nat \subseteq T
  <2>. HIDE DEF T, mu
  <2>. QED  BY <1>1, <1>2, MeasureInduction
<1>4. at \in Places  BY DEF Lies, Places
<1>. QED  BY <1>3, <1>4

-----------------------------------------------------------------------------
(* Bits *)

Shift(v, j) == v \div 2^j
BitOf(v, j) == Shift(v, j) % 2

LEMMA HalfOf ==
    ASSUME NEW v \in Nat, NEW j \in Nat
    PROVE  /\ Shift(v, j) \in Nat /\ BitOf(v, j) \in 0 .. 1
           /\ Shift(v, j) = BitOf(v, j) + 2 * Shift(v, j + 1)
<1>1. PICK w \in Nat \ {0} : w = 2^j  BY PowerOfTwo
<1>2. 2^(j + 1) = w + w  BY <1>1, PowerStep
<1>3. PICK q \in Nat, r \in 0 .. w - 1 : q = v \div w /\ r = v % w /\ v = w * q + r
  BY Division
<1>4. PICK h \in Nat, s \in 0 .. 1 : h = q \div 2 /\ s = q % 2 /\ q = 2 * h + s
  <2>1. 2 \in Nat \ {0} /\ 2 - 1 = 1  OBVIOUS
  <2>. QED  BY <2>1, Division
<1>5. v \div (w + w) = h
  <2>1. PICK t \in Nat : t = w * h  OBVIOUS
  <2>2. w * q = t + t + (w * s)
    <3>1. w * q = w * (2 * h + s)  BY <1>4
    <3>2. w * (2 * h + s) = (w * h) + (w * h) + (w * s)  OBVIOUS
    <3>. QED  BY <2>1, <3>1, <3>2
  <2>3. (w + w) * h = t + t
    <3>1. (w + w) * h = (w * h) + (w * h)  OBVIOUS
    <3>. QED  BY <2>1, <3>1
  <2>4. PICK u \in 0 .. (w + w) - 1 : u = (w * s) + r
    <3>1. CASE s = 0
      <4>1. w * s = 0  BY <3>1
      <4>. QED  BY <4>1, <1>3
    <3>2. CASE s = 1
      <4>1. w * s = w  BY <3>2
      <4>. QED  BY <4>1, <1>3
    <3>. QED  BY <3>1, <3>2
  <2>5. v = (w + w) * h + u  BY <1>3, <2>2, <2>3, <2>4
  <2>6. w + w \in Nat \ {0}  OBVIOUS
  <2>. QED  BY <2>4, <2>5, <2>6, DivisionUnique
<1>6. Shift(v, j) = q /\ Shift(v, j + 1) = h  BY <1>1, <1>2, <1>3, <1>5 DEF Shift
<1>7. BitOf(v, j) = s  BY <1>4, <1>6 DEF BitOf
<1>. QED  BY <1>3, <1>4, <1>6, <1>7

LEMMA ShiftAll ==
    ASSUME NEW v \in Nat, NEW m \in Nat
    PROVE  Shift(v, 0) = v /\ (Shift(v, m) = 0 <=> v < 2^m)
<1>1. PICK w \in Nat \ {0} : w = 2^m  BY PowerOfTwo
<1>2. PICK q \in Nat, r \in 0 .. w - 1 : q = v \div w /\ r = v % w /\ v = w * q + r
  BY Division
<1>3. Shift(v, m) = q  BY <1>1, <1>2 DEF Shift
<1>4. CASE q = 0
  <2>1. w * q = 0  BY <1>4
  <2>2. v < w  BY <1>2, <2>1
  <2>. QED  BY <1>1, <1>3, <1>4, <2>2 DEF Shift
<1>5. CASE q # 0
  <2>1. w * q >= w
    <3>1. PICK p \in Nat : q = p + 1
      <4>1. q - 1 \in Nat /\ q = (q - 1) + 1  BY <1>5
      <4>. QED  BY <4>1
    <3>2. w * (p + 1) = w * p + w /\ w * p \in Nat  OBVIOUS
    <3>. QED  BY <3>1, <3>2
  <2>2. PICK t \in Nat : t = w * q  OBVIOUS
  <2>3. ~(v < w)  BY <1>2, <2>1, <2>2
  <2>. QED  BY <1>1, <1>3, <1>5, <2>3 DEF Shift
<1>. QED  BY <1>4, <1>5

(* h[j] is the number that the bits from j on make *)
Adds(h, bits, m) ==
    /\ h \in [Nat -> Nat]
    /\ \A j \in Nat : h[j] = IF j \in 0 .. m - 1 THEN bits[j] + 2 * h[j + 1] ELSE 0

LEMMA NumberIs ==
    ASSUME NEW m \in Nat, NEW bits \in [0 .. m - 1 -> 0 .. 1]
    PROVE  \E h : Adds(h, bits, m) /\ Number(bits) = h[0]
<1>. DEFINE Body(f) == [j \in Nat |-> IF j \in DOMAIN bits THEN bits[j] + 2 * f[j + 1] ELSE 0]
            from == CHOOSE f : f = Body(f)
            B == {j \in Nat : j \notin 0 .. m - 1}
            S == Nat
            base == [j \in Nat |-> 0]
            d == [j \in Nat |-> j + 1]
            mu == [j \in Nat |-> IF j > m THEN 0 ELSE m - j]
            F == [j \in Nat |-> [x \in S |-> IF j \in 0 .. m - 1 THEN bits[j] + 2 * x ELSE 0]]
<1>1. Number(bits) = from[0]  BY DEF Number
<1>2. Falls(d, mu, Nat, B)
  <2>1. mu \in [Nat -> Nat]
    <3>1. ASSUME NEW j \in Nat PROVE (IF j > m THEN 0 ELSE m - j) \in Nat  OBVIOUS
    <3>. QED  BY <3>1
  <2>2. ASSUME NEW j \in Nat \ B PROVE d[j] \in Nat /\ mu[d[j]] < mu[j]  OBVIOUS
  <2>. HIDE DEF d, mu, B
  <2>. QED  BY <2>1, <2>2 DEF Falls
<1>3. BuildsOn(base, F, Nat, S)
  <2>1. ASSUME NEW j \in Nat, NEW x \in Nat
        PROVE  (IF j \in 0 .. m - 1 THEN bits[j] + 2 * x ELSE 0) \in Nat
    OBVIOUS
  <2>. QED  BY <2>1 DEF BuildsOn
<1>4. PICK f : Unfolds(f, Nat, S, B, base, F, d)
  <2>. HIDE DEF S, B, base, F, d, mu
  <2>. QED  BY <1>2, <1>3, FallingRecursion
<1>5. f \in [Nat -> Nat] /\ \A j \in Nat : f[j] = IF j \in B THEN base[j] ELSE F[j][f[d[j]]]
  BY <1>4 DEF Unfolds
<1>6. Adds(f, bits, m)
  <2>1. ASSUME NEW j \in Nat
        PROVE  f[j] = IF j \in 0 .. m - 1 THEN bits[j] + 2 * f[j + 1] ELSE 0
    <3>1. f[j + 1] \in Nat  BY <1>5
    <3>2. CASE j \in 0 .. m - 1
      <4>1. j \notin B /\ d[j] = j + 1 /\ F[j][f[j + 1]] = bits[j] + 2 * f[j + 1]
        BY <3>1, <3>2
      <4>. HIDE DEF B, base, F, d
      <4>. QED  BY <1>5, <3>2, <4>1
    <3>3. CASE j \notin 0 .. m - 1
      <4>1. j \in B /\ base[j] = 0  BY <3>3
      <4>. HIDE DEF B, base, F, d
      <4>. QED  BY <1>5, <3>3, <4>1
    <3>. QED  BY <3>2, <3>3
  <2>. QED  BY <1>5, <2>1 DEF Adds
<1>7. f = Body(f)  BY <1>6 DEF Adds
<1>8. from = Body(from)  BY <1>7
<1>. HIDE DEF from
<1>9. Adds(from, bits, m)
  <2>1. \A j \in Nat : from[j] = IF j \in 0 .. m - 1 THEN bits[j] + 2 * from[j + 1] ELSE 0
    BY <1>8
  <2>. DEFINE T == {j \in Nat : from[j] \in Nat}
  <2>2. ASSUME NEW j \in Nat, \A i \in Nat : mu[i] < mu[j] => i \in T PROVE j \in T
    <3>1. CASE j \in 0 .. m - 1
      <4>1. mu[j + 1] < mu[j] /\ j + 1 \in Nat  BY <3>1
      <4>2. from[j + 1] \in Nat  BY <2>2, <4>1
      <4>. QED  BY <2>1, <3>1, <4>2
    <3>2. CASE j \notin 0 .. m - 1  BY <2>1, <3>2
    <3>. QED  BY <3>1, <3>2
  <2>3. mu \in [Nat -> Nat]  BY <1>2 DEF Falls
  <2>. HIDE DEF T, mu
  <2>4. Nat \subseteq T  BY <2>2, <2>3, MeasureInduction
  <2>5. from \in [Nat -> Nat]
    <3>1. \A j \in Nat : from[j] \in Nat  BY <2>4 DEF T
    <3>2. from = [j \in Nat |-> from[j]]  BY <1>8
    <3>. QED  BY <3>1, <3>2
  <2>. QED  BY <2>1, <2>5 DEF Adds
<1>. QED  BY <1>1, <1>9

(* A number that fits is put together from its bits again *)
LEMMA NumberOfBits ==
    ASSUME NEW m \in Nat, NEW v \in Nat, v < 2^m
    PROVE  Number([j \in 0 .. m - 1 |-> BitOf(v, j)]) = v
<1>. DEFINE bits == [j \in 0 .. m - 1 |-> BitOf(v, j)]
<1>1. bits \in [0 .. m - 1 -> 0 .. 1]  BY HalfOf
<1>2. \A j \in 0 .. m - 1 : bits[j] = BitOf(v, j)  OBVIOUS
<1>. HIDE DEF bits
<1>3. PICK h : Adds(h, bits, m) /\ Number(bits) = h[0]  BY <1>1, NumberIs
<1>. DEFINE T == {i \in Nat : i <= m => h[m - i] = Shift(v, m - i)}
<1>4. 0 \in T
  <2>1. m - 0 = m /\ m \notin 0 .. m - 1  OBVIOUS
  <2>2. h[m] = 0  BY <1>3, <2>1 DEF Adds
  <2>. QED  BY <2>1, <2>2, ShiftAll
<1>5. ASSUME NEW i \in Nat, i \in T PROVE i + 1 \in T
  <2>1. SUFFICES ASSUME i + 1 <= m PROVE h[m - (i + 1)] = Shift(v, m - (i + 1))  OBVIOUS
  <2>2. PICK j \in 0 .. m - 1 : j = m - (i + 1)  BY <2>1
  <2>3. m - i = j + 1 /\ i <= m /\ j \in Nat  BY <2>1, <2>2
  <2>4. h[j + 1] = Shift(v, j + 1)  BY <1>5, <2>3
  <2>5. h[j] = BitOf(v, j) + 2 * h[j + 1]  BY <1>2, <1>3, <2>2, <2>3 DEF Adds
  <2>. QED  BY <2>2, <2>3, <2>4, <2>5, HalfOf
<1>6. m \in T
  <2>. HIDE DEF T
  <2>. QED  BY <1>4, <1>5, Induction
<1>7. m - m = 0 /\ m <= m  OBVIOUS
<1>. QED  BY <1>3, <1>6, <1>7, ShiftAll DEF bits

(* The bits of a number are those it was made of *)
LEMMA BitsOfNumber ==
    ASSUME NEW m \in Nat, NEW bits \in [0 .. m - 1 -> 0 .. 1]
    PROVE  /\ Number(bits) \in Nat /\ Number(bits) < 2^m
           /\ \A j \in 0 .. m - 1 : BitOf(Number(bits), j) = bits[j]
<1>1. PICK h : Adds(h, bits, m) /\ Number(bits) = h[0]  BY NumberIs
<1>2. PICK v \in Nat : v = Number(bits)  BY <1>1 DEF Adds
<1>. DEFINE T == {j \in Nat : j <= m => Shift(v, j) = h[j]}
<1>3. ASSUME NEW j \in Nat, j < m, Shift(v, j) = h[j]
      PROVE  BitOf(v, j) = bits[j] /\ Shift(v, j + 1) = h[j + 1]
  <2>1. j \in 0 .. m - 1 /\ j + 1 \in Nat  BY <1>3
  <2>2. h[j] = bits[j] + 2 * h[j + 1] /\ h[j + 1] \in Nat  BY <1>1, <2>1 DEF Adds
  <2>3. PICK b \in 0 .. 1, x \in Nat : b = bits[j] /\ x = h[j + 1]  BY <2>1, <2>2
  <2>4. PICK c \in 0 .. 1, y \in Nat : c = BitOf(v, j) /\ y = Shift(v, j + 1)
    BY <2>1, HalfOf
  <2>5. c + 2 * y = b + 2 * x  BY <1>3, <2>2, <2>3, <2>4, HalfOf
  <2>6. c = b /\ y = x  BY <2>5
  <2>. QED  BY <2>3, <2>4, <2>6
<1>4. Nat \subseteq T
  <2>1. 0 \in T  BY <1>1, <1>2, ShiftAll
  <2>2. ASSUME NEW j \in Nat, j \in T PROVE j + 1 \in T
    <3>1. j + 1 <= m => j < m  OBVIOUS
    <3>. QED  BY <1>3, <2>2, <3>1
  <2>. HIDE DEF T
  <2>. QED  BY <2>1, <2>2, Induction
<1>5. \A j \in Nat : j <= m => Shift(v, j) = h[j]  BY <1>4
<1>. HIDE DEF T
<1>6. v < 2^m
  <2>1. m \notin 0 .. m - 1 /\ m <= m  OBVIOUS
  <2>2. Shift(v, m) = 0  BY <1>1, <1>5, <2>1 DEF Adds
  <2>. QED  BY <2>2, ShiftAll
<1>7. ASSUME NEW j \in 0 .. m - 1 PROVE BitOf(v, j) = bits[j]
  <2>1. j \in Nat /\ j < m /\ j <= m  OBVIOUS
  <2>. QED  BY <1>3, <1>5, <2>1
<1>. QED  BY <1>2, <1>6, <1>7

(* A value fits into its width *)
LEMMA WidthIs ==
    ASSUME NEW v \in Nat
    PROVE  width[v] \in Nat \ {0} /\ \A b \in Nat : width[v] <= b => v < 2^b
<1>. DEFINE Body(f) == [u \in Nat |-> IF u < 2 THEN 1 ELSE 1 + f[u \div 2]]
            B == 0 .. 1
            S == Nat
            base == [u \in Nat |-> 1]
            d == [u \in Nat |-> u \div 2]
            mu == [u \in Nat |-> u]
            F == [u \in Nat |-> [x \in S |-> 1 + x]]
<1>1. width = CHOOSE f : f = Body(f)  BY DEF width
<1>2. ASSUME NEW u \in Nat
      PROVE  u \div 2 \in Nat /\ (u >= 2 => u \div 2 < u) /\ u <= 2 * (u \div 2) + 1
  <2>1. PICK h \in Nat, s \in 0 .. 1 : h = u \div 2 /\ s = u % 2 /\ u = 2 * h + s
    <3>1. 2 \in Nat \ {0} /\ 2 - 1 = 1  OBVIOUS
    <3>. QED  BY <3>1, Division
  <2>. QED  BY <2>1
<1>3. Falls(d, mu, Nat, B)
  <2>1. ASSUME NEW u \in Nat \ B PROVE d[u] \in Nat /\ mu[d[u]] < mu[u]
    <3>1. u >= 2 /\ d[u] = u \div 2  OBVIOUS
    <3>. QED  BY <1>2, <3>1
  <2>2. mu \in [Nat -> Nat]  OBVIOUS
  <2>. HIDE DEF d, mu, B
  <2>. QED  BY <2>1, <2>2 DEF Falls
<1>4. PICK f : Unfolds(f, Nat, S, B, base, F, d)
  <2>1. BuildsOn(base, F, Nat, S)  BY DEF BuildsOn
  <2>. HIDE DEF S, B, base, F, d, mu
  <2>. QED  BY <1>3, <2>1, FallingRecursion
<1>5. f \in [Nat -> Nat] /\ \A u \in Nat : f[u] = IF u \in B THEN base[u] ELSE F[u][f[d[u]]]
  BY <1>4 DEF Unfolds
<1>6. f = Body(f)
  <2>1. ASSUME NEW u \in Nat PROVE f[u] = IF u < 2 THEN 1 ELSE 1 + f[u \div 2]
    <3>1. f[u \div 2] \in Nat /\ d[u] = u \div 2 /\ base[u] = 1 /\ (u \in B <=> u < 2)
      BY <1>2, <1>5
    <3>2. F[u][f[u \div 2]] = 1 + f[u \div 2]  BY <3>1
    <3>. HIDE DEF B, base, F, d
    <3>. QED  BY <1>5, <3>1, <3>2
  <2>. QED  BY <1>5, <2>1
<1>7. width = Body(width)  BY <1>1, <1>6
<1>8. \A u \in Nat : width[u] = IF u < 2 THEN 1 ELSE 1 + width[u \div 2]  BY <1>7
<1>. DEFINE T == {u \in Nat : width[u] \in Nat \ {0} /\ \A b \in Nat : width[u] <= b => u < 2^b}
<1>9. ASSUME NEW u \in Nat, \A w \in Nat : mu[w] < mu[u] => w \in T PROVE u \in T
  <2>1. ASSUME NEW b \in Nat \ {0}
        PROVE  b - 1 \in Nat /\ 2^(b - 1) \in Nat \ {0} /\ 2^b = 2^(b - 1) + 2^(b - 1)
    <3>1. PICK a \in Nat : a = b - 1 /\ b = a + 1  OBVIOUS
    <3>. QED  BY <3>1, PowerOfTwo, PowerStep
  <2>2. CASE u < 2
    <3>1. width[u] = 1  BY <1>8, <2>2
    <3>2. ASSUME NEW b \in Nat, 1 <= b PROVE u < 2^b
      <4>1. b \in Nat \ {0}  BY <3>2
      <4>2. PICK p \in Nat \ {0} : 2^b = p + p  BY <2>1, <4>1
      <4>. QED  BY <2>2, <4>2
    <3>. QED  BY <3>1, <3>2
  <2>3. CASE ~(u < 2)
    <3>1. PICK h \in Nat : h = u \div 2 /\ h < u /\ u <= 2 * h + 1  BY <1>2, <2>3
    <3>2. width[u] = 1 + width[h]  BY <1>8, <2>3, <3>1
    <3>3. h \in T  BY <1>9, <3>1
    <3>4. ASSUME NEW b \in Nat, width[u] <= b PROVE u < 2^b
      <4>1. b \in Nat \ {0} /\ width[h] <= b - 1  BY <3>2, <3>3, <3>4
      <4>2. b - 1 \in Nat /\ 2^(b - 1) \in Nat \ {0} /\ 2^b = 2^(b - 1) + 2^(b - 1)
        BY <2>1, <4>1
      <4>3. h < 2^(b - 1)  BY <3>3, <4>1, <4>2
      <4>4. PICK p \in Nat \ {0} : p = 2^(b - 1) /\ 2^b = p + p  BY <4>2
      <4>. QED  BY <3>1, <4>3, <4>4
    <3>. QED  BY <3>2, <3>3, <3>4
  <2>. QED  BY <2>2, <2>3
<1>10. Nat \subseteq T
  <2>1. mu \in [Nat -> Nat]  OBVIOUS
  <2>. HIDE DEF T, mu
  <2>. QED  BY <1>9, <2>1, MeasureInduction
<1>. QED  BY <1>10

-----------------------------------------------------------------------------
(* The packed values *)

LEMMA Two8 == 2^8 = 256
<1>1. 2^0 = 1  OBVIOUS
<1>2. 2^1 = 2 /\ 2^2 = 4
  <2>1. 2^(0 + 1) = 2^0 + 2^0 /\ 2^(1 + 1) = 2^1 + 2^1  BY PowerStep
  <2>. QED  BY <1>1, <2>1
<1>3. 2^3 = 8 /\ 2^4 = 16
  <2>1. 2^(2 + 1) = 2^2 + 2^2 /\ 2^(3 + 1) = 2^3 + 2^3  BY PowerStep
  <2>. QED  BY <1>2, <2>1
<1>4. 2^5 = 32 /\ 2^6 = 64
  <2>1. 2^(4 + 1) = 2^4 + 2^4 /\ 2^(5 + 1) = 2^5 + 2^5  BY PowerStep
  <2>. QED  BY <1>3, <2>1
<1>5. 2^(6 + 1) = 2^6 + 2^6 /\ 2^(7 + 1) = 2^7 + 2^7  BY PowerStep
<1>. QED  BY <1>4, <1>5

LEMMA ByteOfBits ==
    ASSUME NEW bits \in [0 .. 7 -> 0 .. 1]
    PROVE  Number(bits) \in Byte /\ \A i \in 0 .. 7 : BitOf(Number(bits), i) = bits[i]
<1>1. PICK m \in Nat : m = 8  OBVIOUS
<1>2. 0 .. m - 1 = 0 .. 7  BY <1>1
<1>3. bits \in [0 .. m - 1 -> 0 .. 1]  BY <1>2
<1>4. /\ Number(bits) \in Nat /\ Number(bits) < 2^m
      /\ \A i \in 0 .. m - 1 : BitOf(Number(bits), i) = bits[i]
  BY <1>3, BitsOfNumber
<1>5. PICK x \in Nat : x = Number(bits) /\ x < 256  BY <1>1, <1>4, Two8
<1>6. x \in 0 .. 255  BY <1>5
<1>. QED  BY <1>2, <1>4, <1>5, <1>6 DEF Byte

(* Place g of l groups of b is place g % b of group g \div b *)
LEMMA Grouped ==
    ASSUME NEW b \in Nat \ {0}, NEW l \in Nat, NEW g \in Nat, g < b * l
    PROVE  g \div b + 1 \in 1 .. l /\ g % b \in 0 .. b - 1 /\ g = b * (g \div b) + (g % b)
<1>1. PICK q \in Nat, r \in 0 .. b - 1 : q = g \div b /\ r = g % b /\ g = b * q + r
  BY Division
<1>2. q < l
  <2>1. SUFFICES ASSUME q >= l PROVE FALSE  BY <1>1
  <2>2. PICK d \in Nat : q = l + d
    <3>1. q - l \in Nat /\ q = l + (q - l)  BY <2>1
    <3>. QED  BY <3>1
  <2>3. b * (l + d) = b * l + b * d /\ b * d \in Nat /\ b * l \in Nat  OBVIOUS
  <2>4. PICK x \in Nat, y \in Nat : x = b * l /\ y = b * d  BY <2>3
  <2>5. g = x + y + r /\ g < x  BY <1>1, <2>2, <2>3, <2>4
  <2>. QED  BY <2>5
<1>3. q + 1 \in 1 .. l  BY <1>2
<1>. QED  BY <1>1, <1>3

(* bit g of the values of a block *)
BlockBit(vals, b, g) == BitOf(vals[g \div b + 1], g % b)

PackedByte(vals, b, k) == [j \in 0 .. 7 |-> BlockBit(vals, b, 8 * (k - 1) + j)]

LEMMA PackedIs ==
    ASSUME NEW vals \in Seq(Nat), NEW b \in 1 .. 15, Len(vals) % 8 = 0
    PROVE  LET size == (b * Len(vals)) \div 8
           IN  /\ size \in Nat /\ 8 * size = b * Len(vals)
               /\ Packed(vals, b) \in Seq(Byte) /\ Len(Packed(vals, b)) = size
               /\ \A k \in 1 .. size : /\ PackedByte(vals, b, k) \in [0 .. 7 -> 0 .. 1]
                                       /\ Packed(vals, b)[k] = Number(PackedByte(vals, b, k))
<1>. DEFINE size == (b * Len(vals)) \div 8
<1>1. size \in Nat /\ 8 * size = b * Len(vals)
  <2>1. PICK l \in Nat : Len(vals) = 8 * l
    <3>1. 8 \in Nat \ {0} /\ Len(vals) \in Nat  OBVIOUS
    <3>2. Len(vals) \div 8 \in Nat /\ Len(vals) = 8 * (Len(vals) \div 8) + (Len(vals) % 8)
      BY <3>1, Division
    <3>. QED  BY <3>2
  <2>2. b * (8 * l) = 8 * (b * l)  OBVIOUS
  <2>3. PICK x \in Nat : x = b * l  OBVIOUS
  <2>4. (8 * x + 0) \div 8 = x
    <3>1. 8 \in Nat \ {0} /\ 0 \in 0 .. 8 - 1  OBVIOUS
    <3>. QED  BY <3>1, DivisionUnique
  <2>5. 8 * x + 0 = b * Len(vals)  BY <2>1, <2>2, <2>3
  <2>. QED  BY <2>4, <2>5
<1>. HIDE DEF size
<1>2. ASSUME NEW k \in 1 .. size PROVE PackedByte(vals, b, k) \in [0 .. 7 -> 0 .. 1]
  <2>1. ASSUME NEW j \in 0 .. 7 PROVE BlockBit(vals, b, 8 * (k - 1) + j) \in 0 .. 1
    <3>1. PICK g \in Nat : g = 8 * (k - 1) + j /\ g < 8 * size  BY <1>1
    <3>2. g < b * Len(vals) /\ Len(vals) \in Nat /\ b \in Nat \ {0}  BY <1>1, <3>1
    <3>3. g \div b + 1 \in 1 .. Len(vals) /\ g % b \in 0 .. b - 1  BY <3>2, Grouped
    <3>4. vals[g \div b + 1] \in Nat /\ g % b \in Nat  BY <3>3
    <3>. QED  BY <3>1, <3>4, HalfOf DEF BlockBit
  <2>. QED  BY <2>1 DEF PackedByte
<1>3. Packed(vals, b) = [k \in 1 .. size |-> Number(PackedByte(vals, b, k))]
  BY DEF Packed, PackedByte, BlockBit, BitOf, Shift, size
<1>4. ASSUME NEW k \in 1 .. size PROVE Number(PackedByte(vals, b, k)) \in Byte
  BY <1>2, ByteOfBits
<1>5. Packed(vals, b) \in Seq(Byte) /\ Len(Packed(vals, b)) = size
  BY <1>1, <1>3, <1>4
<1>. QED  BY <1>1, <1>2, <1>3, <1>5 DEF size

(* bit g of what is read behind the first byte of a block *)
ReadBit(bytes, at, g) == (ByteAt(bytes, at + 1 + g \div 8) \div 2 ^ (g % 8)) % 2

LEMMA BitsLie ==
    ASSUME NEW vals \in Seq(Nat), NEW b \in 1 .. 15, Len(vals) % 8 = 0,
           NEW bytes \in Seq(Byte), NEW at \in Places, Lies(Packed(vals, b), bytes, at + 1),
           NEW g \in Nat, g < b * Len(vals)
    PROVE  ReadBit(bytes, at, g) = BlockBit(vals, b, g)
<1>1. PICK size \in Nat :
        /\ 8 * size = b * Len(vals)
        /\ Packed(vals, b) \in Seq(Byte) /\ Len(Packed(vals, b)) = size
        /\ \A k \in 1 .. size : /\ PackedByte(vals, b, k) \in [0 .. 7 -> 0 .. 1]
                                /\ Packed(vals, b)[k] = Number(PackedByte(vals, b, k))
  BY PackedIs
<1>2. PICK q \in Nat, j \in 0 .. 7 : q = g \div 8 /\ j = g % 8 /\ g = 8 * q + j /\ q + 1 \in 1 .. size
  <2>1. 8 \in Nat \ {0} /\ g < 8 * size /\ 8 - 1 = 7  BY <1>1
  <2>2. /\ g \div 8 + 1 \in 1 .. size /\ g % 8 \in 0 .. 8 - 1
        /\ g = 8 * (g \div 8) + (g % 8) /\ g \div 8 \in Nat
    BY <2>1, Grouped, Division
  <2>. QED  BY <2>1, <2>2
<1>3. ByteAt(bytes, at + 1 + q) = Number(PackedByte(vals, b, q + 1))
  <2>1. /\ at + 1 + (q + 1) - 1 \in 1 .. Len(bytes)
        /\ bytes[at + 1 + (q + 1) - 1] = Packed(vals, b)[q + 1]
    BY <1>1, <1>2 DEF Lies
  <2>2. at + 1 + (q + 1) - 1 = at + 1 + q  BY DEF Places
  <2>. QED  BY <1>1, <1>2, <2>1, <2>2 DEF ByteAt
<1>4. BitOf(Number(PackedByte(vals, b, q + 1)), j) = PackedByte(vals, b, q + 1)[j]
  <2>1. PICK bits \in [0 .. 7 -> 0 .. 1] : bits = PackedByte(vals, b, q + 1)  BY <1>1, <1>2
  <2>. QED  BY <1>2, <2>1, ByteOfBits
<1>5. PackedByte(vals, b, q + 1)[j] = BlockBit(vals, b, g)
  <2>1. 8 * (q + 1 - 1) + j = g
    <3>1. q + 1 - 1 = q  OBVIOUS
    <3>. QED  BY <1>2, <3>1, Zenon
  <2>2. PackedByte(vals, b, q + 1)[j] = BlockBit(vals, b, 8 * (q + 1 - 1) + j)
    BY <1>2 DEF PackedByte
  <2>. QED  BY <2>1, <2>2, Zenon
<1>6. ReadBit(bytes, at, g) = BitOf(ByteAt(bytes, at + 1 + q), j)
  BY <1>2 DEF ReadBit, BitOf, Shift
<1>. QED  BY <1>3, <1>4, <1>5, <1>6

(* The values of a block before its exceptions are put in *)
ReadWidth(bytes, at) == bytes[at] % 16
ReadFrom(b, i) == 8 * (((b * (i - 1)) \div 8) % 256) + ((b * (i - 1)) % 8)
ReadPacked(bytes, at, bs) ==
    [i \in 1 .. bs |->
        IF ReadWidth(bytes, at) = 0 THEN 1
        ELSE Number([j \in 0 .. ReadWidth(bytes, at) - 1 |->
                        ReadBit(bytes, at, ReadFrom(ReadWidth(bytes, at), i) + j)])]

(* One exception put in, and where the next one is *)
Place(bytes, next) == VarByteAt(bytes, next)
Value(bytes, next) == VarByteAt(bytes, Place(bytes, next).next)
Patch(bytes, vals, next) == [vals EXCEPT ![Place(bytes, next).val + 1] = Value(bytes, next).val]

(* vs[k] and ns[k] are the values and the place after k exceptions *)
Patches(vs, ns, bytes, at, bs) ==
    /\ vs \in [Nat -> [1 .. bs -> Nat]]
    /\ ns \in [Nat -> Places]
    /\ vs[0] = ReadPacked(bytes, at, bs)
    /\ ns[0] = at + 1 + (ReadWidth(bytes, at) * bs) \div 8
    /\ \A k \in Nat : /\ vs[k + 1] = Patch(bytes, vs[k], ns[k])
                      /\ ns[k + 1] = Value(bytes, ns[k]).next

LEMMA DivisionTypes ==
    ASSUME NEW w \in Nat \ {0}, NEW g \in Nat
    PROVE  g \div w \in Nat /\ g % w \in Nat /\ g % w < w
<1>1. g \div w \in Nat /\ g % w \in 0 .. w - 1  BY Division
<1>2. PICK r \in 0 .. w - 1 : r = g % w  BY <1>1
<1>. QED  BY <1>1, <1>2

LEMMA SmallNumber ==
    ASSUME NEW w \in Nat \ {0}, NEW g \in Nat, g < w
    PROVE  g \div w = 0 /\ g % w = g
<1>1. 0 \in Nat /\ g \in 0 .. w - 1 /\ w * 0 + g = g  OBVIOUS
<1>2. (w * 0 + g) \div w = 0 /\ (w * 0 + g) % w = g  BY <1>1, DivisionUnique
<1>. QED  BY <1>1, <1>2

LEMMA ByteAtIs ==
    ASSUME NEW bytes \in Seq(Byte), NEW k \in Places
    PROVE  ByteAt(bytes, k) \in Byte
  BY VarByteAtIs

LEMMA ByteIn ==
    ASSUME NEW bytes \in Seq(Byte), NEW at \in DOMAIN bytes
    PROVE  bytes[at] \in Byte /\ bytes[at] \in Nat /\ bytes[at] < 256
<1>1. bytes[at] \in Byte  OBVIOUS
<1>2. \A x \in Byte : x \in Nat /\ x < 256  BY DEF Byte
<1>. QED  BY <1>1, <1>2

LEMMA ReadPackedIs ==
    ASSUME NEW bytes \in Seq(Byte), NEW at \in DOMAIN bytes, NEW bs \in Nat
    PROVE  ReadWidth(bytes, at) \in 0 .. 15 /\ ReadPacked(bytes, at, bs) \in [1 .. bs -> Nat]
<1>. DEFINE w == ReadWidth(bytes, at)
<1>1. w \in 0 .. 15
  <2>1. PICK x \in Nat : x = bytes[at]  BY ByteIn
  <2>2. 16 \in Nat \ {0} /\ 16 - 1 = 15  OBVIOUS
  <2>. QED  BY <2>1, <2>2, Division DEF ReadWidth
<1>. HIDE DEF w
<1>2. ASSUME NEW g \in Nat PROVE ReadBit(bytes, at, g) \in 0 .. 1
  <2>1. g \div 8 \in Nat /\ g % 8 \in Nat
    <3>1. 8 \in Nat \ {0}  OBVIOUS
    <3>. QED  BY <3>1, DivisionTypes
  <2>2. PICK q \in Nat, r \in Nat : q = g \div 8 /\ r = g % 8  BY <2>1
  <2>3. at + 1 + q \in Places  BY DEF Places
  <2>4. ByteAt(bytes, at + 1 + q) \in Nat
    <3>1. Byte \subseteq Nat  BY DEF Byte
    <3>. QED  BY <2>3, <3>1, ByteAtIs
  <2>5. ReadBit(bytes, at, g) = BitOf(ByteAt(bytes, at + 1 + q), r)
    BY <2>2 DEF ReadBit, BitOf, Shift
  <2>. QED  BY <2>2, <2>4, <2>5, HalfOf
<1>3. ASSUME NEW i \in 1 .. bs PROVE ReadFrom(w, i) \in Nat
  <2>1. PICK g \in Nat : g = w * (i - 1)
    <3>1. \A x \in 0 .. 15, y \in Nat : x * y \in Nat  OBVIOUS
    <3>2. i - 1 \in Nat  OBVIOUS
    <3>. QED  BY <1>1, <3>1, <3>2
  <2>2. 8 \in Nat \ {0} /\ 256 \in Nat \ {0}  OBVIOUS
  <2>3. PICK q \in Nat, r \in Nat : q = g \div 8 /\ r = g % 8  BY <2>2, DivisionTypes
  <2>4. PICK p \in Nat : p = q % 256  BY <2>2, DivisionTypes
  <2>5. ReadFrom(w, i) = 8 * p + r  BY <2>1, <2>3, <2>4 DEF ReadFrom
  <2>. QED  BY <2>5
<1>4. ASSUME NEW i \in 1 .. bs
      PROVE  Number([j \in 0 .. w - 1 |-> ReadBit(bytes, at, ReadFrom(w, i) + j)]) \in Nat
  <2>1. \A j \in 0 .. w - 1 : ReadFrom(w, i) + j \in Nat  BY <1>1, <1>3
  <2>2. [j \in 0 .. w - 1 |-> ReadBit(bytes, at, ReadFrom(w, i) + j)] \in [0 .. w - 1 -> 0 .. 1]
    BY <1>2, <2>1
  <2>. QED  BY <1>1, <2>2, BitsOfNumber
<1>. QED  BY <1>1, <1>4 DEF ReadPacked, w

(* Decoding ends behind the place where it began, whatever is there *)
LEMMA DecodedIs ==
    ASSUME NEW bytes \in Seq(Byte), NEW at \in DOMAIN bytes, NEW bs \in Nat
    PROVE  \E vs, ns : /\ Patches(vs, ns, bytes, at, bs)
                       /\ \A k \in Nat : ns[k] > at
                       /\ DecodedBlock(bytes, at, bs) = [vals |-> vs[bytes[at] \div 16],
                                                         next |-> ns[bytes[at] \div 16]]
<1>. DEFINE start == [vals |-> ReadPacked(bytes, at, bs),
                      next |-> at + 1 + (ReadWidth(bytes, at) * bs) \div 8]
            Put(r) == [vals |-> Patch(bytes, r.vals, r.next), next |-> Value(bytes, r.next).next]
            Body(f) == [k \in Nat |-> IF k = 0 THEN start ELSE Put(f[k - 1])]
            patched == CHOOSE f : f = Body(f)
            S == [vals : [1 .. bs -> Nat], next : {p \in Places : p > at}]
            F == [k \in Nat |-> [r \in S |-> Put(r)]]
<1>1. DecodedBlock(bytes, at, bs) = patched[bytes[at] \div 16]
  BY DEF DecodedBlock, ReadPacked, ReadWidth, ReadFrom, ReadBit, Patch, Place, Value
<1>2. start \in S
  <2>1. ReadPacked(bytes, at, bs) \in [1 .. bs -> Nat] /\ ReadWidth(bytes, at) \in 0 .. 15
    BY ReadPackedIs
  <2>2. PICK g \in Nat : g = ReadWidth(bytes, at) * bs
    <3>1. \A x \in 0 .. 15 : x * bs \in Nat  OBVIOUS
    <3>. QED  BY <2>1, <3>1
  <2>3. PICK q \in Nat : q = g \div 8  OBVIOUS
  <2>4. at + 1 + q \in Places /\ at + 1 + q > at  BY DEF Places
  <2>. QED  BY <2>1, <2>2, <2>3, <2>4
<1>3. ASSUME NEW r \in S PROVE Put(r) \in S
  <2>1. PICK p \in Places : p = r.next /\ p > at  OBVIOUS
  <2>2. Place(bytes, p).val \in Nat /\ Place(bytes, p).next \in Nat /\ Place(bytes, p).next > p
    BY VarByteAtIs DEF Place
  <2>3. PICK m \in Places : m = Place(bytes, p).next /\ m > p  BY <2>2 DEF Places
  <2>4. Value(bytes, p) = VarByteAt(bytes, m)  BY <2>3 DEF Value
  <2>5. Value(bytes, p).val \in Nat /\ Value(bytes, p).next \in Nat /\ Value(bytes, p).next > m
    BY <2>4, VarByteAtIs
  <2>6. Value(bytes, p).next \in Places /\ Value(bytes, p).next > at
    BY <2>1, <2>3, <2>5 DEF Places
  <2>7. Patch(bytes, r.vals, p) \in [1 .. bs -> Nat]
    <3>1. r.vals \in [1 .. bs -> Nat]  OBVIOUS
    <3>. QED  BY <2>5, <3>1 DEF Patch
  <2>. QED  BY <2>1, <2>6, <2>7
<1>. HIDE DEF start, Put, S
<1>4. PICK f : Recurses(f, S, start, F)
  <2>1. StepsIn(F, S)  BY <1>3 DEF StepsIn
  <2>. HIDE DEF F
  <2>. QED  BY <1>2, <2>1, Recursion
<1>5. f \in [Nat -> S] /\ f[0] = start /\ \A k \in Nat : f[k + 1] = Put(f[k])
  BY <1>4 DEF Recurses
<1>6. f = Body(f)
  <2>1. ASSUME NEW k \in Nat PROVE f[k] = IF k = 0 THEN start ELSE Put(f[k - 1])
    <3>1. CASE k = 0  BY <1>5, <3>1
    <3>2. CASE k # 0
      <4>1. k - 1 \in Nat /\ (k - 1) + 1 = k  BY <3>2
      <4>. QED  BY <1>5, <3>2, <4>1
    <3>. QED  BY <3>1, <3>2
  <2>. QED  BY <1>5, <2>1
<1>7. patched = Body(patched)  BY <1>6
<1>. HIDE DEF patched
<1>8. \A k \in Nat : patched[k] = IF k = 0 THEN start ELSE Put(patched[k - 1])  BY <1>7
<1>9. patched[0] = start /\ \A k \in Nat : patched[k + 1] = Put(patched[k])
  <2>1. ASSUME NEW k \in Nat PROVE patched[k + 1] = Put(patched[k])
    <3>1. k + 1 \in Nat /\ k + 1 # 0 /\ (k + 1) - 1 = k  OBVIOUS
    <3>. QED  BY <1>8, <3>1
  <2>. QED  BY <1>8, <2>1
<1>10. \A k \in Nat : patched[k] \in S
  <2>. DEFINE T == {k \in Nat : patched[k] \in S}
  <2>1. 0 \in T  BY <1>2, <1>9
  <2>2. ASSUME NEW k \in Nat, k \in T PROVE k + 1 \in T
    <3>1. patched[k + 1] = Put(patched[k]) /\ Put(patched[k]) \in S  BY <1>3, <1>9, <2>2
    <3>. QED  BY <3>1
  <2>. HIDE DEF T
  <2>3. Nat \subseteq T  BY <2>1, <2>2, Induction
  <2>. QED  BY <2>3 DEF T
<1>. DEFINE vs == [k \in Nat |-> patched[k].vals]
            ns == [k \in Nat |-> patched[k].next]
<1>11. Patches(vs, ns, bytes, at, bs)
  <2>1. \A k \in Nat : vs[k] \in [1 .. bs -> Nat] /\ ns[k] \in Places  BY <1>10 DEF S
  <2>2. vs[0] = ReadPacked(bytes, at, bs)
        /\ ns[0] = at + 1 + (ReadWidth(bytes, at) * bs) \div 8
    <3>1. start.vals = ReadPacked(bytes, at, bs)
          /\ start.next = at + 1 + (ReadWidth(bytes, at) * bs) \div 8
      BY Zenon DEF start
    <3>2. vs[0] = start.vals /\ ns[0] = start.next  BY <1>9
    <3>. HIDE DEF vs, ns
    <3>. QED  BY <3>1, <3>2, Zenon
  <2>3. ASSUME NEW k \in Nat
        PROVE  vs[k + 1] = Patch(bytes, vs[k], ns[k]) /\ ns[k + 1] = Value(bytes, ns[k]).next
    <3>1. patched[k + 1] = Put(patched[k]) /\ k + 1 \in Nat  BY <1>9
    <3>. QED  BY <3>1 DEF Put
  <2>. QED  BY <2>1, <2>2, <2>3 DEF Patches
<1>12. \A k \in Nat : ns[k] > at  BY <1>10 DEF S
<1>13. bytes[at] \div 16 \in Nat
  <2>1. bytes[at] \in Nat /\ 16 \in Nat \ {0}  BY ByteIn
  <2>. QED  BY <2>1, DivisionTypes
<1>14. patched[bytes[at] \div 16] = [vals |-> vs[bytes[at] \div 16], next |-> ns[bytes[at] \div 16]]
  <2>1. \A k \in Nat : patched[k] = [vals |-> patched[k].vals, next |-> patched[k].next]
    BY <1>10 DEF S
  <2>. QED  BY <1>13, <2>1
<1>. HIDE DEF vs, ns
<1>. QED  BY <1>1, <1>11, <1>12, <1>14

(* The pieces of a block of width b *)
Header(vals, b) ==
    16 * Cardinality(Exceptional(vals, b)) + (IF Special(vals, b) THEN 0 ELSE b)
PackedPart(vals, b) == IF Special(vals, b) THEN <<>> ELSE Packed(vals, b)
Exception(vals, b, i) ==
    IF i \in Exceptional(vals, b) THEN VarByte(i - 1) \o VarByte(vals[i]) ELSE <<>>
Exceptions(vals, b) == [i \in DOMAIN vals |-> Exception(vals, b, i)]

(* A block of width b, as the file format can hold it *)
Pieces(block, vals, b) ==
    /\ Cardinality(Exceptional(vals, b)) \in Nat
    /\ Cardinality(Exceptional(vals, b)) <= 15
    /\ block = <<Header(vals, b)>> \o PackedPart(vals, b) \o FlattenSeq(Exceptions(vals, b))

(* What blocks can be made of *)
Block(vals) ==
    /\ vals \in Seq(Nat) /\ Len(vals) > 0
    /\ Len(vals) % 8 = 0 /\ (15 * (Len(vals) - 1)) \div 8 < 256

LEMMA BlockIs ==
    ASSUME NEW vals \in Seq(Nat), NEW max \in 0 .. 15, EncodedBlock(vals, max) # NoBlock
    PROVE  \E b \in 1 .. 15 : Pieces(EncodedBlock(vals, max), vals, b)
<1>. DEFINE W == Widths(vals, max)
            b == Min(W)
            card == Cardinality(Exceptional(vals, b))
<1>1. W # {} /\ W \in SUBSET (1 .. 15)  BY DEF EncodedBlock, NoBlock, Widths
<1>2. b \in W
  <2>1. W \in SUBSET Nat  BY <1>1
  <2>. HIDE DEF W
  <2>. QED  BY <1>1, <2>1, MinIsLeast DEF Min
<1>3. b \in 1 .. 15 /\ card <= max  BY <1>2 DEF Widths
<1>4. card \in Nat
  <2>1. IsFiniteSet(1 .. Len(vals))  BY FS_Interval
  <2>2. Exceptional(vals, b) \in SUBSET (1 .. Len(vals))  BY DEF Exceptional
  <2>. HIDE DEF b
  <2>3. IsFiniteSet(Exceptional(vals, b))  BY <2>1, <2>2, FS_Subset
  <2>. QED  BY <2>3, FS_CardinalityType
<1>5. EncodedBlock(vals, max)
        = <<Header(vals, b) % 256>> \o PackedPart(vals, b) \o FlattenSeq(Exceptions(vals, b))
  <2>1. W # {}  BY <1>1
  <2>. QED
    BY <2>1 DEF EncodedBlock, Header, PackedPart, Exceptions, Exception
<1>. HIDE DEF b
<1>6. Header(vals, b) % 256 = Header(vals, b)
  <2>1. PICK x \in Nat : x = Header(vals, b) /\ x < 256
    <3>1. CASE Special(vals, b)
      <4>1. Header(vals, b) = 16 * card + 0  BY <3>1 DEF Header
      <4>. QED  BY <1>3, <1>4, <4>1
    <3>2. CASE ~Special(vals, b)
      <4>1. Header(vals, b) = 16 * card + b  BY <3>2 DEF Header
      <4>. QED  BY <1>3, <1>4, <4>1
    <3>. QED  BY <3>1, <3>2
  <2>2. 256 \in Nat \ {0}  OBVIOUS
  <2>. QED  BY <2>1, <2>2, SmallNumber
<1>7. card <= 15  BY <1>3, <1>4
<1>. QED  BY <1>3, <1>4, <1>5, <1>6, <1>7 DEF Pieces

LEMMA ExceptionsAre ==
    ASSUME NEW vals \in Seq(Nat), NEW b
    PROVE  /\ Exceptions(vals, b) \in Seq(Seq(Byte)) /\ Len(Exceptions(vals, b)) = Len(vals)
           /\ FlattenSeq(Exceptions(vals, b)) \in Seq(Byte)
<1>1. ASSUME NEW i \in DOMAIN vals PROVE Exception(vals, b, i) \in Seq(Byte)
  <2>1. i - 1 \in Nat /\ vals[i] \in Nat  OBVIOUS
  <2>2. VarByte(i - 1) \in Seq(Byte) /\ VarByte(vals[i]) \in Seq(Byte)  BY <2>1, EncodingIs
  <2>3. VarByte(i - 1) \o VarByte(vals[i]) \in Seq(Byte)  BY <2>2
  <2>. QED  BY <2>3 DEF Exception
<1>2. Exceptions(vals, b) \in Seq(Seq(Byte)) /\ Len(Exceptions(vals, b)) = Len(vals)
  BY <1>1 DEF Exceptions
<1>3. PICK c : UpTo(c, Exceptions(vals, b), Byte)
               /\ FlattenSeq(Exceptions(vals, b)) = c[Len(Exceptions(vals, b))]
  BY <1>2, FlattenIs
<1>. QED  BY <1>2, <1>3 DEF UpTo

LEMMA PiecesAre ==
    ASSUME NEW vals, Block(vals), NEW b \in 1 .. 15, NEW block, Pieces(block, vals, b)
    PROVE  /\ Header(vals, b) \in Byte /\ PackedPart(vals, b) \in Seq(Byte)
           /\ Header(vals, b) \div 16 = Cardinality(Exceptional(vals, b))
           /\ Header(vals, b) % 16 = IF Special(vals, b) THEN 0 ELSE b
           /\ block \in Seq(Byte)
           /\ Len(block) = 1 + Len(PackedPart(vals, b)) + Len(FlattenSeq(Exceptions(vals, b)))
           /\ Len(PackedPart(vals, b)) = ((IF Special(vals, b) THEN 0 ELSE b) * Len(vals)) \div 8
<1>. DEFINE w == IF Special(vals, b) THEN 0 ELSE b
<1>1. PICK card \in Nat : card = Cardinality(Exceptional(vals, b)) /\ card <= 15  BY DEF Pieces
<1>2. w \in 0 .. 15 /\ Header(vals, b) = 16 * card + w  BY <1>1 DEF Header
<1>9. (Special(vals, b) => w = 0) /\ (~Special(vals, b) => w = b)  OBVIOUS
<1>. HIDE DEF w
<1>3. PackedPart(vals, b) \in Seq(Byte) /\ Len(PackedPart(vals, b)) = (w * Len(vals)) \div 8
  <2>1. CASE Special(vals, b)
    <3>1. PackedPart(vals, b) = <<>> /\ w = 0  BY <1>9, <2>1 DEF PackedPart
    <3>2. PICK l \in Nat : l = Len(vals)  BY DEF Block
    <3>3. (w * l) \div 8 = 0  BY <3>1
    <3>. QED  BY <3>1, <3>2, <3>3
  <2>2. CASE ~Special(vals, b)
    <3>1. PackedPart(vals, b) = Packed(vals, b) /\ w = b  BY <1>9, <2>2 DEF PackedPart
    <3>. QED  BY <3>1, PackedIs DEF Block
  <2>. QED  BY <2>1, <2>2
<1>4. Header(vals, b) \in Byte
  <2>1. 16 * card + w \in 0 .. 255  BY <1>1, <1>2
  <2>. QED  BY <1>2, <2>1 DEF Byte
<1>5. Header(vals, b) \div 16 = card /\ Header(vals, b) % 16 = w
  <2>1. 16 \in Nat \ {0} /\ w \in 0 .. 16 - 1  BY <1>2
  <2>. QED  BY <1>2, <2>1, DivisionUnique
<1>6. FlattenSeq(Exceptions(vals, b)) \in Seq(Byte)  BY ExceptionsAre DEF Block
<1>7. PICK h \in Byte, p \in Seq(Byte), x \in Seq(Byte) :
        h = Header(vals, b) /\ p = PackedPart(vals, b) /\ x = FlattenSeq(Exceptions(vals, b))
  BY <1>3, <1>4, <1>6
<1>8. block \in Seq(Byte)
      /\ Len(block) = 1 + Len(PackedPart(vals, b)) + Len(FlattenSeq(Exceptions(vals, b)))
  <2>1. block = <<h>> \o p \o x  BY <1>7 DEF Pieces
  <2>2. <<h>> \o p \o x \in Seq(Byte) /\ Len(<<h>> \o p \o x) = 1 + Len(p) + Len(x)  OBVIOUS
  <2>. QED  BY <1>7, <2>1, <2>2
<1>. QED  BY <1>1, <1>3, <1>4, <1>5, <1>8 DEF w

(* Where the pieces of a block lie *)
LEMMA PiecesLie ==
    ASSUME NEW vals, Block(vals), NEW b \in 1 .. 15, NEW block, Pieces(block, vals, b),
           NEW bytes \in Seq(Byte), NEW at, Lies(block, bytes, at)
    PROVE  /\ at \in DOMAIN bytes /\ bytes[at] = Header(vals, b)
           /\ Lies(PackedPart(vals, b), bytes, at + 1)
           /\ Lies(FlattenSeq(Exceptions(vals, b)), bytes, at + 1 + Len(PackedPart(vals, b)))
<1>1. PICK h \in Seq(Byte) : h = <<Header(vals, b)>> /\ Len(h) = 1 /\ h[1] = Header(vals, b)
  <2>1. PICK x \in Byte : x = Header(vals, b)  BY PiecesAre
  <2>2. <<x>> \in Seq(Byte) /\ Len(<<x>>) = 1 /\ <<x>>[1] = x  OBVIOUS
  <2>. QED  BY <2>1, <2>2
<1>2. PICK p \in Seq(Byte) : p = PackedPart(vals, b)  BY PiecesAre
<1>3. PICK x \in Seq(Byte) : x = FlattenSeq(Exceptions(vals, b))  BY ExceptionsAre DEF Block
<1>4. block = (h \o p) \o x /\ h \o p \in Seq(Byte)  BY <1>1, <1>2, <1>3 DEF Pieces
<1>5. Lies(h \o p, bytes, at) /\ Lies(x, bytes, at + Len(h \o p))
  <2>1. Lies((h \o p) \o x, bytes, at)  BY <1>4
  <2>. QED  BY <1>4, <2>1, BothLie
<1>6. Lies(h, bytes, at) /\ Lies(p, bytes, at + Len(h))  BY <1>5, BothLie
<1>7. at + Len(h \o p) = at + 1 + Len(p) /\ at + Len(h) = at + 1  BY <1>1, <1>6 DEF Lies
<1>8. at \in DOMAIN bytes /\ bytes[at] = h[1]
  <2>1. 1 \in 1 .. Len(h) /\ at \in Nat  BY <1>1, <1>6 DEF Lies
  <2>2. at + 1 - 1 \in 1 .. Len(bytes) /\ bytes[at + 1 - 1] = h[1]  BY <1>6, <2>1 DEF Lies
  <2>3. at + 1 - 1 = at  BY <2>1
  <2>. QED  BY <2>2, <2>3
<1>. QED  BY <1>1, <1>2, <1>3, <1>5, <1>6, <1>7, <1>8

(* What is unpacked is right except for the exceptions *)
LEMMA UnpackedIs ==
    ASSUME NEW vals, Block(vals), NEW b \in 1 .. 15, NEW block, Pieces(block, vals, b),
           NEW bytes \in Seq(Byte), NEW at, Lies(block, bytes, at),
           NEW i \in DOMAIN vals, i \notin Exceptional(vals, b)
    PROVE  ReadPacked(bytes, at, Len(vals))[i] = vals[i]
<1>1. at \in DOMAIN bytes /\ bytes[at] = Header(vals, b)  BY PiecesLie
<1>2. ReadWidth(bytes, at) = IF Special(vals, b) THEN 0 ELSE b
  BY <1>1, PiecesAre DEF ReadWidth
<1>3. vals \in Seq(Nat) /\ i \in 1 .. Len(vals) /\ vals[i] \in Nat /\ Len(vals) \in Nat
  BY DEF Block
<1>4. CASE Special(vals, b)
  <2>1. vals[i] = 1  BY <1>4 DEF Special
  <2>2. ReadWidth(bytes, at) = 0  BY <1>2, <1>4
  <2>. QED  BY <1>3, <2>1, <2>2 DEF ReadPacked
<1>5. CASE ~Special(vals, b)
  <2>1. ReadWidth(bytes, at) = b /\ b # 0  BY <1>2, <1>5
  <2>2. Lies(Packed(vals, b), bytes, at + 1)  BY <1>5, PiecesLie DEF PackedPart
  <2>3. PICK l \in Nat, k \in Nat : l = Len(vals) /\ k = i - 1 /\ k < l  BY <1>3
  <2>4. PICK m \in Nat : m = b * k  OBVIOUS
  <2>5. ReadFrom(b, i) = m
    <3>1. m \div 8 < 256
      <4>1. b * k <= 15 * (l - 1)
        <5>1. PICK c \in Nat, d \in Nat : 15 = b + c /\ l - 1 = k + d
          <6>1. 15 - b \in Nat /\ 15 = b + (15 - b)  OBVIOUS
          <6>2. l - 1 - k \in Nat /\ l - 1 = k + (l - 1 - k)  BY <2>3
          <6>. QED  BY <6>1, <6>2
        <5>2. 15 * (l - 1) = (b + c) * (k + d)  BY <5>1
        <5>3. (b + c) * (k + d) = b * k + b * d + c * k + c * d  OBVIOUS
        <5>4. b * d \in Nat /\ c * k \in Nat /\ c * d \in Nat /\ b * k \in Nat  OBVIOUS
        <5>5. b * k <= b * k + b * d + c * k + c * d  BY <5>4
        <5>. QED  BY <5>2, <5>3, <5>5
      <4>2. PICK g \in Nat : g = 15 * (l - 1) /\ g \div 8 < 256
        <5>1. 15 * (l - 1) \in Nat  BY <2>3
        <5>. QED  BY <2>3, <5>1 DEF Block
      <4>3. m \div 8 <= g \div 8
        <5>1. 8 \in Nat \ {0} /\ m <= g  BY <2>4, <4>1, <4>2
        <5>. QED  BY <5>1, DivisionMonotone
      <4>4. g \div 8 \in Nat /\ m \div 8 \in Nat
        <5>1. 8 \in Nat \ {0}  OBVIOUS
        <5>. QED  BY <5>1, DivisionTypes
      <4>. QED  BY <4>2, <4>3, <4>4
    <3>2. PICK q \in Nat, r \in Nat : q = m \div 8 /\ r = m % 8 /\ m = 8 * q + r /\ q < 256
      <4>1. 8 \in Nat \ {0}  OBVIOUS
      <4>2. m \div 8 \in Nat /\ m % 8 \in Nat /\ m = 8 * (m \div 8) + (m % 8)
        BY <4>1, Division, DivisionTypes
      <4>. QED  BY <3>1, <4>2
    <3>3. q % 256 = q
      <4>1. 256 \in Nat \ {0} /\ q \in 0 .. 256 - 1 /\ 0 \in Nat  BY <3>2
      <4>2. (256 * 0 + q) % 256 = q  BY <4>1, DivisionUnique
      <4>3. 256 * 0 + q = q  OBVIOUS
      <4>. QED  BY <4>2, <4>3
    <3>4. b * (i - 1) = m  BY <2>3, <2>4
    <3>5. ReadFrom(b, i) = 8 * (q % 256) + r  BY <3>2, <3>4 DEF ReadFrom
    <3>. QED  BY <3>2, <3>3, <3>5
  <2>6. ASSUME NEW j \in 0 .. b - 1 PROVE ReadBit(bytes, at, m + j) = BitOf(vals[i], j)
    <3>1. m + j \in Nat /\ m + j < b * Len(vals)
      <4>1. PICK d \in Nat : l = k + 1 + d
        <5>1. l - (k + 1) \in Nat /\ l = k + 1 + (l - (k + 1))  BY <2>3
        <5>. QED  BY <5>1
      <4>2. b * (k + 1 + d) = b * k + b + b * d /\ b * d \in Nat  OBVIOUS
      <4>3. PICK x \in Nat : x = b * d  BY <4>2
      <4>4. b * l = m + b + x  BY <2>4, <4>1, <4>2, <4>3
      <4>. QED  BY <2>3, <4>4
    <3>2. ReadBit(bytes, at, m + j) = BlockBit(vals, b, m + j)
      <4>1. at \in Places  BY DEF Lies, Places
      <4>. QED  BY <1>3, <2>2, <3>1, <4>1, BitsLie DEF Block
    <3>3. (b * k + j) \div b = k /\ (b * k + j) % b = j
      <4>1. b \in Nat \ {0} /\ k \in Nat  OBVIOUS
      <4>. QED  BY <4>1, DivisionUnique
    <3>4. k + 1 = i  BY <1>3, <2>3
    <3>. QED  BY <2>4, <3>2, <3>3, <3>4 DEF BlockBit
  <2>7. vals[i] < 2^b
    <3>1. width[vals[i]] \in Nat /\ ~(width[vals[i]] > b)
      BY <1>3, WidthIs DEF Exceptional, minbits
    <3>2. width[vals[i]] <= b /\ b \in Nat  BY <3>1
    <3>. QED  BY <1>3, <3>2, WidthIs
  <2>8. Number([j \in 0 .. b - 1 |-> BitOf(vals[i], j)]) = vals[i]
    <3>1. b \in Nat  OBVIOUS
    <3>. QED  BY <1>3, <2>7, <3>1, NumberOfBits
  <2>9. [j \in 0 .. b - 1 |-> ReadBit(bytes, at, m + j)] = [j \in 0 .. b - 1 |-> BitOf(vals[i], j)]
    BY <2>6
  <2>10. ReadPacked(bytes, at, Len(vals))[i]
           = Number([j \in 0 .. b - 1 |-> ReadBit(bytes, at, m + j)])
    BY <1>3, <2>1, <2>5 DEF ReadPacked
  <2>. QED  BY <2>8, <2>9, <2>10
<1>. QED  BY <1>4, <1>5

(* How many exceptions there are up to a place *)
OddUpTo(vals, b, i) == {x \in Exceptional(vals, b) : x <= i}

LEMMA OddCount ==
    ASSUME NEW vals \in Seq(Nat), NEW b
    PROVE  /\ Cardinality(OddUpTo(vals, b, 0)) = 0
           /\ OddUpTo(vals, b, Len(vals)) = Exceptional(vals, b)
           /\ \A i \in Nat : /\ Cardinality(OddUpTo(vals, b, i)) \in Nat
                             /\ Cardinality(OddUpTo(vals, b, i + 1))
                                  = Cardinality(OddUpTo(vals, b, i))
                                      + IF i + 1 \in Exceptional(vals, b) THEN 1 ELSE 0
<1>. DEFINE odd == Exceptional(vals, b)
<1>1. odd \in SUBSET (1 .. Len(vals))  BY DEF Exceptional
<1>. HIDE DEF odd
<1>2. \A x \in odd : x \in Nat /\ x >= 1 /\ x <= Len(vals)  BY <1>1
<1>3. {x \in odd : x <= 0} = {} /\ {x \in odd : x <= Len(vals)} = odd  BY <1>2
<1>4. ASSUME NEW i \in Nat PROVE IsFiniteSet({x \in odd : x <= i})
  <2>1. IsFiniteSet(1 .. Len(vals))  BY FS_Interval
  <2>2. {x \in odd : x <= i} \in SUBSET (1 .. Len(vals))  BY <1>1
  <2>. QED  BY <2>1, <2>2, FS_Subset
<1>5. ASSUME NEW i \in Nat
      PROVE  Cardinality({x \in odd : x <= i + 1})
               = Cardinality({x \in odd : x <= i}) + IF i + 1 \in odd THEN 1 ELSE 0
  <2>. DEFINE now == {x \in odd : x <= i}
  <2>1. IsFiniteSet(now) /\ Cardinality(now) \in Nat  BY <1>4, FS_CardinalityType
  <2>2. CASE i + 1 \in odd
    <3>1. {x \in odd : x <= i + 1} = now \cup {i + 1}  BY <1>2, <2>2
    <3>2. i + 1 \notin now  OBVIOUS
    <3>. HIDE DEF now
    <3>3. Cardinality(now \cup {i + 1}) = Cardinality(now) + 1  BY <2>1, <3>2, FS_AddElement
    <3>. QED  BY <2>2, <3>1, <3>3 DEF now
  <2>3. CASE i + 1 \notin odd
    <3>1. {x \in odd : x <= i + 1} = now  BY <1>2, <2>3
    <3>. HIDE DEF now
    <3>2. Cardinality(now) = Cardinality(now) + 0  BY <2>1
    <3>. QED  BY <2>3, <3>1, <3>2 DEF now
  <2>. QED  BY <2>2, <2>3
<1>6. \A i \in Nat : Cardinality({x \in odd : x <= i}) \in Nat  BY <1>4, FS_CardinalityType
<1>7. Cardinality({x \in odd : x <= 0}) = 0  BY <1>3, FS_EmptySet
<1>. QED  BY <1>3, <1>5, <1>6, <1>7 DEF OddUpTo, odd

(* Reading one exception where it lies *)
LEMMA ExceptionReads ==
    ASSUME NEW bytes \in Seq(Byte), NEW i \in Nat, NEW v \in Nat, NEW next,
           Lies(VarByte(i) \o VarByte(v), bytes, next)
    PROVE  /\ Place(bytes, next).val = i /\ Value(bytes, next).val = v
           /\ Value(bytes, next).next = next + Len(VarByte(i) \o VarByte(v))
<1>1. PICK p \in Seq(Byte), q \in Seq(Byte) : p = VarByte(i) /\ q = VarByte(v)  BY EncodingIs
<1>2. Lies(p, bytes, next) /\ Lies(q, bytes, next + Len(p))  BY <1>1, BothLie
<1>3. Place(bytes, next) = [val |-> i, next |-> next + Len(p)]
  BY <1>1, <1>2, VarByteReads DEF Place
<1>4. Value(bytes, next) = [val |-> v, next |-> next + Len(p) + Len(q)]
  <2>1. Value(bytes, next) = VarByteAt(bytes, next + Len(p))  BY <1>3 DEF Value
  <2>. QED  BY <1>1, <1>2, <2>1, VarByteReads
<1>5. next + Len(p) + Len(q) = next + Len(p \o q)  BY <1>2 DEF Lies
<1>. QED  BY <1>1, <1>3, <1>4, <1>5

(* The values once the exceptions up to place i are in *)
Patched(bytes, at, vals, b, i) ==
    [x \in 1 .. Len(vals) |-> IF x \in OddUpTo(vals, b, i) THEN vals[x]
                              ELSE ReadPacked(bytes, at, Len(vals))[x]]

LEMMA PatchedUpTo ==
    ASSUME NEW vals, Block(vals), NEW b \in 1 .. 15, NEW block, Pieces(block, vals, b),
           NEW bytes \in Seq(Byte), NEW at, Lies(block, bytes, at),
           NEW vs, NEW ns, Patches(vs, ns, bytes, at, Len(vals)),
           NEW c, UpTo(c, Exceptions(vals, b), Byte),
           FlattenSeq(Exceptions(vals, b)) = c[Len(vals)]
    PROVE  \A i \in 0 .. Len(vals) :
             LET k == Cardinality(OddUpTo(vals, b, i))
             IN  /\ vs[k] = Patched(bytes, at, vals, b, i)
                 /\ ns[k] = at + 1 + Len(PackedPart(vals, b)) + Len(c[i])
<1>. DEFINE card(i) == Cardinality(OddUpTo(vals, b, i))
            first == at + 1 + Len(PackedPart(vals, b))
            Right(i) == /\ vs[card(i)] = Patched(bytes, at, vals, b, i)
                        /\ ns[card(i)] = first + Len(c[i])
            T == {i \in Nat : i <= Len(vals) => Right(i)}
<1>1. vals \in Seq(Nat) /\ Len(vals) \in Nat  BY DEF Block
<1>2. at \in DOMAIN bytes /\ bytes[at] = Header(vals, b)
      /\ Lies(FlattenSeq(Exceptions(vals, b)), bytes, first)
  BY PiecesLie
<1>3. first \in Nat
  <2>1. PICK p \in Seq(Byte) : p = PackedPart(vals, b)  BY PiecesAre
  <2>2. at \in Nat  BY DEF Lies
  <2>. QED  BY <2>1, <2>2
<1>4. ReadPacked(bytes, at, Len(vals)) \in [1 .. Len(vals) -> Nat]  BY <1>1, <1>2, ReadPackedIs
<1>5. Exceptions(vals, b) \in Seq(Seq(Byte)) /\ Len(Exceptions(vals, b)) = Len(vals)
      /\ c \in [0 .. Len(vals) -> Seq(Byte)] /\ c[0] = <<>>
  BY <1>1, ExceptionsAre DEF UpTo
<1>6. card(0) = 0 /\ \A i \in Nat : card(i) \in Nat
      /\ card(i + 1) = card(i) + IF i + 1 \in Exceptional(vals, b) THEN 1 ELSE 0
  BY <1>1, OddCount
<1>. HIDE DEF card, first
<1>7. Right(0)
  <2>1. vs[0] = ReadPacked(bytes, at, Len(vals))
        /\ ns[0] = at + 1 + (ReadWidth(bytes, at) * Len(vals)) \div 8
    BY DEF Patches
  <2>2. ReadWidth(bytes, at) = IF Special(vals, b) THEN 0 ELSE b
    BY <1>2, PiecesAre DEF ReadWidth
  <2>3. Len(PackedPart(vals, b)) = (ReadWidth(bytes, at) * Len(vals)) \div 8
    BY <2>2, PiecesAre
  <2>4. ns[0] = first  BY <2>1, <2>3 DEF first
  <2>5. first + Len(c[0]) = first  BY <1>3, <1>5
  <2>6. Patched(bytes, at, vals, b, 0) = ReadPacked(bytes, at, Len(vals))
    <3>1. \A x \in 1 .. Len(vals) : x \notin OddUpTo(vals, b, 0)  BY DEF OddUpTo
    <3>. QED  BY <1>4, <3>1 DEF Patched
  <2>. QED  BY <1>6, <2>1, <2>4, <2>5, <2>6
<1>8. ASSUME NEW i \in Nat, i \in T PROVE i + 1 \in T
  <2>1. SUFFICES ASSUME i + 1 <= Len(vals) PROVE Right(i + 1)  OBVIOUS
  <2>2. Right(i) /\ i + 1 \in 1 .. Len(vals)  BY <1>1, <1>8, <2>1
  <2>. DEFINE next == first + Len(c[i])
              e == Exception(vals, b, i + 1)
  <2>3. /\ Len(c[i + 1]) = Len(c[i]) + Len(e)
        /\ Lies(e, bytes, next)
        /\ next \in Nat /\ Len(c[i]) \in Nat /\ e \in Seq(Byte)
    <3>1. Exceptions(vals, b)[i + 1] = e  BY <2>2 DEF Exceptions
    <3>2. (i + 1) - 1 = i /\ i \in 0 .. Len(vals)  BY <1>1, <2>2
    <3>3. Len(c[i + 1]) = Len(c[i]) + Len(e) /\ Lies(e, c[Len(vals)], Len(c[i]) + 1)
      <4>1. PICK s \in Seq(Seq(Byte)) : s = Exceptions(vals, b) /\ Len(s) = Len(vals)  BY <1>5
      <4>4. PICK j \in 1 .. Len(s) : j = i + 1  BY <2>2, <4>1
      <4>2. UpTo(c, s, Byte)  BY <4>1
      <4>3. Len(c[j]) = Len(c[j - 1]) + Len(s[j]) /\ Lies(s[j], c[Len(s)], Len(c[j - 1]) + 1)
        BY <4>2, PartsLie
      <4>. QED  BY <3>1, <3>2, <4>1, <4>3, <4>4
    <3>4. Len(c[i]) \in Nat /\ e \in Seq(Byte)  BY <1>5, <2>2, <3>1, <3>2
    <3>5. Lies(e, bytes, first + (Len(c[i]) + 1) - 1)
      BY <1>2, <3>3, <3>4, PartOfPart DEF first
    <3>6. first + (Len(c[i]) + 1) - 1 = next /\ next \in Nat  BY <1>3, <3>4
    <3>. QED  BY <3>3, <3>4, <3>5, <3>6
  <2>6. Right(i) => ns[card(i)] = next  OBVIOUS
  <2>7. next = first + Len(c[i]) /\ e = Exception(vals, b, i + 1)  OBVIOUS
  <2>. HIDE DEF next, e
  <2>8. Len(e) \in Nat  BY <2>3
  <2>4. CASE i + 1 \in Exceptional(vals, b)
    <3>1. e = VarByte(i) \o VarByte(vals[i + 1]) /\ vals[i + 1] \in Nat
      <4>1. (i + 1) - 1 = i  OBVIOUS
      <4>. QED  BY <1>1, <2>2, <2>4, <2>7, <4>1 DEF Exception
    <3>2. Place(bytes, next).val = i /\ Value(bytes, next).val = vals[i + 1]
          /\ Value(bytes, next).next = next + Len(e)
      <4>1. PICK v \in Nat : v = vals[i + 1]  BY <3>1
      <4>2. Lies(VarByte(i) \o VarByte(v), bytes, next)  BY <2>3, <3>1, <4>1
      <4>3. /\ Place(bytes, next).val = i /\ Value(bytes, next).val = v
            /\ Value(bytes, next).next = next + Len(VarByte(i) \o VarByte(v))
        BY <4>2, ExceptionReads
      <4>4. e = VarByte(i) \o VarByte(v)  BY <3>1, <4>1
      <4>. QED  BY <4>1, <4>3, <4>4
    <3>3. card(i + 1) = card(i) + 1 /\ card(i) \in Nat  BY <1>6, <2>4
    <3>4. vs[card(i + 1)] = Patch(bytes, vs[card(i)], ns[card(i)])
          /\ ns[card(i + 1)] = Value(bytes, ns[card(i)]).next
      BY <3>3 DEF Patches
    <3>5. ns[card(i + 1)] = first + Len(c[i + 1])
      <4>1. ns[card(i + 1)] = next + Len(e)  BY <2>2, <2>6, <3>2, <3>4
      <4>2. next + Len(e) = first + (Len(c[i]) + Len(e))
        <5>1. PICK x \in Nat, y \in Nat, z \in Nat : x = Len(c[i]) /\ y = Len(e) /\ z = first
          BY <1>3, <2>3, <2>8
        <5>2. z + x + y = z + (x + y)  OBVIOUS
        <5>. QED  BY <2>7, <5>1, <5>2
      <4>. QED  BY <2>3, <4>1, <4>2
    <3>6. vs[card(i + 1)] = [Patched(bytes, at, vals, b, i) EXCEPT ![i + 1] = vals[i + 1]]
      BY <2>2, <2>6, <3>2, <3>4 DEF Patch
    <3>7. \A x \in 1 .. Len(vals) : x \in OddUpTo(vals, b, i + 1)
                                    <=> x \in OddUpTo(vals, b, i) \/ x = i + 1
      BY <2>4 DEF OddUpTo
    <3>8. [Patched(bytes, at, vals, b, i) EXCEPT ![i + 1] = vals[i + 1]]
            = Patched(bytes, at, vals, b, i + 1)
      BY <2>2, <3>7 DEF Patched
    <3>. QED  BY <3>5, <3>6, <3>8
  <2>5. CASE i + 1 \notin Exceptional(vals, b)
    <3>1. e = <<>> /\ Len(e) = 0  BY <2>5, <2>7 DEF Exception
    <3>2. card(i + 1) = card(i)  BY <1>6, <2>5
    <3>3. Len(c[i + 1]) = Len(c[i])  BY <2>3, <3>1
    <3>4. \A x \in 1 .. Len(vals) : x \in OddUpTo(vals, b, i + 1) <=> x \in OddUpTo(vals, b, i)
      <4>1. ASSUME NEW x \in 1 .. Len(vals), x \in Exceptional(vals, b) PROVE x <= i + 1 <=> x <= i
        <5>1. x # i + 1  BY <2>5, <4>1, Zenon
        <5>2. x \in Nat  BY <1>1
        <5>. QED  BY <5>1, <5>2
      <4>. QED  BY <4>1 DEF OddUpTo
    <3>5. Patched(bytes, at, vals, b, i + 1) = Patched(bytes, at, vals, b, i)
      BY <3>4 DEF Patched
    <3>. QED  BY <2>2, <3>2, <3>3, <3>5
  <2>. QED  BY <2>4, <2>5
<1>9. Nat \subseteq T
  <2>1. 0 \in T  BY <1>7
  <2>. HIDE DEF T
  <2>. QED  BY <1>8, <2>1, Induction
<1>10. ASSUME NEW i \in 0 .. Len(vals) PROVE Right(i)
  <2>1. i \in Nat /\ i <= Len(vals)  BY <1>1
  <2>2. i \in T
    <3>. HIDE DEF T
    <3>. QED  BY <1>9, <2>1
  <2>. QED  BY <2>1, <2>2
<1>. QED  BY <1>10 DEF card, first

(* A block is read back where it lies, and reading goes on behind it *)
LEMMA BlockReads ==
    ASSUME NEW vals, Block(vals), NEW max \in 0 .. 15, EncodedBlock(vals, max) # NoBlock,
           NEW bytes \in Seq(Byte), NEW at, Lies(EncodedBlock(vals, max), bytes, at)
    PROVE  DecodedBlock(bytes, at, Len(vals))
             = [vals |-> vals, next |-> at + Len(EncodedBlock(vals, max))]
<1>. DEFINE block == EncodedBlock(vals, max)
<1>1. vals \in Seq(Nat) /\ Len(vals) \in Nat  BY DEF Block
<1>2. PICK b \in 1 .. 15 : Pieces(block, vals, b)  BY <1>1, BlockIs
<1>. HIDE DEF block
<1>3. Lies(block, bytes, at)  BY DEF block
<1>4. at \in DOMAIN bytes /\ bytes[at] = Header(vals, b)  BY <1>2, <1>3, PiecesLie
<1>5. bytes[at] \div 16 = Cardinality(OddUpTo(vals, b, Len(vals)))
  <2>1. Header(vals, b) \div 16 = Cardinality(Exceptional(vals, b))  BY <1>2, PiecesAre
  <2>. QED  BY <1>1, <1>4, <2>1, OddCount
<1>6. PICK vs, ns : /\ Patches(vs, ns, bytes, at, Len(vals))
                    /\ DecodedBlock(bytes, at, Len(vals))
                         = [vals |-> vs[bytes[at] \div 16], next |-> ns[bytes[at] \div 16]]
  BY <1>1, <1>4, DecodedIs
<1>7. PICK c : UpTo(c, Exceptions(vals, b), Byte)
               /\ FlattenSeq(Exceptions(vals, b)) = c[Len(vals)]
  <2>1. PICK s \in Seq(Seq(Byte)) : s = Exceptions(vals, b) /\ Len(s) = Len(vals)
    BY <1>1, ExceptionsAre
  <2>2. PICK c : UpTo(c, s, Byte) /\ FlattenSeq(s) = c[Len(s)]  BY FlattenIs
  <2>. QED  BY <2>1, <2>2
<1>8. /\ vs[bytes[at] \div 16] = Patched(bytes, at, vals, b, Len(vals))
      /\ ns[bytes[at] \div 16] = at + 1 + Len(PackedPart(vals, b)) + Len(c[Len(vals)])
  <2>1. Len(vals) \in 0 .. Len(vals)  BY <1>1
  <2>. QED  BY <1>2, <1>3, <1>5, <1>6, <1>7, <2>1, PatchedUpTo
<1>9. Patched(bytes, at, vals, b, Len(vals)) = vals
  <2>1. OddUpTo(vals, b, Len(vals)) = Exceptional(vals, b)  BY <1>1, OddCount
  <2>2. ASSUME NEW x \in 1 .. Len(vals), x \notin Exceptional(vals, b)
        PROVE  ReadPacked(bytes, at, Len(vals))[x] = vals[x]
    <3>1. x \in DOMAIN vals  BY <1>1
    <3>. QED  BY <1>2, <1>3, <2>2, <3>1, UnpackedIs
  <2>3. vals = [x \in 1 .. Len(vals) |-> vals[x]]  BY <1>1
  <2>. QED  BY <2>1, <2>2, <2>3 DEF Patched
<1>10. at + 1 + Len(PackedPart(vals, b)) + Len(c[Len(vals)]) = at + Len(block)
  <2>1. PICK p \in Nat, x \in Nat : /\ p = Len(PackedPart(vals, b)) /\ x = Len(c[Len(vals)])
                                    /\ Len(block) = 1 + p + x
    <3>1. PICK q \in Seq(Byte) : q = PackedPart(vals, b)  BY <1>2, PiecesAre
    <3>2. PICK y \in Seq(Byte) : y = c[Len(vals)]  BY <1>1, <1>7, ExceptionsAre
    <3>3. Len(block) = 1 + Len(PackedPart(vals, b)) + Len(FlattenSeq(Exceptions(vals, b)))
      BY <1>2, PiecesAre
    <3>4. Len(block) = 1 + Len(q) + Len(y)  BY <1>7, <3>1, <3>2, <3>3
    <3>5. Len(q) \in Nat /\ Len(y) \in Nat  OBVIOUS
    <3>6. Len(y) = Len(c[Len(vals)]) /\ Len(q) = Len(PackedPart(vals, b))  BY <3>1, <3>2
    <3>. QED  BY <3>4, <3>5, <3>6
  <2>2. at \in Nat  BY <1>3 DEF Lies
  <2>3. at + 1 + p + x = at + (1 + p + x)  BY <2>2
  <2>. QED  BY <2>1, <2>3
<1>. QED  BY <1>6, <1>8, <1>9, <1>10 DEF block

(* A block is made of bytes and not empty *)
LEMMA BlockBytes ==
    ASSUME NEW vals, Block(vals), NEW max \in 0 .. 15, EncodedBlock(vals, max) # NoBlock
    PROVE  EncodedBlock(vals, max) \in Seq(Byte)
<1>1. PICK b \in 1 .. 15 : Pieces(EncodedBlock(vals, max), vals, b)  BY BlockIs DEF Block
<1>. QED  BY <1>1, PiecesAre

-----------------------------------------------------------------------------
(* Pieces, one behind another *)

(* Where the pieces of s lie in v and all of them *)
Chain(p, s, v, data) ==
    /\ p \in [0 .. Len(s) -> Places]
    /\ p[0] = 1 + Len(v) /\ p[Len(s)] = Len(data) + 1
    /\ \A j \in 0 .. Len(s) - 1 : /\ Lies(s[j + 1], data, p[j])
                                  /\ p[j + 1] = p[j] + Len(s[j + 1])

LEMMA ChainIs ==
    ASSUME NEW v \in Seq(Byte), NEW s \in Seq(Seq(Byte))
    PROVE  /\ FlattenSeq(s) \in Seq(Byte)
           /\ \E p : Chain(p, s, v, v \o FlattenSeq(s))
<1>1. PICK c : UpTo(c, s, Byte) /\ FlattenSeq(s) = c[Len(s)]  BY FlattenIs
<1>2. PICK m \in Nat : m = Len(s)  OBVIOUS
<1>3. c \in [0 .. m -> Seq(Byte)] /\ c[0] = <<>>  BY <1>1, <1>2 DEF UpTo
<1>4. PICK x \in Seq(Byte) : x = FlattenSeq(s)  BY <1>1, <1>2, <1>3
<1>. DEFINE data == v \o x
            p == [j \in 0 .. m |-> 1 + Len(v) + Len(c[j])]
<1>5. Lies(x, data, 1 + Len(v))
  <2>1. data \in Seq(Byte)  OBVIOUS
  <2>2. Lies(data, data, 1)  BY <2>1, LiesInItself
  <2>. QED  BY <2>2, BothLie
<1>6. Len(data) = Len(v) + Len(x) /\ Len(v) \in Nat /\ Len(x) \in Nat  OBVIOUS
<1>. HIDE DEF data
<1>7. \A j \in 0 .. m : Len(c[j]) \in Nat /\ 1 + Len(v) + Len(c[j]) \in Places
  BY <1>3, <1>6 DEF Places
<1>8. p \in [0 .. m -> Places]  BY <1>7
<1>9. p[0] = 1 + Len(v) /\ p[m] = Len(data) + 1
  <2>1. 0 \in 0 .. m /\ m \in 0 .. m /\ Len(<<>>) = 0  OBVIOUS
  <2>2. p[0] = 1 + Len(v) + Len(c[0]) /\ p[m] = 1 + Len(v) + Len(c[m])  BY <2>1
  <2>3. c[m] = x  BY <1>1, <1>2, <1>4
  <2>. HIDE DEF p
  <2>4. p[0] = 1 + Len(v) + 0 /\ p[m] = 1 + Len(v) + Len(x)  BY <1>3, <2>1, <2>2, <2>3
  <2>. QED  BY <1>6, <2>4
<1>10. ASSUME NEW j \in 0 .. m - 1
       PROVE  Lies(s[j + 1], data, p[j]) /\ p[j + 1] = p[j] + Len(s[j + 1])
  <2>1. PICK i \in 1 .. Len(s) : i = j + 1 /\ i - 1 = j  BY <1>2
  <2>2. Len(c[i]) = Len(c[i - 1]) + Len(s[i]) /\ Lies(s[i], c[Len(s)], Len(c[i - 1]) + 1)
    BY <1>1, PartsLie
  <2>3. Len(c[i]) = Len(c[j]) + Len(s[i]) /\ Lies(s[i], x, Len(c[j]) + 1) /\ s[i] \in Seq(Byte)
    BY <1>1, <1>4, <2>1, <2>2
  <2>8. PICK a \in Nat, b \in Nat : a = Len(c[j]) /\ b = Len(v)
    <3>1. j \in 0 .. m  OBVIOUS
    <3>. QED  BY <1>6, <1>7, <3>1
  <2>9. PICK q \in Seq(Byte) : q = s[i]  BY <2>3
  <2>4. Lies(q, x, a + 1) /\ Len(c[i]) = a + Len(q)  BY <2>3, <2>8, <2>9
  <2>5. Lies(q, data, (1 + b) + (a + 1) - 1)
    <3>1. PICK k \in Nat, l \in Nat : k = a + 1 /\ l = 1 + b  OBVIOUS
    <3>2. Lies(x, data, l) /\ Lies(q, x, k)  BY <1>5, <2>4, <2>8, <3>1
    <3>3. Lies(q, data, l + k - 1)  BY <3>2, PartOfPart
    <3>. QED  BY <3>1, <3>3
  <2>6. (1 + b) + (a + 1) - 1 = 1 + b + a /\ Len(q) \in Nat
        /\ 1 + b + (a + Len(q)) = 1 + b + a + Len(q)
    OBVIOUS
  <2>7. p[j] = 1 + b + a /\ p[j + 1] = 1 + b + (a + Len(q))
    <3>1. j \in 0 .. m /\ j + 1 \in 0 .. m  OBVIOUS
    <3>2. p[j] = 1 + Len(v) + Len(c[j]) /\ p[j + 1] = 1 + Len(v) + Len(c[j + 1])  BY <3>1
    <3>. HIDE DEF p
    <3>. QED  BY <2>1, <2>4, <2>8, <3>2
  <2>. HIDE DEF p
  <2>. QED  BY <2>1, <2>5, <2>6, <2>7, <2>9
<1>. HIDE DEF p
<1>11. Chain(p, s, v, data)  BY <1>2, <1>8, <1>9, <1>10 DEF Chain
<1>. QED  BY <1>4, <1>11 DEF data

LEMMA Associative ==
    \A x, y, z \in Seq(Nat) : (x \o y) \o z = x \o (y \o z)
  OBVIOUS

(* What is read piece by piece is what the pieces hold: d[j] is in the first j *)
LEMMA ReadingOn ==
    ASSUME NEW f \in [Places -> Seq(Nat)], NEW m \in Nat, NEW p \in [0 .. m -> Places],
           NEW d \in [0 .. m -> Seq(Nat)], d[0] = <<>>, f[p[m]] = <<>>,
           \A j \in 0 .. m - 1 : \E t \in Seq(Nat) : /\ f[p[j]] = t \o f[p[j + 1]]
                                                     /\ d[j + 1] = d[j] \o t
    PROVE  f[p[0]] = d[m]
<1>. DEFINE joined(j) == d[j] \o f[p[j]]
            T == {j \in Nat : j <= m => joined(j) = f[p[0]]}
<1>1. \A j \in 0 .. m : f[p[j]] \in Seq(Nat) /\ d[j] \in Seq(Nat)  OBVIOUS
<1>2. 0 \in T
  <2>1. PICK s \in Seq(Nat) : s = f[p[0]]  BY <1>1
  <2>2. <<>> \o s = s  OBVIOUS
  <2>3. joined(0) = f[p[0]]  BY <2>1, <2>2
  <2>. HIDE DEF joined
  <2>. QED  BY <2>3
<1>3. ASSUME NEW j \in Nat, j \in T PROVE j + 1 \in T
  <2>. HIDE DEF joined
  <2>1. SUFFICES ASSUME j + 1 <= m PROVE joined(j + 1) = f[p[0]]  OBVIOUS
  <2>2. j \in 0 .. m - 1 /\ j \in 0 .. m /\ j + 1 \in 0 .. m  BY <2>1
  <2>3. PICK t \in Seq(Nat) : f[p[j]] = t \o f[p[j + 1]] /\ d[j + 1] = d[j] \o t  BY <2>2
  <2>4. joined(j) = f[p[0]]  BY <1>3, <2>2
  <2>5. PICK x \in Seq(Nat), y \in Seq(Nat) : x = d[j] /\ y = f[p[j + 1]]  BY <1>1, <2>2
  <2>6. (x \o t) \o y = x \o (t \o y)
    <3>1. x \in Seq(Nat) /\ y \in Seq(Nat) /\ t \in Seq(Nat)  BY <2>3, <2>5
    <3>. QED  BY <3>1, Associative
  <2>7. joined(j + 1) = (x \o t) \o y  BY <2>3, <2>5 DEF joined
  <2>8. joined(j) = x \o (t \o y)  BY <2>3, <2>5 DEF joined
  <2>. QED  BY <2>4, <2>6, <2>7, <2>8
<1>4. m \in T
  <2>. HIDE DEF T
  <2>. QED  BY <1>2, <1>3, Induction
<1>5. PICK x \in Seq(Nat) : x = d[m]  BY <1>1
<1>6. x \o <<>> = x  OBVIOUS
<1>7. joined(m) = f[p[0]]
  <2>. HIDE DEF joined
  <2>. QED  BY <1>4
<1>. QED  BY <1>5, <1>6, <1>7

-----------------------------------------------------------------------------
(* Differences *)

LEMMA AscendingIs ==
    ASSUME NEW ids \in Ascendings
    PROVE  /\ ids \in Seq(Nat) /\ Len(ids) \in Nat /\ Len(ids) >= 1 /\ ids[1] \in Nat
           /\ \A i, k \in 1 .. Len(ids) : i < k => ids[i] < ids[k]
<1>1. ids \in Seq(Nat) /\ ids # <<>> /\ \A i, k \in DOMAIN ids : i < k => ids[i] < ids[k]
  BY DEF Ascendings
<1>2. DOMAIN ids = 1 .. Len(ids) /\ Len(ids) \in Nat /\ Len(ids) # 0  BY <1>1
<1>3. 1 \in 1 .. Len(ids)  BY <1>2
<1>. QED  BY <1>1, <1>2, <1>3

(* A sequence of numbers that are not 0 *)
Positive(vals) == vals \in Seq(Nat) /\ \A i \in 1 .. Len(vals) : vals[i] # 0

LEMMA DeltasAre ==
    ASSUME NEW ids \in Ascendings
    PROVE  /\ Deltas(ids) \in Seq(Nat) /\ Len(Deltas(ids)) = Len(ids)
           /\ Positive(Tail(Deltas(ids)))
           /\ <<ids[1]>> \o Tail(Deltas(ids)) = Deltas(ids)
           /\ Sums(Deltas(ids)) = ids
<1>1. /\ ids \in Seq(Nat) /\ Len(ids) \in Nat /\ Len(ids) >= 1 /\ ids[1] \in Nat
      /\ \A i, k \in 1 .. Len(ids) : i < k => ids[i] < ids[k]
  BY AscendingIs
<1>. DEFINE D == 1 .. Len(ids)
            delta(i) == IF i = 1 THEN ids[1] ELSE ids[i] - ids[i - 1]
<1>2. Deltas(ids) = [i \in D |-> delta(i)]  BY <1>1 DEF Deltas
<1>3. ASSUME NEW i \in D
      PROVE  delta(i) \in Nat /\ (i # 1 => delta(i) # 0 /\ ids[i - 1] + delta(i) = ids[i])
  <2>1. CASE i = 1  BY <1>1, <2>1
  <2>2. CASE i # 1
    <3>1. i - 1 \in D /\ i - 1 < i  BY <1>1, <2>2
    <3>2. PICK x \in Nat, y \in Nat : x = ids[i - 1] /\ y = ids[i] /\ x < y  BY <1>1, <3>1
    <3>3. delta(i) = y - x  BY <2>2, <3>2
    <3>. QED  BY <3>2, <3>3
  <2>. QED  BY <2>1, <2>2
<1>4. delta(1) = ids[1]  OBVIOUS
<1>. HIDE DEF delta
<1>5. PICK s \in Seq(Nat) : s = Deltas(ids) /\ Len(s) = Len(ids) /\ \A i \in D : s[i] = delta(i)
  <2>1. PICK l \in Nat : l = Len(ids)  BY <1>1
  <2>2. PICK s : s = [i \in 1 .. l |-> delta(i)]  OBVIOUS
  <2>3. \A i \in 1 .. l : delta(i) \in Nat  BY <1>3, <2>1
  <2>4. s \in [1 .. l -> Nat]  BY <2>2, <2>3
  <2>5. s \in Seq(Nat) /\ Len(s) = l  BY <2>4
  <2>6. s = Deltas(ids) /\ \A i \in D : s[i] = delta(i)  BY <1>2, <2>1, <2>2
  <2>. QED  BY <2>1, <2>5, <2>6
<1>6. Positive(Tail(s))
  <2>1. s # <<>> /\ Tail(s) \in Seq(Nat) /\ Len(Tail(s)) = Len(s) - 1
        /\ \A i \in 1 .. Len(Tail(s)) : Tail(s)[i] = s[i + 1]
    BY <1>1, <1>5
  <2>2. ASSUME NEW i \in 1 .. Len(Tail(s)) PROVE Tail(s)[i] # 0
    <3>1. i + 1 \in D /\ i + 1 # 1  BY <1>1, <1>5, <2>1
    <3>2. s[i + 1] # 0  BY <1>3, <1>5, <3>1
    <3>. QED  BY <2>1, <3>2
  <2>. QED  BY <2>1, <2>2 DEF Positive
<1>7. <<ids[1]>> \o Tail(s) = s
  <2>1. s[1] = ids[1] /\ s # <<>>  BY <1>1, <1>4, <1>5
  <2>2. PICK x \in Nat : x = s[1]  BY <1>1, <2>1
  <2>3. <<x>> \o Tail(s) = s  BY <2>1, <2>2
  <2>. QED  BY <2>1, <2>2, <2>3
<1>8. Sums(s) = ids
  <2>. DEFINE Body(f) == [i \in DOMAIN s |-> IF i = 1 THEN s[1] ELSE f[i - 1] + s[i]]
              sum == CHOOSE f : f = Body(f)
  <2>1. DOMAIN s = D /\ Sums(s) = sum  BY <1>5 DEF Sums
  <2>2. ids = Body(ids)
    <3>1. ASSUME NEW i \in D PROVE ids[i] = IF i = 1 THEN s[1] ELSE ids[i - 1] + s[i]
      <4>1. s[i] = delta(i) /\ s[1] = ids[1]  BY <1>1, <1>4, <1>5
      <4>. QED  BY <1>3, <4>1
    <3>2. ids = [i \in D |-> ids[i]]  BY <1>1
    <3>. QED  BY <2>1, <3>1, <3>2
  <2>3. sum = Body(sum)  BY <2>2
  <2>. HIDE DEF sum
  <2>4. DOMAIN sum = D /\ \A i \in D : sum[i] = IF i = 1 THEN s[1] ELSE sum[i - 1] + s[i]
    BY <2>1, <2>3
  <2>5. \A i \in D : ids[i] = IF i = 1 THEN s[1] ELSE ids[i - 1] + s[i]  BY <2>1, <2>2
  <2>. DEFINE T == {i \in Nat : i + 1 \in D => sum[i + 1] = ids[i + 1]}
  <2>6. Nat \subseteq T
    <3>1. 0 \in T  BY <2>4, <2>5
    <3>2. ASSUME NEW i \in Nat, i \in T PROVE i + 1 \in T
      <4>1. SUFFICES ASSUME i + 1 + 1 \in D PROVE sum[i + 1 + 1] = ids[i + 1 + 1]  OBVIOUS
      <4>2. PICK k \in D : k = i + 1 + 1 /\ k # 1 /\ k - 1 = i + 1 /\ i + 1 \in D  BY <1>1, <4>1
      <4>3. sum[k - 1] = ids[k - 1]  BY <3>2, <4>2
      <4>. HIDE DEF D
      <4>4. sum[k] = ids[k]  BY <2>4, <2>5, <4>2, <4>3
      <4>. QED  BY <4>2, <4>4
    <3>. HIDE DEF T
    <3>. QED  BY <3>1, <3>2, Induction
  <2>7. ASSUME NEW i \in D PROVE sum[i] = ids[i]
    <3>1. i - 1 \in Nat /\ (i - 1) + 1 = i  BY <1>1
    <3>2. i - 1 \in T
      <4>. HIDE DEF T
      <4>. QED  BY <2>6, <3>1
    <3>. QED  BY <3>1, <3>2
  <2>8. sum = [i \in D |-> sum[i]] /\ ids = [i \in D |-> ids[i]]  BY <1>1, <2>3, <2>1
  <2>. QED  BY <2>1, <2>7, <2>8
<1>. QED  BY <1>5, <1>6, <1>7, <1>8

-----------------------------------------------------------------------------
(* Padding and blocks *)

LEMMA PaddedIs ==
    ASSUME NEW vals, Positive(vals), NEW bs \in Nat \ {0}
    PROVE  /\ Padded(vals, bs) \in Seq(Nat)
           /\ Len(Padded(vals, bs)) \div bs \in Nat
           /\ Len(Padded(vals, bs)) = bs * (Len(Padded(vals, bs)) \div bs)
           /\ BeforeZeros(Padded(vals, bs)) = vals
           /\ vals # <<>> => Padded(vals, bs) # <<>>
<1>1. vals \in Seq(Nat) /\ \A i \in 1 .. Len(vals) : vals[i] # 0  BY DEF Positive
<1>2. PICK l \in Nat : l = Len(vals)  BY <1>1
<1>3. PICK q \in Nat, over \in Nat : q = l \div bs /\ over = l % bs /\ l = bs * q + over /\ over < bs
  BY Division, DivisionTypes
<1>. DEFINE more == IF over = 0 THEN 0 ELSE bs - over
            zeros == [k \in 1 .. more |-> 0]
            all == Padded(vals, bs)
<1>4. more \in Nat  BY <1>3
<1>5. all = vals \o zeros  BY <1>2, <1>3 DEF Padded
<1>. HIDE DEF more
<1>6. zeros \in Seq(Nat) /\ Len(zeros) = more  BY <1>4
<1>7. /\ all \in Seq(Nat) /\ Len(all) = l + more
      /\ \A i \in 1 .. l : all[i] = vals[i]
      /\ \A i \in l + 1 .. l + more : all[i] = 0
  <2>1. PICK z \in Seq(Nat) : z = zeros /\ Len(z) = more /\ \A k \in 1 .. more : z[k] = 0
    BY <1>6
  <2>2. /\ vals \o z \in Seq(Nat) /\ Len(vals \o z) = l + more
        /\ \A i \in 1 .. l : (vals \o z)[i] = vals[i]
    <3>1. PICK v \in Seq(Nat) : v = vals /\ Len(v) = l  BY <1>1, <1>2
    <3>2. v \o z \in Seq(Nat) /\ Len(v \o z) = l + more
      <4>1. Len(z) = more  BY <2>1
      <4>2. v \o z \in Seq(Nat) /\ Len(v \o z) = Len(v) + Len(z)  OBVIOUS
      <4>. QED  BY <3>1, <4>1, <4>2
    <3>3. \A i \in 1 .. l : (v \o z)[i] = v[i]  BY <2>1, <3>1
    <3>. QED  BY <3>1, <3>2, <3>3
  <2>3. ASSUME NEW i \in l + 1 .. l + more PROVE (vals \o z)[i] = 0
    <3>1. i - l \in 1 .. more /\ i \in 1 .. l + more /\ i > l  BY <1>4
    <3>2. (vals \o z)[i] = z[i - l]  BY <1>1, <1>2, <1>4, <2>1, <3>1
    <3>. QED  BY <2>1, <3>1, <3>2
  <2>. QED  BY <1>5, <2>1, <2>2, <2>3
<1>. HIDE DEF all, zeros
<1>8. PICK m \in Nat : Len(all) = bs * m
  <2>1. CASE over = 0
    <3>1. Len(all) = bs * q  BY <1>3, <1>7, <2>1 DEF more
    <3>. QED  BY <3>1
  <2>2. CASE over # 0
    <3>1. PICK x \in Nat : x = bs * q  OBVIOUS
    <3>2. Len(all) = x + bs  BY <1>3, <1>7, <2>2, <3>1 DEF more
    <3>3. bs * (q + 1) = bs * q + bs  OBVIOUS
    <3>4. Len(all) = bs * (q + 1) /\ q + 1 \in Nat  BY <3>1, <3>2, <3>3
    <3>. QED  BY <3>4
  <2>. QED  BY <2>1, <2>2
<1>9. Len(all) \div bs = m
  <2>1. 0 \in 0 .. bs - 1 /\ bs * m + 0 = bs * m  OBVIOUS
  <2>. QED  BY <1>8, <2>1, DivisionUnique
<1>10. BeforeZeros(all) = vals
  <2>. DEFINE Z == {i \in DOMAIN all : all[i] = 0}
  <2>1. DOMAIN all = 1 .. l + more  BY <1>7
  <2>2. Z = l + 1 .. l + more
    <3>1. ASSUME NEW i \in 1 .. l + more PROVE all[i] = 0 <=> i > l
      <4>1. CASE i > l
        <5>1. i \in l + 1 .. l + more  BY <4>1, <1>4
        <5>. QED  BY <1>7, <4>1, <5>1
      <4>2. CASE ~(i > l)
        <5>1. i \in 1 .. l  BY <4>2
        <5>. QED  BY <1>1, <1>2, <1>7, <4>2, <5>1
      <4>. QED  BY <4>1, <4>2
    <3>2. \A i : i \in l + 1 .. l + more <=> i \in 1 .. l + more /\ i > l  BY <1>4
    <3>. QED  BY <2>1, <3>1, <3>2
  <2>. HIDE DEF Z
  <2>3. CASE more = 0
    <3>1. Z = {}  BY <2>2, <2>3
    <3>2. all = vals  BY <1>1, <1>2, <1>7, <2>3
    <3>. QED  BY <3>1, <3>2 DEF BeforeZeros, Z
  <2>4. CASE more # 0
    <3>1. l + 1 \in Z /\ \A i \in Z : l + 1 <= i  BY <1>4, <2>2, <2>4
    <3>2. Min(Z) = l + 1
      <4>3. \A i \in l + 1 .. l + more : i \in Nat  BY <1>4
      <4>1. Z \in SUBSET Nat /\ Z # {}  BY <2>2, <3>1, <4>3
      <4>2. Min(Z) \in Z /\ \A i \in Z : Min(Z) <= i  BY <4>1, MinIsLeast DEF Min
      <4>. QED  BY <1>4, <2>2, <3>1, <4>2
    <3>3. SubSeq(all, 1, l) = vals
      <4>1. SubSeq(all, 1, l) \in Seq(Nat) /\ Len(SubSeq(all, 1, l)) = l
            /\ \A i \in 1 .. l : SubSeq(all, 1, l)[i] = all[i]
        BY <1>4, <1>7
      <4>. QED  BY <1>1, <1>2, <1>7, <4>1
    <3>4. BeforeZeros(all) = SubSeq(all, 1, Min(Z) - 1)  BY <3>1 DEF BeforeZeros, Z
    <3>5. Min(Z) - 1 = l  BY <3>2
    <3>. QED  BY <3>3, <3>4, <3>5
  <2>. QED  BY <2>3, <2>4
<1>11. vals # <<>> => all # <<>>  BY <1>1, <1>2, <1>4, <1>7
<1>. QED  BY <1>7, <1>8, <1>9, <1>10, <1>11 DEF all

(* The blocks of a padded sequence *)
Part(all, bs, k) == SubSeq(all, (k - 1) * bs + 1, k * bs)

(* z is x and y behind it *)
Behind(x, y, z) ==
    /\ Len(z) = Len(x) + Len(y)
    /\ \A i \in 1 .. Len(x) : z[i] = x[i]
    /\ \A i \in 1 .. Len(y) : z[Len(x) + i] = y[i]

LEMMA JoinedIs ==
    ASSUME NEW x \in Seq(Nat), NEW y \in Seq(Nat), NEW z \in Seq(Nat), Behind(x, y, z)
    PROVE  x \o y = z
<1>0. x \o y \in Seq(Nat)  OBVIOUS
<1>1. PICK w \in Seq(Nat) : w = x \o y  BY <1>0
<1>2. Len(w) = Len(x) + Len(y)  BY <1>1
<1>3. PICK a \in Nat, b \in Nat : a = Len(x) /\ b = Len(y)  OBVIOUS
<1>4. \A i \in 1 .. a : w[i] = x[i]  BY <1>1, <1>3
<1>5. ASSUME NEW i \in 1 .. b PROVE w[a + i] = y[i]
  <2>1. a + i \in 1 .. Len(x) + Len(y) /\ a + i > Len(x) /\ a + i - Len(x) = i  BY <1>3
  <2>2. PICK k \in 1 .. Len(x) + Len(y) : k = a + i /\ k > Len(x) /\ k - Len(x) = i  BY <2>1
  <2>3. (x \o y)[k] = y[k - Len(x)]  BY <2>2
  <2>. QED  BY <1>1, <2>2, <2>3
<1>6. ASSUME NEW i \in 1 .. a + b PROVE w[i] = z[i]
  <2>1. CASE i <= a
    <3>1. i \in 1 .. a  BY <2>1
    <3>. QED  BY <1>3, <1>4, <3>1 DEF Behind
  <2>2. CASE ~(i <= a)
    <3>1. i - a \in 1 .. b /\ a + (i - a) = i  BY <2>2, <1>3
    <3>2. PICK k \in 1 .. b : a + k = i  BY <3>1
    <3>3. w[a + k] = y[k] /\ z[a + k] = y[k]  BY <1>3, <1>5 DEF Behind
    <3>. QED  BY <3>2, <3>3
  <2>. QED  BY <2>1, <2>2
<1>7. Len(w) = a + b /\ Len(z) = a + b  BY <1>2, <1>3 DEF Behind
<1>8. w = z  BY <1>6, <1>7
<1>. QED  BY <1>1, <1>8

LEMMA PartIs ==
    ASSUME NEW all \in Seq(Nat), NEW bs \in Nat \ {0}, NEW m \in Nat, Len(all) = bs * m,
           NEW j \in 0 .. m - 1
    PROVE  /\ Part(all, bs, j + 1) \in Seq(Nat) /\ Len(Part(all, bs, j + 1)) = bs
           /\ SubSeq(all, 1, bs * j) \in Seq(Nat)
           /\ SubSeq(all, 1, bs * (j + 1)) = SubSeq(all, 1, bs * j) \o Part(all, bs, j + 1)
<1>1. PICK a \in Nat, b \in Nat, l \in Nat :
        a = bs * j /\ b = bs * (j + 1) /\ l = Len(all) /\ b = a + bs /\ b <= l
  <2>1. PICK d \in Nat : m = (j + 1) + d
    <3>1. m - (j + 1) \in Nat /\ m = (j + 1) + (m - (j + 1))  OBVIOUS
    <3>. QED  BY <3>1
  <2>2. /\ bs * ((j + 1) + d) = bs * (j + 1) + bs * d /\ bs * d \in Nat
        /\ bs * (j + 1) = bs * j + bs /\ bs * j \in Nat /\ bs * (j + 1) \in Nat
    OBVIOUS
  <2>3. PICK x \in Nat, y \in Nat, z \in Nat : x = bs * j /\ y = bs * (j + 1) /\ z = bs * d
    BY <2>2
  <2>4. y = x + bs /\ Len(all) = y + z  BY <2>1, <2>2, <2>3
  <2>. QED  BY <2>3, <2>4
<1>2. Part(all, bs, j + 1) = SubSeq(all, a + 1, b)
  <2>1. (j + 1 - 1) * bs + 1 = a + 1 /\ (j + 1) * bs = b
    <3>1. j + 1 - 1 = j /\ j * bs = bs * j /\ (j + 1) * bs = bs * (j + 1)  OBVIOUS
    <3>. QED  BY <1>1, <3>1
  <2>. QED  BY <2>1 DEF Part
<1>3. /\ SubSeq(all, a + 1, b) \in Seq(Nat) /\ Len(SubSeq(all, a + 1, b)) = bs
      /\ \A i \in 1 .. bs : SubSeq(all, a + 1, b)[i] = all[a + i]
  BY <1>1
<1>4. /\ SubSeq(all, 1, a) \in Seq(Nat) /\ Len(SubSeq(all, 1, a)) = a
      /\ \A i \in 1 .. a : SubSeq(all, 1, a)[i] = all[i]
  BY <1>1
<1>5. /\ SubSeq(all, 1, b) \in Seq(Nat) /\ Len(SubSeq(all, 1, b)) = b
      /\ \A i \in 1 .. b : SubSeq(all, 1, b)[i] = all[i]
  BY <1>1
<1>6. SubSeq(all, 1, b) = SubSeq(all, 1, a) \o SubSeq(all, a + 1, b)
  <2>1. PICK x \in Seq(Nat), y \in Seq(Nat), z \in Seq(Nat) :
          x = SubSeq(all, 1, a) /\ y = SubSeq(all, a + 1, b) /\ z = SubSeq(all, 1, b)
    BY <1>3, <1>4, <1>5
  <2>2. Len(x) = a /\ Len(y) = bs /\ Len(z) = b /\ \A i \in 1 .. a : x[i] = all[i]
    BY <1>3, <1>4, <1>5, <2>1
  <2>3. (\A i \in 1 .. bs : y[i] = all[a + i]) /\ \A i \in 1 .. b : z[i] = all[i]
    BY <1>3, <1>5, <2>1
  <2>4. /\ \A i \in 1 .. Len(x) : z[i] = x[i]
        /\ \A i \in 1 .. Len(y) : z[Len(x) + i] = y[i]
    <3>1. \A i \in 1 .. a : i \in 1 .. b  BY <1>1
    <3>2. ASSUME NEW i \in 1 .. bs PROVE a + i \in 1 .. b
      <4>1. b = a + bs /\ a \in Nat /\ bs \in Nat  BY <1>1
      <4>. QED  BY <4>1
    <3>. QED  BY <2>2, <2>3, <3>1, <3>2
  <2>5. Len(z) = Len(x) + Len(y)  BY <1>1, <2>2
  <2>7. Behind(x, y, z)  BY <2>4, <2>5 DEF Behind
  <2>6. x \o y = z  BY <2>7, JoinedIs
  <2>. QED  BY <2>1, <2>6
<1>. QED  BY <1>1, <1>2, <1>3, <1>4, <1>6

-----------------------------------------------------------------------------
(* bgparse's loops over the rest of a list *)

ReadsBlocks(f, cdata, bs) ==
    /\ f \in [Places -> Seq(Nat)]
    /\ \A k \in Places :
         f[k] = IF k > Len(cdata) THEN <<>>
                ELSE DecodedBlock(cdata, k, bs).vals \o f[DecodedBlock(cdata, k, bs).next]
ReadsSingly(f, cdata) ==
    /\ f \in [Places -> Seq(Nat)]
    /\ \A k \in Places :
         f[k] = IF k > Len(cdata) THEN <<>>
                ELSE <<VarByteAt(cdata, k).val>> \o f[VarByteAt(cdata, k).next]

(* the same, as the model defines them *)
InBlocks(f, cdata, bs) ==
    f = [k \in Places |->
            IF k > Len(cdata) THEN <<>>
            ELSE DecodedBlock(cdata, k, bs).vals \o f[DecodedBlock(cdata, k, bs).next]]
OneByOne(f, cdata) ==
    f = [k \in Places |->
            IF k > Len(cdata) THEN <<>>
            ELSE <<VarByteAt(cdata, k).val>> \o f[VarByteAt(cdata, k).next]]

(* A loop that goes from k to next[k], where it adds add[k], until it is at the end *)
Loops(f, len, add, next) ==
    /\ f \in [Places -> Seq(Nat)]
    /\ \A k \in Places : f[k] = IF k > len THEN <<>> ELSE add[k] \o f[next[k]]

LEMMA LoopEnds ==
    ASSUME NEW len \in Nat, NEW add \in [Places -> Seq(Nat)], NEW next \in [Places -> Places],
           \A k \in Places : k <= len => next[k] > k
    PROVE  \E f : Loops(f, len, add, next)
<1>. DEFINE B == {k \in Places : k > len}
            S == Seq(Nat)
            base == [k \in Places |-> <<>>]
            mu == [k \in Places |-> IF k > len THEN 0 ELSE len + 1 - k]
            F == [k \in Places |-> [t \in S |-> add[k] \o t]]
<1>1. Falls(next, mu, Places, B)
  <2>1. ASSUME NEW k \in Places PROVE mu[k] \in Nat  BY DEF Places
  <2>2. ASSUME NEW k \in Places \ B PROVE next[k] \in Places /\ mu[next[k]] < mu[k]
    <3>1. PICK n1 \in Places : n1 = next[k] /\ n1 > k /\ k <= len  BY DEF Places
    <3>2. mu[n1] < mu[k]
      <4>1. mu[k] = len + 1 - k /\ mu[n1] = IF n1 > len THEN 0 ELSE len + 1 - n1
        <5>1. ~(k > len)  BY <3>1 DEF Places
        <5>. QED  BY <5>1
      <4>. HIDE DEF mu
      <4>2. k \in Nat /\ n1 \in Nat  BY DEF Places
      <4>. QED  BY <3>1, <4>1, <4>2
    <3>. QED  BY <3>1, <3>2
  <2>3. mu = [k \in Places |-> mu[k]]  OBVIOUS
  <2>. HIDE DEF mu, B
  <2>4. mu \in [Places -> Nat]  BY <2>1, <2>3
  <2>. QED  BY <2>2, <2>4 DEF Falls
<1>2. BuildsOn(base, F, Places, S)
  <2>1. ASSUME NEW k \in Places, NEW t \in S PROVE add[k] \o t \in S  OBVIOUS
  <2>2. <<>> \in S  OBVIOUS
  <2>. HIDE DEF S
  <2>. QED  BY <2>1, <2>2 DEF BuildsOn
<1>3. PICK f : Unfolds(f, Places, S, B, base, F, next)
  <2>. HIDE DEF S, B, base, F, mu
  <2>. QED  BY <1>1, <1>2, FallingRecursion
<1>4. f \in [Places -> S]
      /\ \A k \in Places : f[k] = IF k \in B THEN base[k] ELSE F[k][f[next[k]]]
  <2>. HIDE DEF S, B, base, F
  <2>. QED  BY <1>3 DEF Unfolds
<1>5. ASSUME NEW k \in Places PROVE f[k] = IF k > len THEN <<>> ELSE add[k] \o f[next[k]]
  <2>1. f[next[k]] \in S
    <3>. HIDE DEF S
    <3>. QED  BY <1>4
  <2>2. (k \in B <=> k > len) /\ base[k] = <<>>  OBVIOUS
  <2>3. F[k][f[next[k]]] = add[k] \o f[next[k]]  BY <2>1
  <2>. HIDE DEF S, B, base, F
  <2>. QED  BY <1>4, <2>2, <2>3
<1>. QED  BY <1>4, <1>5 DEF Loops

(* and it makes a sequence wherever it starts *)
LEMMA LoopTyped ==
    ASSUME NEW len \in Nat, NEW add \in [Places -> Seq(Nat)], NEW next \in [Places -> Places],
           \A k \in Places : k <= len => next[k] > k,
           NEW f, f = [k \in Places |-> IF k > len THEN <<>> ELSE add[k] \o f[next[k]]]
    PROVE  Loops(f, len, add, next)
<1>. DEFINE mu == [k \in Places |-> IF k > len THEN 0 ELSE len + 1 - k]
            T == {k \in Places : f[k] \in Seq(Nat)}
<1>1. \A k \in Places : f[k] = IF k > len THEN <<>> ELSE add[k] \o f[next[k]]  OBVIOUS
<1>2. mu \in [Places -> Nat]
  <2>1. ASSUME NEW k \in Places PROVE mu[k] \in Nat  BY DEF Places
  <2>2. mu = [k \in Places |-> mu[k]]  OBVIOUS
  <2>. HIDE DEF mu
  <2>. QED  BY <2>1, <2>2
<1>3. ASSUME NEW k \in Places, \A w \in Places : mu[w] < mu[k] => w \in T PROVE k \in T
  <2>1. CASE k > len
    <3>1. f[k] = <<>> /\ <<>> \in Seq(Nat)  BY <1>1, <2>1
    <3>. QED  BY <3>1
  <2>2. CASE ~(k > len)
    <3>0. k <= len  BY <2>2 DEF Places
    <3>1. PICK n1 \in Places : n1 = next[k] /\ n1 > k /\ k <= len  BY <3>0
    <3>2. mu[n1] < mu[k]
      <4>1. mu[k] = len + 1 - k /\ mu[n1] = IF n1 > len THEN 0 ELSE len + 1 - n1  BY <2>2
      <4>. HIDE DEF mu
      <4>2. k \in Nat /\ n1 \in Nat  BY DEF Places
      <4>. QED  BY <3>1, <4>1, <4>2
    <3>3. n1 \in T
      <4>. HIDE DEF mu, T
      <4>. QED  BY <1>3, <3>2
    <3>4. f[n1] \in Seq(Nat) /\ add[k] \in Seq(Nat)  BY <3>3
    <3>5. f[k] = add[k] \o f[n1]  BY <1>1, <2>2, <3>1
    <3>6. add[k] \o f[n1] \in Seq(Nat)  BY <3>4
    <3>. QED  BY <3>5, <3>6
  <2>. QED  BY <2>1, <2>2
<1>4. Places \subseteq T
  <2>. HIDE DEF mu, T
  <2>. QED  BY <1>2, <1>3, MeasureInduction
<1>5. f = [k \in Places |-> f[k]]  OBVIOUS
<1>6. f \in [Places -> Seq(Nat)]  BY <1>4, <1>5
<1>. QED  BY <1>1, <1>6 DEF Loops

LEMMA BlocksAreRead ==
    ASSUME NEW cdata \in Seq(Byte), NEW bs \in Nat
    PROVE  /\ \E f : InBlocks(f, cdata, bs)
           /\ \A f : InBlocks(f, cdata, bs) => ReadsBlocks(f, cdata, bs)
<1>. DEFINE len == Len(cdata)
            block(k) == DecodedBlock(cdata, k, bs)
            add == [k \in Places |-> IF k <= len THEN block(k).vals ELSE <<>>]
            next == [k \in Places |-> IF k <= len THEN block(k).next ELSE k]
<1>1. len \in Nat  OBVIOUS
<1>2. ASSUME NEW k \in Places, k <= len
      PROVE  block(k).vals \in Seq(Nat) /\ block(k).next \in Places /\ block(k).next > k
  <2>1. k \in DOMAIN cdata  BY <1>2 DEF Places
  <2>2. PICK vs, ns : /\ Patches(vs, ns, cdata, k, bs) /\ \A j \in Nat : ns[j] > k
                      /\ block(k) = [vals |-> vs[cdata[k] \div 16], next |-> ns[cdata[k] \div 16]]
    BY <2>1, DecodedIs
  <2>3. PICK j \in Nat : j = cdata[k] \div 16
    <3>1. cdata[k] \in Nat /\ 16 \in Nat \ {0}  BY <2>1, ByteIn
    <3>. QED  BY <3>1, DivisionTypes
  <2>4. vs[j] \in [1 .. bs -> Nat] /\ ns[j] \in Places  BY <2>2 DEF Patches
  <2>5. vs[j] \in Seq(Nat)  BY <2>4
  <2>6. block(k).vals = vs[j] /\ block(k).next = ns[j]  BY <2>2, <2>3
  <2>. HIDE DEF block
  <2>. QED  BY <2>2, <2>4, <2>5, <2>6
<1>. HIDE DEF len, block
<1>3. add \in [Places -> Seq(Nat)]
  <2>1. ASSUME NEW k \in Places PROVE (IF k <= len THEN block(k).vals ELSE <<>>) \in Seq(Nat)
    <3>1. <<>> \in Seq(Nat)  OBVIOUS
    <3>. QED  BY <1>2, <3>1
  <2>. QED  BY <2>1
<1>4. next \in [Places -> Places] /\ \A k \in Places : k <= len => next[k] > k  BY <1>2
<1>. HIDE DEF add, next
<1>5. ASSUME NEW f, NEW k \in Places
      PROVE  (IF k > len THEN <<>> ELSE add[k] \o f[next[k]])
               = IF k > len THEN <<>> ELSE block(k).vals \o f[block(k).next]
  <2>1. CASE k > len  BY <2>1
  <2>2. CASE ~(k > len)
    <3>1. k <= len  BY <1>1, <2>2 DEF Places
    <3>2. add[k] = block(k).vals /\ next[k] = block(k).next  BY <3>1 DEF add, next
    <3>. QED  BY <2>2, <3>2
  <2>. QED  BY <2>1, <2>2
<1>6. \E f : InBlocks(f, cdata, bs)
  <2>1. PICK f : Loops(f, len, add, next)  BY <1>1, <1>3, <1>4, LoopEnds
  <2>2. \A k \in Places : f[k] = IF k > len THEN <<>> ELSE block(k).vals \o f[block(k).next]
    BY <1>5, <2>1 DEF Loops
  <2>3. f = [k \in Places |-> f[k]]  BY <2>1 DEF Loops
  <2>4. f = [k \in Places |-> IF k > len THEN <<>> ELSE block(k).vals \o f[block(k).next]]
    BY <2>2, <2>3
  <2>. QED  BY <2>4 DEF InBlocks, len, block
<1>7. ASSUME NEW f, InBlocks(f, cdata, bs) PROVE ReadsBlocks(f, cdata, bs)
  <2>1. f = [k \in Places |-> IF k > len THEN <<>> ELSE block(k).vals \o f[block(k).next]]
    BY <1>7 DEF InBlocks, len, block
  <2>2. f = [k \in Places |-> IF k > len THEN <<>> ELSE add[k] \o f[next[k]]]
    BY <1>5, <2>1
  <2>3. Loops(f, len, add, next)  BY <1>1, <1>3, <1>4, <2>2, LoopTyped
  <2>. QED  BY <1>5, <2>3 DEF Loops, ReadsBlocks, len, block
<1>. QED  BY <1>6, <1>7

LEMMA SinglesAreRead ==
    ASSUME NEW cdata \in Seq(Byte)
    PROVE  /\ \E f : OneByOne(f, cdata)
           /\ \A f : OneByOne(f, cdata) => ReadsSingly(f, cdata)
<1>. DEFINE add == [k \in Places |-> <<VarByteAt(cdata, k).val>>]
            next == [k \in Places |-> VarByteAt(cdata, k).next]
<1>1. ASSUME NEW k \in Places
      PROVE  /\ VarByteAt(cdata, k).val \in Nat
             /\ VarByteAt(cdata, k).next \in Places /\ VarByteAt(cdata, k).next > k
  <2>1. PICK v, e : v = VarByteAt(cdata, k).val /\ e = VarByteAt(cdata, k).next
                    /\ v \in Nat /\ e \in Nat /\ e > k
    BY VarByteAtIs
  <2>2. e \in Places  BY <2>1 DEF Places
  <2>. QED  BY <2>1, <2>2
<1>2. add \in [Places -> Seq(Nat)]
  <2>1. ASSUME NEW k \in Places PROVE <<VarByteAt(cdata, k).val>> \in Seq(Nat)  BY <1>1
  <2>. QED  BY <2>1
<1>3. next \in [Places -> Places] /\ \A k \in Places : k <= Len(cdata) => next[k] > k
  BY <1>1
<1>4. \A k \in Places : add[k] = <<VarByteAt(cdata, k).val>> /\ next[k] = VarByteAt(cdata, k).next
  OBVIOUS
<1>5. Len(cdata) \in Nat  OBVIOUS
<1>. HIDE DEF add, next
<1>6. \E f : OneByOne(f, cdata)
  <2>1. PICK f : Loops(f, Len(cdata), add, next)  BY <1>2, <1>3, <1>5, LoopEnds
  <2>2. \A k \in Places : f[k] = IF k > Len(cdata) THEN <<>>
                                 ELSE <<VarByteAt(cdata, k).val>> \o f[VarByteAt(cdata, k).next]
    BY <1>4, <2>1 DEF Loops
  <2>3. f = [k \in Places |-> f[k]]  BY <2>1 DEF Loops
  <2>4. f = [k \in Places |-> IF k > Len(cdata) THEN <<>>
                              ELSE <<VarByteAt(cdata, k).val>> \o f[VarByteAt(cdata, k).next]]
    BY <2>2, <2>3
  <2>. QED  BY <2>4 DEF OneByOne
<1>7. ASSUME NEW f, OneByOne(f, cdata) PROVE ReadsSingly(f, cdata)
  <2>1. f = [k \in Places |-> IF k > Len(cdata) THEN <<>>
                              ELSE <<VarByteAt(cdata, k).val>> \o f[VarByteAt(cdata, k).next]]
    BY <1>7 DEF OneByOne
  <2>2. f = [k \in Places |-> IF k > Len(cdata) THEN <<>> ELSE add[k] \o f[next[k]]]
    BY <1>4, <2>1
  <2>3. Loops(f, Len(cdata), add, next)  BY <1>2, <1>3, <1>5, <2>2, LoopTyped
  <2>. QED  BY <1>4, <2>3 DEF Loops, ReadsSingly
<1>. QED  BY <1>6, <1>7

-----------------------------------------------------------------------------
(* A whole list *)

(* bgparse's loops are f and g, and the list is what they make of cdata *)
ReadsAs(f, g, cdata, mark, bs, ids) ==
    /\ ReadsBlocks(f, cdata, bs) /\ ReadsSingly(g, cdata)
    /\ ids = Sums(<<VarByteAt(cdata, 1).val>>
                    \o (IF mark = 1 THEN BeforeZeros(f[VarByteAt(cdata, 1).next])
                                    ELSE g[VarByteAt(cdata, 1).next]))

LEMMA ReadListIs ==
    ASSUME NEW bytes, NEW at, NEW bs \in Nat, NEW size, size = VarByteAt(bytes, at),
           NEW cdata \in Seq(Byte), cdata # <<>>,
           cdata = SubSeq(bytes, size.next, size.next + size.val \div 2 - 1)
    PROVE  \E f, g : ReadsAs(f, g, cdata, size.val % 2, bs, ReadList(bytes, at, bs))
<1>. DEFINE part == SubSeq(bytes, VarByteAt(bytes, at).next,
                           VarByteAt(bytes, at).next + VarByteAt(bytes, at).val \div 2 - 1)
            f == CHOOSE f : InBlocks(f, part, bs)
            g == CHOOSE g : OneByOne(g, part)
<1>1. part = cdata  OBVIOUS
<1>2. ReadList(bytes, at, bs)
        = IF part = <<>> THEN <<>>
          ELSE Sums(<<VarByteAt(part, 1).val>>
                      \o (IF VarByteAt(bytes, at).val % 2 = 1
                          THEN BeforeZeros(f[VarByteAt(part, 1).next])
                          ELSE g[VarByteAt(part, 1).next]))
  BY DEF ReadList, InBlocks, OneByOne
<1>3. part \in Seq(Byte)  BY <1>1
<1>. HIDE DEF part
<1>4. InBlocks(f, part, bs) /\ OneByOne(g, part)  BY <1>3, BlocksAreRead, SinglesAreRead
<1>. HIDE DEF f, g
<1>5. ReadsBlocks(f, part, bs) /\ ReadsSingly(g, part)
  BY <1>3, <1>4, BlocksAreRead, SinglesAreRead
<1>. QED  BY <1>1, <1>2, <1>5 DEF ReadsAs

LEMMA LiesThere ==
    ASSUME NEW X, NEW q \in Seq(X), q # <<>>, NEW s, NEW at, Lies(q, s, at)
    PROVE  at \in 1 .. Len(s) /\ at \in Places
<1>1. 1 \in 1 .. Len(q)  OBVIOUS
<1>2. at \in Nat \ {0} /\ at + 1 - 1 \in 1 .. Len(s)  BY <1>1 DEF Lies
<1>3. at + 1 - 1 = at  BY <1>2
<1>. QED  BY <1>2, <1>3 DEF Places

(* The values that are stored in blocks *)
LEMMA BlocksReadBack ==
    ASSUME NEW rest, Positive(rest), rest # <<>>, NEW pfor \in PFORSettings,
           NoBlock \notin ToSet(EncodedBlocks(rest, pfor)), NEW v \in Seq(Byte)
    PROVE  /\ EncodedBlocks(rest, pfor) \in Seq(Seq(Byte))
           /\ \A f : ReadsBlocks(f, v \o FlattenSeq(EncodedBlocks(rest, pfor)), pfor.blocksize)
                => BeforeZeros(f[1 + Len(v)]) = rest
<1>1. /\ pfor.blocksize \in 1 .. 255 /\ pfor.maxexceptions \in 0 .. 15
      /\ pfor.blocksize % 8 = 0 /\ (15 * (pfor.blocksize - 1)) \div 8 < 256
  BY DEF PFORSettings
<1>11. pfor.blocksize \in Nat \ {0}
  <2>1. \A x \in 1 .. 255 : x \in Nat \ {0}  OBVIOUS
  <2>. QED  BY <1>1, <2>1, Zenon
<1>2. PICK bs \in Nat \ {0}, max \in 0 .. 15 : bs = pfor.blocksize /\ max = pfor.maxexceptions
  BY <1>1, <1>11
<1>3. bs % 8 = 0 /\ (15 * (bs - 1)) \div 8 < 256 /\ bs > 0  BY <1>1, <1>2
<1>. DEFINE all == Padded(rest, bs)
            s == EncodedBlocks(rest, pfor)
            part(j) == Part(all, bs, j)
<1>4. /\ all \in Seq(Nat) /\ Len(all) \div bs \in Nat /\ Len(all) = bs * (Len(all) \div bs)
      /\ BeforeZeros(all) = rest /\ all # <<>>
  BY PaddedIs
<1>5. PICK m \in Nat : m = Len(all) \div bs /\ Len(all) = bs * m  BY <1>4
<1>6. s = [k \in 1 .. m |-> EncodedBlock(part(k), max)]
  BY <1>2, <1>5 DEF EncodedBlocks, Part
<1>. HIDE DEF all, s
<1>7. ASSUME NEW j \in 0 .. m - 1
      PROVE  /\ part(j + 1) \in Seq(Nat) /\ Len(part(j + 1)) = bs
             /\ SubSeq(all, 1, bs * j) \in Seq(Nat)
             /\ SubSeq(all, 1, bs * (j + 1)) = SubSeq(all, 1, bs * j) \o part(j + 1)
  BY <1>4, <1>5, PartIs
<1>. HIDE DEF part
<1>8. ASSUME NEW k \in 1 .. m
      PROVE  /\ Block(part(k)) /\ Len(part(k)) = bs
             /\ EncodedBlock(part(k), max) # NoBlock /\ EncodedBlock(part(k), max) \in Seq(Byte)
  <2>1. PICK j \in 0 .. m - 1 : k = j + 1
    <3>1. k - 1 \in 0 .. m - 1 /\ k = (k - 1) + 1  OBVIOUS
    <3>. QED  BY <3>1
  <2>2. part(k) \in Seq(Nat) /\ Len(part(k)) = bs  BY <1>7, <2>1
  <2>3. Block(part(k))  BY <1>3, <2>2 DEF Block
  <2>4. EncodedBlock(part(k), max) # NoBlock
    <3>1. s[k] = EncodedBlock(part(k), max) /\ k \in DOMAIN s  BY <1>6
    <3>2. s[k] \in ToSet(s)  BY <3>1 DEF ToSet
    <3>. QED  BY <3>1, <3>2 DEF s
  <2>. QED  BY <2>2, <2>3, <2>4, BlockBytes
<1>9. s \in Seq(Seq(Byte)) /\ Len(s) = m
  <2>1. s \in [1 .. m -> Seq(Byte)]  BY <1>6, <1>8
  <2>. QED  BY <2>1
<1>. DEFINE data == v \o FlattenSeq(s)
<1>10. ASSUME NEW f, ReadsBlocks(f, data, bs) PROVE BeforeZeros(f[1 + Len(v)]) = rest
  <2>1. PICK p : Chain(p, s, v, data)  BY <1>9, ChainIs
  <2>2. FlattenSeq(s) \in Seq(Byte)  BY <1>9, ChainIs
  <2>3. data \in Seq(Byte) /\ Len(data) \in Nat  BY <2>2
  <2>. HIDE DEF data
  <2>. DEFINE d == [j \in 0 .. m |-> SubSeq(all, 1, bs * j)]
  <2>4. /\ p \in [0 .. m -> Places] /\ p[0] = 1 + Len(v) /\ p[m] = Len(data) + 1
        /\ \A j \in 0 .. m - 1 : Lies(s[j + 1], data, p[j]) /\ p[j + 1] = p[j] + Len(s[j + 1])
    BY <1>9, <2>1 DEF Chain
  <2>5. /\ f \in [Places -> Seq(Nat)]
        /\ \A k \in Places :
             f[k] = IF k > Len(data) THEN <<>>
                    ELSE DecodedBlock(data, k, bs).vals \o f[DecodedBlock(data, k, bs).next]
    BY <1>10 DEF ReadsBlocks
  <2>6. f[p[m]] = <<>>
    <3>1. p[m] \in Places /\ p[m] > Len(data)  BY <2>3, <2>4
    <3>. QED  BY <2>5, <3>1
  <2>7. ASSUME NEW j \in 0 .. m - 1
        PROVE  \E t \in Seq(Nat) : f[p[j]] = t \o f[p[j + 1]] /\ d[j + 1] = d[j] \o t
    <3>1. PICK k \in 1 .. m : k = j + 1  OBVIOUS
    <3>2. s[k] = EncodedBlock(part(k), max)  BY <1>6
    <3>3. s[k] \in Seq(Byte) /\ s[k] # <<>>  BY <1>8, <3>2 DEF NoBlock
    <3>4. Lies(s[k], data, p[j]) /\ p[j + 1] = p[j] + Len(s[k])  BY <2>4, <3>1
    <3>5. p[j] \in 1 .. Len(data) /\ p[j] \in Places  BY <3>3, <3>4, LiesThere
    <3>6. DecodedBlock(data, p[j], Len(part(k)))
            = [vals |-> part(k), next |-> p[j] + Len(EncodedBlock(part(k), max))]
      BY <1>8, <2>3, <3>2, <3>4, BlockReads
    <3>11. DecodedBlock(data, p[j], bs) = [vals |-> part(k), next |-> p[j + 1]]
      BY <1>8, <3>2, <3>4, <3>6
    <3>7. DecodedBlock(data, p[j], bs).vals = part(k) /\ DecodedBlock(data, p[j], bs).next = p[j + 1]
      BY <3>11
    <3>8. f[p[j]] = part(k) \o f[p[j + 1]]
      <4>1. ~(p[j] > Len(data))  BY <2>3, <3>5
      <4>. QED  BY <2>5, <3>5, <3>7, <4>1
    <3>9. d[j + 1] = d[j] \o part(k)
      <4>1. j \in 0 .. m /\ j + 1 \in 0 .. m  OBVIOUS
      <4>. QED  BY <1>7, <3>1, <4>1
    <3>10. part(k) \in Seq(Nat)  BY <1>7, <3>1
    <3>. QED  BY <3>8, <3>9, <3>10
  <2>8. d \in [0 .. m -> Seq(Nat)] /\ d[0] = <<>> /\ d[m] = all
    <3>1. ASSUME NEW j \in 0 .. m PROVE SubSeq(all, 1, bs * j) \in Seq(Nat)
      <4>1. CASE j = m
        <5>1. SubSeq(all, 1, Len(all)) \in Seq(Nat)  BY <1>4
        <5>. QED  BY <1>5, <4>1, <5>1
      <4>2. CASE j # m
        <5>1. j \in 0 .. m - 1  BY <4>2
        <5>. QED  BY <1>7, <5>1
      <4>. QED  BY <4>1, <4>2
    <3>2. SubSeq(all, 1, bs * 0) = <<>>
      <4>1. bs * 0 = 0  OBVIOUS
      <4>2. SubSeq(all, 1, 0) = <<>>  BY <1>4
      <4>. QED  BY <4>1, <4>2
    <3>3. SubSeq(all, 1, Len(all)) = all  BY <1>4
    <3>4. SubSeq(all, 1, bs * m) = all  BY <1>5, <3>3
    <3>5. 0 \in 0 .. m /\ m \in 0 .. m  OBVIOUS
    <3>. QED  BY <3>1, <3>2, <3>4, <3>5
  <2>. HIDE DEF d
  <2>10. f \in [Places -> Seq(Nat)] /\ p \in [0 .. m -> Places]  BY <2>4, <2>5
  <2>9. f[p[0]] = d[m]  BY <2>6, <2>7, <2>8, <2>10, ReadingOn
  <2>. QED  BY <1>4, <2>4, <2>8, <2>9
<1>. QED  BY <1>2, <1>9, <1>10 DEF s

(* The values that are stored one by one *)
LEMMA SinglesReadBack ==
    ASSUME NEW rest \in Seq(Nat), NEW v \in Seq(Byte), NEW s,
           s = [i \in DOMAIN rest |-> VarByte(rest[i])]
    PROVE  /\ s \in Seq(Seq(Byte))
           /\ \A f : ReadsSingly(f, v \o FlattenSeq(s)) => f[1 + Len(v)] = rest
<1>1. PICK m \in Nat : m = Len(rest) /\ DOMAIN rest = 1 .. m  OBVIOUS
<1>2. ASSUME NEW k \in 1 .. m
      PROVE  rest[k] \in Nat /\ s[k] = VarByte(rest[k]) /\ s[k] \in Seq(Byte) /\ s[k] # <<>>
  <2>1. PICK x \in Nat : x = rest[k] /\ s[k] = VarByte(x)
    <3>1. rest[k] \in Nat /\ s[k] = VarByte(rest[k])  BY <1>1
    <3>. QED  BY <3>1
  <2>2. VarByte(x) \in Seq(Byte) /\ VarByte(x) # <<>>  BY EncodingIs
  <2>. QED  BY <2>1, <2>2
<1>3. s \in Seq(Seq(Byte)) /\ Len(s) = m
  <2>1. s \in [1 .. m -> Seq(Byte)]  BY <1>1, <1>2
  <2>. QED  BY <2>1
<1>. DEFINE data == v \o FlattenSeq(s)
<1>4. ASSUME NEW f, ReadsSingly(f, data) PROVE f[1 + Len(v)] = rest
  <2>1. PICK p : Chain(p, s, v, data)  BY <1>3, ChainIs
  <2>2. FlattenSeq(s) \in Seq(Byte)  BY <1>3, ChainIs
  <2>3. data \in Seq(Byte) /\ Len(data) \in Nat  BY <2>2
  <2>. HIDE DEF data
  <2>. DEFINE d == [j \in 0 .. m |-> SubSeq(rest, 1, j)]
  <2>4. /\ p \in [0 .. m -> Places] /\ p[0] = 1 + Len(v) /\ p[m] = Len(data) + 1
        /\ \A j \in 0 .. m - 1 : Lies(s[j + 1], data, p[j]) /\ p[j + 1] = p[j] + Len(s[j + 1])
    BY <1>3, <2>1 DEF Chain
  <2>5. /\ f \in [Places -> Seq(Nat)]
        /\ \A k \in Places :
             f[k] = IF k > Len(data) THEN <<>>
                    ELSE <<VarByteAt(data, k).val>> \o f[VarByteAt(data, k).next]
    BY <1>4 DEF ReadsSingly
  <2>6. f[p[m]] = <<>>
    <3>1. p[m] \in Places /\ p[m] > Len(data)  BY <2>3, <2>4
    <3>. QED  BY <2>5, <3>1
  <2>7. ASSUME NEW j \in 0 .. m - 1
        PROVE  \E t \in Seq(Nat) : f[p[j]] = t \o f[p[j + 1]] /\ d[j + 1] = d[j] \o t
    <3>1. PICK k \in 1 .. m : k = j + 1  OBVIOUS
    <3>2. PICK x \in Nat : x = rest[k] /\ s[k] = VarByte(x)  BY <1>2
    <3>3. s[k] \in Seq(Byte) /\ s[k] # <<>>  BY <1>2
    <3>4. Lies(s[k], data, p[j]) /\ p[j + 1] = p[j] + Len(s[k])  BY <2>4, <3>1
    <3>5. p[j] \in 1 .. Len(data) /\ p[j] \in Places  BY <3>3, <3>4, LiesThere
    <3>6. VarByteAt(data, p[j]) = [val |-> x, next |-> p[j] + Len(VarByte(x))]
      BY <2>3, <3>2, <3>4, VarByteReads
    <3>7. VarByteAt(data, p[j]).val = x /\ VarByteAt(data, p[j]).next = p[j + 1]
      BY <3>2, <3>4, <3>6
    <3>8. f[p[j]] = <<x>> \o f[p[j + 1]]
      <4>1. ~(p[j] > Len(data))  BY <2>3, <3>5
      <4>. QED  BY <2>5, <3>5, <3>7, <4>1
    <3>9. d[j + 1] = d[j] \o <<x>>
      <4>1. j \in 0 .. m /\ j + 1 \in 0 .. m  OBVIOUS
      <4>2. d[j + 1] = SubSeq(rest, 1, k) /\ d[j] = SubSeq(rest, 1, j)  BY <3>1, <4>1
      <4>3. SubSeq(rest, 1, k) = SubSeq(rest, 1, j) \o <<x>>
        <5>1. j \in Nat /\ k = j + 1 /\ k <= Len(rest)  BY <1>1, <3>1
        <5>9. \A l \in Nat : l <= Len(rest) =>
                /\ SubSeq(rest, 1, l) \in Seq(Nat) /\ Len(SubSeq(rest, 1, l)) = l
                /\ \A i \in 1 .. l : SubSeq(rest, 1, l)[i] = rest[i]
          OBVIOUS
        <5>10. j <= Len(rest) /\ k \in Nat  BY <5>1
        <5>2. PICK z \in Seq(Nat) : z = SubSeq(rest, 1, k) /\ Len(z) = k /\ \A i \in 1 .. k : z[i] = rest[i]
          BY <5>1, <5>9, <5>10
        <5>3. PICK y \in Seq(Nat) : y = SubSeq(rest, 1, j) /\ Len(y) = j /\ \A i \in 1 .. j : y[i] = rest[i]
          BY <5>1, <5>9, <5>10
        <5>4. <<x>> \in Seq(Nat) /\ Len(<<x>>) = 1 /\ <<x>>[1] = x  OBVIOUS
        <5>5. (\A i \in 1 .. j : z[i] = y[i]) /\ z[j + 1] = x
          <6>1. \A i \in 1 .. j : i \in 1 .. k  BY <5>1
          <6>. QED  BY <3>2, <5>1, <5>2, <5>3, <6>1
        <5>6. \A i \in 1 .. 1 : z[j + i] = <<x>>[i]
          <6>1. 1 .. 1 = {1}  OBVIOUS
          <6>. QED  BY <5>4, <5>5, <6>1
        <5>7. Behind(y, <<x>>, z)  BY <5>1, <5>2, <5>3, <5>4, <5>5, <5>6 DEF Behind
        <5>8. y \o <<x>> = z  BY <5>4, <5>7, JoinedIs
        <5>. QED  BY <5>2, <5>3, <5>8
      <4>. QED  BY <4>2, <4>3
    <3>. QED
      <4>1. <<x>> \in Seq(Nat)  OBVIOUS
      <4>. QED  BY <3>8, <3>9, <4>1
  <2>8. d \in [0 .. m -> Seq(Nat)] /\ d[0] = <<>> /\ d[m] = rest
    <3>1. \A j \in 0 .. m : SubSeq(rest, 1, j) \in Seq(Nat)  BY <1>1
    <3>2. SubSeq(rest, 1, 0) = <<>> /\ SubSeq(rest, 1, m) = rest  BY <1>1
    <3>3. 0 \in 0 .. m /\ m \in 0 .. m  OBVIOUS
    <3>. QED  BY <3>1, <3>2, <3>3
  <2>. HIDE DEF d
  <2>9. f[p[0]] = d[m]  BY <2>4, <2>5, <2>6, <2>7, <2>8, ReadingOn
  <2>. QED  BY <2>4, <2>8, <2>9
<1>. QED  BY <1>3, <1>4

(* The parts of a stored list: the size and the mark, the first id, the     *)
(* encoded differences                                                      *)
Encoded(s, rest, pfor, mark) ==
    \/ /\ mark = 1 /\ rest # <<>>
       /\ s = EncodedBlocks(rest, pfor) /\ NoBlock \notin ToSet(s)
    \/ /\ mark = 0 /\ s = [i \in DOMAIN rest |-> VarByte(rest[i])]

LEMMA CompressedIs ==
    ASSUME NEW ids \in Ascendings, NEW pfor \in PFORSettings
    PROVE  \E s, mark :
             /\ Encoded(s, Tail(Deltas(ids)), pfor, mark)
             /\ Compressed(ids, pfor)
                  = VarByte(2 * Len(VarByte(ids[1]) \o FlattenSeq(s)) + mark)
                      \o (VarByte(ids[1]) \o FlattenSeq(s))
<1>. DEFINE rest == Tail(Deltas(ids))
            blocks == IF Len(rest) >= pfor.threshold THEN EncodedBlocks(rest, pfor) ELSE <<>>
            pfor_encoded == blocks # <<>> /\ NoBlock \notin ToSet(blocks)
            singles == [i \in DOMAIN rest |-> VarByte(rest[i])]
            cdata == VarByte(ids[1]) \o FlattenSeq(IF pfor_encoded THEN blocks ELSE singles)
<1>1. Compressed(ids, pfor) = VarByte(2 * Len(cdata) + (IF pfor_encoded THEN 1 ELSE 0)) \o cdata
  BY DEF Compressed
<1>2. pfor_encoded => blocks = EncodedBlocks(rest, pfor) /\ rest # <<>>
  <2>1. SUFFICES ASSUME blocks # <<>>
                 PROVE  blocks = EncodedBlocks(rest, pfor) /\ rest # <<>>
    OBVIOUS
  <2>2. blocks = EncodedBlocks(rest, pfor)  BY <2>1
  <2>3. ASSUME rest = <<>> PROVE FALSE
    <3>1. pfor.blocksize \in Nat \ {0}
      <4>1. \A x \in 1 .. 255 : x \in Nat \ {0}  OBVIOUS
      <4>2. pfor.blocksize \in 1 .. 255  BY DEF PFORSettings
      <4>. QED  BY <4>1, <4>2, Zenon
    <3>2. PICK bs \in Nat \ {0} : bs = pfor.blocksize  BY <3>1
    <3>3. Padded(<<>>, bs) = <<>>
      <4>1. Len(<<>>) % bs = 0
        <5>1. bs * 0 + 0 = 0 /\ 0 \in 0 .. bs - 1  OBVIOUS
        <5>2. (bs * 0 + 0) % bs = 0  BY <5>1, DivisionUnique
        <5>. QED  BY <5>1, <5>2
      <4>2. Padded(<<>>, bs) = <<>> \o [k \in 1 .. 0 |-> 0]  BY <4>1 DEF Padded
      <4>3. [k \in 1 .. 0 |-> 0] = <<>>  OBVIOUS
      <4>. QED  BY <4>2, <4>3
    <3>4. Len(<<>>) \div bs = 0
      <4>1. bs * 0 + 0 = 0 /\ 0 \in 0 .. bs - 1  OBVIOUS
      <4>2. (bs * 0 + 0) \div bs = 0  BY <4>1, DivisionUnique
      <4>. QED  BY <4>1, <4>2
    <3>5. EncodedBlocks(<<>>, pfor)
            = [k \in 1 .. Len(<<>>) \div bs |->
                 EncodedBlock(SubSeq(<<>>, (k - 1) * bs + 1, k * bs), pfor.maxexceptions)]
      BY <3>2, <3>3 DEF EncodedBlocks
    <3>6. EncodedBlocks(<<>>, pfor) = <<>>  BY <3>4, <3>5
    <3>. QED  BY <2>1, <2>2, <2>3, <3>6
  <2>. QED  BY <2>2, <2>3
<1>3. CASE pfor_encoded
  <2>1. cdata = VarByte(ids[1]) \o FlattenSeq(blocks)  BY <1>3
  <2>2. Compressed(ids, pfor) = VarByte(2 * Len(cdata) + 1) \o cdata  BY <1>1, <1>3
  <2>3. Encoded(blocks, rest, pfor, 1)  BY <1>2, <1>3 DEF Encoded
  <2>. HIDE DEF blocks, cdata, rest
  <2>4. \E s, mark : /\ Encoded(s, rest, pfor, mark)
                     /\ Compressed(ids, pfor)
                          = VarByte(2 * Len(VarByte(ids[1]) \o FlattenSeq(s)) + mark)
                              \o (VarByte(ids[1]) \o FlattenSeq(s))
    BY <2>1, <2>2, <2>3
  <2>. QED  BY <2>4 DEF rest
<1>4. CASE ~pfor_encoded
  <2>1. cdata = VarByte(ids[1]) \o FlattenSeq(singles)  BY <1>4
  <2>2. Compressed(ids, pfor) = VarByte(2 * Len(cdata) + 0) \o cdata  BY <1>1, <1>4
  <2>3. Encoded(singles, rest, pfor, 0)  BY DEF Encoded
  <2>. HIDE DEF singles, cdata, rest
  <2>4. \E s, mark : /\ Encoded(s, rest, pfor, mark)
                     /\ Compressed(ids, pfor)
                          = VarByte(2 * Len(VarByte(ids[1]) \o FlattenSeq(s)) + mark)
                              \o (VarByte(ids[1]) \o FlattenSeq(s))
    BY <2>1, <2>2, <2>3
  <2>. QED  BY <2>4 DEF rest
<1>. QED  BY <1>3, <1>4

(* A sequence is what is read where it lies *)
LEMMA SubSeqThere ==
    ASSUME NEW X, NEW q \in Seq(X), NEW s \in Seq(X), NEW at, Lies(q, s, at), q # <<>>
    PROVE  SubSeq(s, at, at + Len(q) - 1) = q
<1>1. PICK l \in Nat : l = Len(q) /\ l >= 1  OBVIOUS
<1>2. at \in Nat \ {0} /\ \A j \in 1 .. l : at + j - 1 \in 1 .. Len(s) /\ s[at + j - 1] = q[j]
  BY <1>1 DEF Lies
<1>3. l \in 1 .. l  BY <1>1
<1>4. at + l - 1 <= Len(s) /\ at + l - 1 \in Nat
  <2>1. at + l - 1 \in 1 .. Len(s)  BY <1>2, <1>3, Zenon
  <2>2. Len(s) \in Nat  OBVIOUS
  <2>. QED  BY <2>1, <2>2
<1>5. PICK e \in Nat : e = at + l - 1 /\ e <= Len(s) /\ e - at + 1 = l
  <2>1. (at + l - 1) - at + 1 = l  BY <1>2
  <2>. QED  BY <1>4, <2>1
<1>6. /\ SubSeq(s, at, e) \in Seq(X) /\ Len(SubSeq(s, at, e)) = l
      /\ \A j \in 1 .. l : SubSeq(s, at, e)[j] = s[at + j - 1]
  BY <1>1, <1>2, <1>5
<1>7. SubSeq(s, at, e) = q  BY <1>1, <1>2, <1>6
<1>. QED  BY <1>1, <1>5, <1>7

(* A list is read back from wherever it lies, and its size leads behind it *)
LEMMA ListReads ==
    ASSUME NEW ids \in Ascendings, NEW pfor \in PFORSettings, NEW bytes \in Seq(Byte), NEW at,
           Lies(Compressed(ids, pfor), bytes, at)
    PROVE  /\ ReadList(bytes, at, pfor.blocksize) = ids
           /\ Skipped(bytes, at) = at + Len(Compressed(ids, pfor))
<1>. DEFINE rest == Tail(Deltas(ids))
            bs == pfor.blocksize
<1>1. /\ ids \in Seq(Nat) /\ ids[1] \in Nat /\ Positive(rest)
      /\ <<ids[1]>> \o rest = Deltas(ids) /\ Sums(Deltas(ids)) = ids
  BY AscendingIs, DeltasAre
<1>2. PICK s, mark : /\ Encoded(s, rest, pfor, mark)
                     /\ Compressed(ids, pfor)
                          = VarByte(2 * Len(VarByte(ids[1]) \o FlattenSeq(s)) + mark)
                              \o (VarByte(ids[1]) \o FlattenSeq(s))
  BY CompressedIs
<1>3. bs \in Nat
  <2>1. \A x \in 1 .. 255 : x \in Nat  OBVIOUS
  <2>2. pfor.blocksize \in 1 .. 255  BY DEF PFORSettings
  <2>. QED  BY <2>1, <2>2, Zenon
<1>4. rest \in Seq(Nat)  BY <1>1 DEF Positive
<1>5. PICK id \in Nat, v \in Seq(Byte) : id = ids[1] /\ v = VarByte(id) /\ v # <<>>
  <2>1. PICK id \in Nat : id = ids[1]  BY <1>1
  <2>2. VarByte(id) \in Seq(Byte) /\ VarByte(id) # <<>>  BY EncodingIs
  <2>. QED  BY <2>1, <2>2
<1>. HIDE DEF rest, bs
<1>6. /\ s \in Seq(Seq(Byte)) /\ mark \in {0, 1}
      /\ mark = 1 => \A f : ReadsBlocks(f, v \o FlattenSeq(s), bs)
                              => BeforeZeros(f[1 + Len(v)]) = rest
      /\ mark = 0 => \A f : ReadsSingly(f, v \o FlattenSeq(s)) => f[1 + Len(v)] = rest
  <2>1. CASE mark = 1 /\ rest # <<>> /\ s = EncodedBlocks(rest, pfor) /\ NoBlock \notin ToSet(s)
    BY <1>1, <2>1, BlocksReadBack DEF bs
  <2>2. CASE mark = 0 /\ s = [i \in DOMAIN rest |-> VarByte(rest[i])]
    <3>1. s \in Seq(Seq(Byte)) /\ \A f : ReadsSingly(f, v \o FlattenSeq(s)) => f[1 + Len(v)] = rest
      BY <1>4, <2>2, SinglesReadBack
    <3>. QED  BY <2>2, <3>1
  <2>. QED  BY <1>2, <2>1, <2>2 DEF Encoded
<1>7. PICK cdata \in Seq(Byte) : cdata = v \o FlattenSeq(s)
  <2>1. FlattenSeq(s) \in Seq(Byte)  BY <1>6, ChainIs
  <2>2. v \o FlattenSeq(s) \in Seq(Byte)  BY <2>1
  <2>. QED  BY <2>2
<1>8. PICK len \in Nat : len = Len(cdata)  OBVIOUS
<1>9. cdata # <<>> /\ Lies(v, cdata, 1)
  <2>1. PICK x \in Seq(Byte) : x = FlattenSeq(s)  BY <1>6, ChainIs
  <2>2. v \o x # <<>>
    <3>1. Len(v \o x) = Len(v) + Len(x) /\ Len(v) # 0 /\ Len(v) \in Nat /\ Len(x) \in Nat
      BY <1>5
    <3>2. Len(v \o x) # 0  BY <3>1
    <3>. QED  BY <3>2
  <2>3. Lies(v \o x, v \o x, 1)
    <3>1. v \o x \in Seq(Byte)  OBVIOUS
    <3>. QED  BY <3>1, LiesInItself
  <2>4. Lies(v, v \o x, 1)  BY <2>3, BothLie
  <2>. QED  BY <1>7, <2>1, <2>2, <2>4
<1>10. PICK word \in Nat : word = 2 * len + mark /\ word \div 2 = len /\ word % 2 = mark
  <2>1. mark \in 0 .. 2 - 1 /\ 2 \in Nat \ {0} /\ 2 * len + mark \in Nat  BY <1>6
  <2>2. (2 * len + mark) \div 2 = len /\ (2 * len + mark) % 2 = mark
    BY <2>1, DivisionUnique
  <2>. QED  BY <2>1, <2>2
<1>11. PICK w \in Seq(Byte) : w = VarByte(word)  BY EncodingIs
<1>12. Compressed(ids, pfor) = w \o cdata  BY <1>2, <1>5, <1>7, <1>8, <1>10, <1>11
<1>13. Lies(w, bytes, at) /\ Lies(cdata, bytes, at + Len(w))  BY <1>12, BothLie
<1>14. VarByteAt(bytes, at).val = word /\ VarByteAt(bytes, at).next = at + Len(w)
  <2>1. VarByteAt(bytes, at) = [val |-> word, next |-> at + Len(VarByte(word))]
    BY <1>11, <1>13, VarByteReads
  <2>. QED  BY <1>11, <2>1
<1>15. SubSeq(bytes, at + Len(w), at + Len(w) + len - 1) = cdata
  <2>1. SubSeq(bytes, at + Len(w), at + Len(w) + Len(cdata) - 1) = cdata
    BY <1>9, <1>13, SubSeqThere
  <2>. QED  BY <1>8, <2>1
<1>16. VarByteAt(cdata, 1).val = id /\ VarByteAt(cdata, 1).next = 1 + Len(v)
  <2>1. VarByteAt(cdata, 1) = [val |-> id, next |-> 1 + Len(VarByte(id))]
    BY <1>5, <1>9, VarByteReads
  <2>. QED  BY <1>5, <2>1
<1>17. PICK size : size = VarByteAt(bytes, at)  OBVIOUS
<1>18. cdata = SubSeq(bytes, size.next, size.next + size.val \div 2 - 1)
       /\ size.val % 2 = mark /\ size.val \div 2 = len /\ size.next = at + Len(w)
  BY <1>10, <1>14, <1>15, <1>17
<1>23. PICK f, g : ReadsAs(f, g, cdata, size.val % 2, bs, ReadList(bytes, at, bs))
  BY <1>3, <1>9, <1>17, <1>18, ReadListIs
<1>19. /\ ReadsBlocks(f, cdata, bs) /\ ReadsSingly(g, cdata)
       /\ ReadList(bytes, at, bs)
            = Sums(<<VarByteAt(cdata, 1).val>>
                     \o (IF size.val % 2 = 1 THEN BeforeZeros(f[VarByteAt(cdata, 1).next])
                                             ELSE g[VarByteAt(cdata, 1).next]))
  BY <1>23 DEF ReadsAs
<1>20. (IF size.val % 2 = 1 THEN BeforeZeros(f[VarByteAt(cdata, 1).next])
                            ELSE g[VarByteAt(cdata, 1).next]) = rest
  <2>1. CASE mark = 1
    <3>1. BeforeZeros(f[1 + Len(v)]) = rest  BY <1>6, <1>7, <1>19, <2>1
    <3>. QED  BY <1>16, <1>18, <2>1, <3>1
  <2>2. CASE mark = 0
    <3>1. g[1 + Len(v)] = rest  BY <1>6, <1>7, <1>19, <2>2
    <3>. QED  BY <1>16, <1>18, <2>2, <3>1
  <2>. QED  BY <1>6, <2>1, <2>2
<1>21. ReadList(bytes, at, bs) = ids  BY <1>1, <1>5, <1>16, <1>19, <1>20
<1>22. Skipped(bytes, at) = at + Len(Compressed(ids, pfor))
  <2>1. Skipped(bytes, at) = at + Len(w) + len  BY <1>17, <1>18 DEF Skipped
  <2>2. Len(w \o cdata) = Len(w) + len /\ Len(w) \in Nat  BY <1>8
  <2>3. at \in Nat  BY DEF Lies
  <2>4. at + Len(w) + len = at + (Len(w) + len)  BY <2>2, <2>3
  <2>. QED  BY <1>12, <2>1, <2>2, <2>4
<1>. QED  BY <1>21, <1>22 DEF bs

(* and it is made of bytes *)
LEMMA CompressedType ==
    ASSUME NEW ids \in Ascendings, NEW pfor \in PFORSettings
    PROVE  Compressed(ids, pfor) \in Seq(Byte) /\ Compressed(ids, pfor) # <<>>
<1>. DEFINE rest == Tail(Deltas(ids))
<1>1. ids[1] \in Nat /\ Positive(rest) /\ rest \in Seq(Nat)
  BY AscendingIs, DeltasAre DEF Positive
<1>2. PICK s, mark : /\ Encoded(s, rest, pfor, mark)
                     /\ Compressed(ids, pfor)
                          = VarByte(2 * Len(VarByte(ids[1]) \o FlattenSeq(s)) + mark)
                              \o (VarByte(ids[1]) \o FlattenSeq(s))
  BY CompressedIs
<1>3. PICK id \in Nat, v \in Seq(Byte) : id = ids[1] /\ v = VarByte(id)
  <2>1. PICK id \in Nat : id = ids[1]  BY <1>1
  <2>2. VarByte(id) \in Seq(Byte)  BY EncodingIs
  <2>. QED  BY <2>1, <2>2
<1>. HIDE DEF rest
<1>4. s \in Seq(Seq(Byte)) /\ mark \in Nat
  <2>1. CASE mark = 1 /\ rest # <<>> /\ s = EncodedBlocks(rest, pfor) /\ NoBlock \notin ToSet(s)
    BY <1>1, <1>3, <2>1, BlocksReadBack
  <2>2. CASE mark = 0 /\ s = [i \in DOMAIN rest |-> VarByte(rest[i])]
    BY <1>1, <1>3, <2>2, SinglesReadBack
  <2>. QED  BY <1>2, <2>1, <2>2 DEF Encoded
<1>5. PICK x \in Seq(Byte) : x = FlattenSeq(s)  BY <1>3, <1>4, ChainIs
<1>6. v \o x \in Seq(Byte) /\ Len(v \o x) \in Nat  OBVIOUS
<1>7. PICK c \in Seq(Byte) : c = v \o x /\ Len(c) \in Nat  BY <1>6
<1>8. PICK word \in Nat : word = 2 * Len(c) + mark  BY <1>4, <1>7
<1>9. PICK w \in Seq(Byte) : w = VarByte(word) /\ w # <<>>  BY EncodingIs
<1>10. Compressed(ids, pfor) = w \o c  BY <1>2, <1>3, <1>5, <1>7, <1>8, <1>9
<1>11. w \o c \in Seq(Byte) /\ w \o c # <<>>
  <2>1. w \o c \in Seq(Byte) /\ Len(w \o c) = Len(w) + Len(c) /\ Len(w) # 0 /\ Len(w) \in Nat
    BY <1>9
  <2>2. Len(w \o c) # 0  BY <1>7, <2>1
  <2>. QED  BY <2>1, <2>2
<1>. QED  BY <1>10, <1>11

-----------------------------------------------------------------------------
(* What has been made of the inputs *)
Progress ==
    \/ /\ list \in Lists /\ pc \in {"compress", "read", "done"}
       /\ pc # "compress" =>
             stored = Compressed(list.ids, list.pfor) \o Compressed(Follower, list.pfor)
       /\ pc = "done" =>
             read = <<ReadList(stored, 1, list.pfor.blocksize),
                      ReadList(stored, Skipped(stored, 1), list.pfor.blocksize)>>
    \/ /\ list = NoList /\ pc \in {"shingle", "parse", "verify", "done"}
       /\ n \in {3, 4} /\ text \in Texts /\ strings \in Strings
       /\ outside \in Outside /\ showall \in BOOLEAN
       /\ pc # "shingle" => filegrams = FileNgrams(n, text, outside)
       /\ pc \in {"verify", "done"} =>
             candidate = IsCandidate(filegrams, SearchNgrams(n, strings, outside))
       /\ pc = "done" => output = Verified(strings, text, showall)

LEMMA InitProgress == Init => Progress
  BY DEF Init, Progress

LEMMA NextProgress == Progress /\ [Next]_vars => Progress'
<1>. SUFFICES ASSUME Progress, [Next]_vars PROVE Progress'
  OBVIOUS
<1>. USE DEF Progress, listVars, inputs
<1>1. CASE Compress  BY <1>1 DEF Compress
<1>2. CASE Read      BY <1>2 DEF Read
<1>3. CASE Shingle   BY <1>3 DEF Shingle
<1>4. CASE Parse     BY <1>4 DEF Parse
<1>5. CASE Verify    BY <1>5 DEF Verify
<1>6. CASE UNCHANGED vars  BY <1>6 DEF vars
<1>. QED  BY <1>1, <1>2, <1>3, <1>4, <1>5, <1>6 DEF Next

LEMMA NotAList == NoList \notin Lists
<1>. SUFFICES ASSUME NoList \in Lists PROVE FALSE
  OBVIOUS
<1>1. NoList.pfor \in PFORSettings  BY ListsAssumption
<1>2. NoList.pfor = <<>>  BY DEF NoList
<1>3. <<>> \in [blocksize : 1 .. 255, maxexceptions : 0 .. 15, threshold : Nat]
  BY <1>1, <1>2 DEF PFORSettings
<1>4. DOMAIN <<>> = {"blocksize", "maxexceptions", "threshold"}  BY <1>3
<1>. QED  BY <1>4

(* A string is never lost between bgindex and bgparse: a file that contains *)
(* all search strings is a candidate, for every file and all strings.       *)
THEOREM ContainedIsCandidate == Spec => []MatchesAreCandidates
<1>1. Progress => MatchesAreCandidates
  <2>1. SUFFICES ASSUME Progress, pc \in {"verify", "done"}, list = NoList,
                        Matches, Len(text) >= 4,
                        NEW long \in DOMAIN strings, Len(strings[long]) >= n
                 PROVE  candidate
    BY DEF MatchesAreCandidates
  <2>2. /\ n \in {3, 4} /\ text \in Seq(Byte) /\ outside \in Byte
        /\ strings \in Seq(Seq(Byte) \ {<<>>})
        /\ filegrams = FileNgrams(n, text, outside)
        /\ candidate = IsCandidate(filegrams, SearchNgrams(n, strings, outside))
    BY <2>1, NotAList, BytesAssumption DEF Progress
  <2>3. \A s \in DOMAIN strings : strings[s] \in Seq(Byte) \ {<<>>}
    BY <2>2
  <2>4. SearchNgrams(n, strings, outside) \subseteq filegrams
    <3>1. SUFFICES ASSUME NEW s \in DOMAIN strings
                   PROVE  StringNgrams(n, strings[s], outside) \subseteq filegrams
      BY DEF SearchNgrams
    <3>2. Occurs(strings[s], text) # {}  BY <2>1 DEF Matches, Occurrences, Occurs
    <3>3. strings[s] \in Seq(Byte)  BY <2>3
    <3>. QED  BY <2>1, <2>2, <3>2, <3>3, PartOfFile
  <2>5. SearchNgrams(n, strings, outside) # {}
    <3>1. strings[long] \in Seq(Byte) /\ Len(strings[long]) \in Nat  BY <2>3
    <3>2. 1 \in 1 .. Len(strings[long]) - n + 1 /\ ~(Len(strings[long]) < n)
      BY <2>1, <2>2, <3>1
    <3>3. Ngram(n, strings[long], 1, outside) \in StringNgrams(n, strings[long], outside)
      BY <3>2 DEF StringNgrams
    <3>. QED  BY <3>3 DEF SearchNgrams
  <2>. QED  BY <2>2, <2>4, <2>5 DEF IsCandidate
<1>. QED  BY <1>1, InitProgress, NextProgress, PTL DEF Spec

(* bgverify's answer is right for every file and all strings: the skips     *)
(* pass over no occurrence, and each is listed once and in order.           *)
THEOREM SearchIsExact == Spec => []VerifyIsExact
<1>1. Progress => VerifyIsExact
  <2>1. SUFFICES ASSUME Progress, pc = "done", list = NoList
                 PROVE  output = IF ~Matches THEN <<>>
                                 ELSE IF ~showall THEN <<"matches">>
                                 ELSE FlattenSeq([s \in DOMAIN strings |->
                                                    Ordered(Occurrences(strings[s]))])
    BY DEF VerifyIsExact
  <2>2. /\ text \in Seq(Byte) /\ strings \in Seq(Seq(Byte) \ {<<>>}) /\ showall \in BOOLEAN
        /\ output = Verified(strings, text, showall)
    BY <2>1, NotAList, BytesAssumption DEF Progress
  <2>3. \A s \in DOMAIN strings : strings[s] \in Seq(Byte) /\ strings[s] # <<>>
    BY <2>2
  <2>4. \A s \in DOMAIN strings : Occurrences(strings[s]) = Occurs(strings[s], text)
    BY DEF Occurrences, Occurs
  <2>5. \A s \in DOMAIN strings :
           /\ Found(strings[s], text, ~showall) = <<>> <=> Occurrences(strings[s]) = {}
           /\ showall => Found(strings[s], text, ~showall) = Ordered(Occurrences(strings[s]))
    <3>1. TAKE s \in DOMAIN strings
    <3>4. PICK one \in BOOLEAN : one = ~showall  BY <2>2
    <3>2. showall => one = FALSE  BY <3>4
    <3>3. /\ Found(strings[s], text, one) = <<>> <=> Occurs(strings[s], text) = {}
          /\ Found(strings[s], text, FALSE) = Ordered(Occurs(strings[s], text))
      BY <2>2, <2>3, FoundIs
    <3>. QED  BY <2>4, <3>4, <3>2, <3>3
  <2>. DEFINE results == [p \in DOMAIN strings |-> Found(strings[p], text, ~showall)]
  <2>6. (\E p \in DOMAIN strings : results[p] = <<>>) <=> ~Matches  BY <2>5 DEF Matches
  <2>7. showall => results = [s \in DOMAIN strings |-> Ordered(Occurrences(strings[s]))]
    BY <2>5
  <2>8. output = IF \E p \in DOMAIN strings : results[p] = <<>> THEN <<>>
                 ELSE IF showall THEN FlattenSeq(results) ELSE <<"matches">>
    BY <2>2 DEF Verified
  <2>. HIDE DEF results
  <2>. QED  BY <2>6, <2>7, <2>8
<1>. QED  BY <1>1, InitProgress, NextProgress, PTL DEF Spec

LEMMA FollowerIs == Follower \in Ascendings
<1>1. Follower \in Seq(Nat) /\ Follower # <<>> /\ DOMAIN Follower = {1, 2}
      /\ Follower[1] = 300 /\ Follower[2] = 301
  BY DEF Follower
<1>2. \A i, k \in {1, 2} : i < k => i = 1 /\ k = 2  OBVIOUS
<1>3. \A i, k \in DOMAIN Follower : i < k => Follower[i] < Follower[k]  BY <1>1, <1>2
<1>. QED  BY <1>1, <1>3 DEF Ascendings

(* What bgparse reads is what bgCompress was given, for every ascending list *)
(* of ids and all options the format can hold: in blocks and one by one,     *)
(* with exceptions and padding, and the list behind it, too.                 *)
THEOREM ListsAreReadBack == Spec => []ListsReadBack
<1>1. Progress => ListsReadBack
  <2>1. SUFFICES ASSUME Progress, pc = "done", list # NoList
                 PROVE  read = <<list.ids, Follower>>
    BY DEF ListsReadBack
  <2>2. /\ list \in Lists
        /\ stored = Compressed(list.ids, list.pfor) \o Compressed(Follower, list.pfor)
        /\ read = <<ReadList(stored, 1, list.pfor.blocksize),
                    ReadList(stored, Skipped(stored, 1), list.pfor.blocksize)>>
    BY <2>1 DEF Progress
  <2>3. list.pfor \in PFORSettings /\ list.ids \in Ascendings  BY <2>2, ListsAssumption
  <2>4. PICK pfor \in PFORSettings, ids \in Ascendings : pfor = list.pfor /\ ids = list.ids
    BY <2>3
  <2>5. PICK x \in Seq(Byte), y \in Seq(Byte) :
          x = Compressed(ids, pfor) /\ y = Compressed(Follower, pfor)
    BY FollowerIs, CompressedType
  <2>6. stored = x \o y /\ x \o y \in Seq(Byte)  BY <2>2, <2>4, <2>5
  <2>7. Lies(x, stored, 1) /\ Lies(y, stored, 1 + Len(x))
    <3>1. Lies(x \o y, stored, 1)  BY <2>6, LiesInItself
    <3>. QED  BY <3>1, BothLie
  <2>8. stored \in Seq(Byte)  BY <2>6
  <2>9. ReadList(stored, 1, pfor.blocksize) = ids /\ Skipped(stored, 1) = 1 + Len(x)
    BY <2>5, <2>7, <2>8, ListReads
  <2>10. ReadList(stored, 1 + Len(x), pfor.blocksize) = Follower
    BY <2>5, <2>7, <2>8, FollowerIs, ListReads
  <2>. QED  BY <2>2, <2>4, <2>9, <2>10
<1>. QED  BY <1>1, InitProgress, NextProgress, PTL DEF Spec
=============================================================================

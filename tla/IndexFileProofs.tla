--------------------------- MODULE IndexFileProofs ---------------------------
(***************************************************************************)
(* An index that bgparse accepts has all its lists, whatever has happened  *)
(* to the disk or to bgindex, and gives what is in them once its hints are *)
(* written: for any n-gram size, hint type and files.                      *)
(***************************************************************************)
EXTENDS IndexFile, CommonProofs

Fields == {"offset", "hints", "cells", "size", "named"}

Listed(g) == \E c \in disk.cells : c.ngram = g
AllIsThere == (\A g \in Present : Listed(g)) /\ disk.named

(* Every write depends on all the writes before it, for a stream that has  *)
(* failed once writes nothing any more: while it is good the file is as    *)
(* far as the writer is, and the offset is the last but one.               *)
WritesInOrder ==
    /\ disk = [f \in Fields |-> disk[f]]
    /\ good => \A g \in Present \ todo : Listed(g)
    /\ wpc \in {"header", "hints", "closed"} => todo = {} /\ (good => disk.named)
    /\ Accepts => AllIsThere

LEMMA InitWritesInOrder == Init => WritesInOrder
<1>. SUFFICES ASSUME Init PROVE WritesInOrder
  OBVIOUS
<1>1. disk = [f \in Fields |-> disk[f]] /\ disk.offset = 0
  BY DEF Init, Fields
<1>2. wpc = "spacer" /\ todo = Present
  BY DEF Init
<1>. QED  BY <1>1, <1>2 DEF WritesInOrder, Accepts

(* What a write may leave behind, when it only adds to the file *)
LEMMA AddingKeepsLists ==
    ASSUME WritesInOrder, NEW written,
           disk.cells \subseteq written.cells, disk.named => written.named,
           written.offset = disk.offset, written = [f \in Fields |-> written[f]],
           content' = content, MayFail(written)
    PROVE  /\ disk' = [f \in Fields |-> disk'[f]]
           /\ \A g : Listed(g) => Listed(g)'
           /\ disk.named => disk'.named
           /\ good' => good /\ disk' = written
           /\ Accepts' => AllIsThere'
<1>1. disk' \in {disk, written} /\ (good' => good /\ disk' = written)
  BY DEF MayFail
<1>2. \A g : Listed(g) => Listed(g)'
  BY <1>1 DEF Listed
<1>3. Accepts' => Accepts  BY <1>1 DEF Accepts
<1>4. Present' = Present  BY DEF Present
<1>. QED  BY <1>1, <1>2, <1>3, <1>4 DEF WritesInOrder, AllIsThere

LEMMA WriteListInOrder == WritesInOrder /\ WriteList => WritesInOrder'
<1>. SUFFICES ASSUME WritesInOrder, WriteList PROVE WritesInOrder'
  OBVIOUS
<1>. DEFINE g    == Min(todo)
            pads == PadsBefore(g)
            pos  == end + pads
            list == [off |-> pos, len |-> ListSize(g), ngram |-> g]
            grown == disk.cells \cup Zeros(end, pads) \cup {list}
            written == [disk EXCEPT !.cells = grown, !.size = pos + ListSize(g)]
<1>1. /\ MayFail(written) /\ todo' = todo \ {g} /\ content' = content
      /\ wpc = "lists" /\ wpc' = "lists"
  BY DEF WriteList
<1>2. /\ written.cells = grown /\ written.offset = disk.offset /\ written.named = disk.named
      /\ written = [f \in Fields |-> written[f]]
  BY DEF WritesInOrder, Fields
<1>3. list \in grown /\ list.ngram = g /\ disk.cells \subseteq grown
  OBVIOUS
<1>. HIDE DEF g, grown, list, written
<1>4. /\ disk' = [f \in Fields |-> disk'[f]]
      /\ \A h : Listed(h) => Listed(h)'
      /\ good' => good /\ disk' = written
      /\ Accepts' => AllIsThere'
  BY <1>1, <1>2, <1>3, AddingKeepsLists
<1>5. ASSUME good', NEW h \in Present \ todo' PROVE Listed(h)'
  <2>1. CASE h = g  BY <1>2, <1>3, <1>4, <1>5, <2>1 DEF Listed
  <2>2. CASE h # g  BY <1>1, <1>4, <1>5, <2>2 DEF WritesInOrder
  <2>. QED  BY <2>1, <2>2
<1>6. Present' = Present  BY <1>1 DEF Present
<1>. QED  BY <1>1, <1>4, <1>5, <1>6 DEF WritesInOrder

LEMMA NextWritesInOrder == WritesInOrder /\ [Next]_vars => WritesInOrder'
<1>. SUFFICES ASSUME WritesInOrder, [Next]_vars PROVE WritesInOrder'
  OBVIOUS
<1>1. CASE WriteSpacer
  <2>. DEFINE written == [disk EXCEPT !.hints = hints]
  <2>1. /\ MayFail(written) /\ todo' = todo /\ content' = content /\ wpc' = "lists"
    BY <1>1 DEF WriteSpacer
  <2>2. /\ written.cells = disk.cells /\ written.offset = disk.offset
        /\ written.named = disk.named /\ written = [f \in Fields |-> written[f]]
    BY DEF WritesInOrder, Fields
  <2>. HIDE DEF written
  <2>3. /\ disk' = [f \in Fields |-> disk'[f]] /\ \A h : Listed(h) => Listed(h)'
        /\ (good' => good) /\ (Accepts' => AllIsThere')
    BY <2>1, <2>2, AddingKeepsLists
  <2>. QED  BY <2>1, <2>3 DEF WritesInOrder, Present
<1>2. CASE WriteList  BY <1>2, WriteListInOrder
<1>3. CASE WriteMap
  <2>. DEFINE written == [disk EXCEPT !.named = TRUE]
  <2>1. /\ MayFail(written) /\ todo' = todo /\ content' = content /\ wpc' = "header" /\ todo = {}
    BY <1>3 DEF WriteMap
  <2>2. /\ written.cells = disk.cells /\ written.offset = disk.offset
        /\ written.named /\ written = [f \in Fields |-> written[f]]
    BY DEF WritesInOrder, Fields
  <2>. HIDE DEF written
  <2>3. /\ disk' = [f \in Fields |-> disk'[f]] /\ \A h : Listed(h) => Listed(h)'
        /\ (good' => good /\ disk' = written) /\ (Accepts' => AllIsThere')
    BY <2>1, <2>2, AddingKeepsLists
  <2>. QED  BY <2>1, <2>2, <2>3 DEF WritesInOrder, Present
<1>4. CASE RewriteHeader
  <2>. DEFINE written == [disk EXCEPT !.offset = fileid_map_offset]
  <2>1. /\ MayFail(written) /\ todo' = todo /\ content' = content /\ wpc' = "hints"
        /\ wpc = "header"
    BY <1>4 DEF RewriteHeader
  <2>2. /\ written.cells = disk.cells /\ written.named = disk.named
        /\ written = [f \in Fields |-> written[f]]
    BY DEF WritesInOrder, Fields
  <2>. HIDE DEF written
  <2>3. Present' = Present  BY <2>1 DEF Present
  <2>4. CASE good /\ disk' = written /\ good' = good
    BY <2>1, <2>2, <2>3, <2>4 DEF WritesInOrder, AllIsThere, Listed
  <2>5. CASE good' = FALSE /\ disk' = disk
    BY <2>1, <2>3, <2>5 DEF WritesInOrder, AllIsThere, Listed, Accepts
  <2>. QED  BY <2>1, <2>4, <2>5 DEF MayFail
<1>5. CASE RewriteHints
  <2>. DEFINE written == [disk EXCEPT !.hints = hints]
  <2>1. /\ disk' \in {disk, written} /\ todo' = todo /\ content' = content /\ wpc' = "closed"
        /\ wpc = "hints" /\ good' = good
    BY <1>5 DEF RewriteHints
  <2>2. /\ written.cells = disk.cells /\ written.named = disk.named
        /\ written.offset = disk.offset /\ written = [f \in Fields |-> written[f]]
    BY DEF WritesInOrder, Fields
  <2>. HIDE DEF written
  <2>3. Present' = Present  BY <2>1 DEF Present
  <2>. QED  BY <2>1, <2>2, <2>3 DEF WritesInOrder, AllIsThere, Listed, Accepts
<1>6. CASE Killed
  BY <1>6 DEF Killed, WritesInOrder, AllIsThere, Listed, Accepts, Present
<1>7. CASE UNCHANGED vars
  BY <1>7 DEF vars, writer, WritesInOrder, AllIsThere, Listed, Accepts, Present
<1>. QED  BY <1>1, <1>2, <1>3, <1>4, <1>5, <1>6, <1>7 DEF Next

(* If bgparse goes on, all the lists and the names are in the file,        *)
(* whatever writes have failed and whenever bgindex was killed.            *)
THEOREM AcceptedIsComplete == Spec => []AcceptedOnlyWithAllLists
<1>1. WritesInOrder => AcceptedOnlyWithAllLists
  BY DEF WritesInOrder, AcceptedOnlyWithAllLists, AllIsThere, Listed
<1>. QED  BY <1>1, InitWritesInOrder, NextWritesInOrder, PTL DEF Spec

-----------------------------------------------------------------------------
(***************************************************************************)
(* Where everything is.  A finished index is exact because every n-gram up *)
(* to the last one written has its cell, the cells are in order and close  *)
(* to each other, and a prefix's hint is the place of its first n-gram.    *)
(***************************************************************************)
GroupSize == 2 ^ trimmed

(* the length of the cell of an n-gram, and where it starts *)
CellLen(k) == IF k \in Present THEN ListSize(k) ELSE 1

Addresses(A) == /\ A \in [Nat -> Nat]
                /\ A[0] = 0
                /\ \A k \in Nat : A[k + 1] = A[k] + CellLen(k)
Address == CHOOSE A : Addresses(A)

Cell(k) == [off |-> Address[k], len |-> CellLen(k),
            ngram |-> IF k \in Present THEN k ELSE NotInIndex]

(* how many n-grams have a cell: all up to the last one written *)
Count == IF first_write THEN 0 ELSE last_ngram_written + 1

HintOf(h) == IF h = 0 \/ \E g \in Present \ todo : ngram_to_hint(g) = h
             THEN Address[GroupSize * h] ELSE NotInIndex

ContentOK ==
    /\ trimmed \in 0 .. NgramBits
    /\ content \in [Ngrams -> SUBSET Files]
    /\ Present # {}

(* the writer takes the n-grams in order *)
Progress ==
    /\ todo \subseteq Present
    /\ \A g \in Present \ todo : g < Count
    /\ \A g \in todo : g >= Count
    /\ IF first_write THEN todo = Present /\ last_index = 0
       ELSE last_ngram_written \in Present \ todo
            /\ last_index = ngram_to_hint(last_ngram_written)
    /\ wpc = "spacer" => first_write
    /\ wpc \in {"header", "hints", "closed"} => todo = {}

Layout ==
    good => /\ disk.cells = {Cell(k) : k \in 0 .. Count - 1}
            /\ disk.size = Address[Count]
            /\ wpc = "spacer" => hints = [h \in 0 .. num_hints - 1 |-> NotInIndex]
            /\ wpc \notin {"spacer", "killed"} => hints = [h \in 0 .. num_hints - 1 |-> HintOf(h)]
            /\ wpc = "closed" => disk.hints = hints

IInv == WritesInOrder /\ ContentOK /\ Progress /\ Layout

-----------------------------------------------------------------------------
LEMMA Widths ==
    ASSUME ContentOK
    PROVE  /\ GroupSize \in Nat \ {0} /\ num_hints \in Nat \ {0}
           /\ Ngrams = 0 .. GroupSize * num_hints - 1
<1>1. NgramBits \in Nat /\ trimmed \in Nat /\ NgramBits - trimmed \in Nat
      /\ trimmed + (NgramBits - trimmed) = NgramBits
  BY BitsAssumption DEF ContentOK
<1>2. 2^(trimmed + (NgramBits - trimmed)) = 2^trimmed * 2^(NgramBits - trimmed)
  BY <1>1, PowerSum
<1>3. 2^trimmed \in Nat \ {0} /\ 2^(NgramBits - trimmed) \in Nat \ {0}
  BY <1>1, PowerOfTwo
<1>. QED  BY <1>1, <1>2, <1>3 DEF GroupSize, num_hints, Ngrams

(* An n-gram's prefix and its place in the group *)
LEMMA Grouping ==
    ASSUME ContentOK, NEW g \in Nat
    PROVE  /\ ngram_to_hint(g) \in Nat /\ masked(g) \in 0 .. GroupSize - 1
           /\ g = GroupSize * ngram_to_hint(g) + masked(g)
           /\ GroupSize * ngram_to_hint(g) \in Nat
           /\ g \in Ngrams => ngram_to_hint(g) \in 0 .. num_hints - 1
           /\ \A h \in Nat : GroupSize * ngram_to_hint(g) <= h /\ h <= g =>
                 ngram_to_hint(h) = ngram_to_hint(g)
           /\ \A h \in Nat : h <= g => ngram_to_hint(h) <= ngram_to_hint(g)
<1>. DEFINE W == GroupSize
            q == ngram_to_hint(g)
            r == masked(g)
<1>1. W \in Nat \ {0} /\ num_hints \in Nat \ {0} /\ Ngrams = 0 .. W * num_hints - 1
  BY Widths
<1>2. q = g \div W /\ r = g % W /\ \A h : ngram_to_hint(h) = h \div W
  BY DEF ngram_to_hint, masked, GroupSize
<1>. HIDE DEF W, q, r
<1>3. q \in Nat /\ r \in 0 .. W - 1 /\ g = W * q + r
  BY <1>1, <1>2, Division
<1>4. W * q \in Nat  BY <1>1, <1>3
<1>5. ASSUME g \in Ngrams PROVE q \in 0 .. num_hints - 1
  <2>1. SUFFICES ASSUME q >= num_hints PROVE FALSE
    BY <1>1, <1>3
  <2>2. W * q >= W * num_hints  BY <1>1, <1>3, <2>1
  <2>. QED  BY <1>1, <1>3, <1>4, <1>5, <2>2
<1>6. ASSUME NEW h \in Nat, W * q <= h, h <= g PROVE h \div W = q
  <2>1. PICK d \in 0 .. r : h = W * q + d
    <3>1. h - W * q \in 0 .. r /\ h = W * q + (h - W * q)  BY <1>3, <1>4, <1>6
    <3>. QED  BY <3>1
  <2>2. d \in 0 .. W - 1  BY <1>1, <1>3, <2>1
  <2>. QED  BY <1>1, <1>3, <2>1, <2>2, DivisionUnique
<1>7. \A h \in Nat : h <= g => h \div W <= q
  BY <1>1, <1>2, DivisionMonotone
<1>. QED  BY <1>2, <1>3, <1>4, <1>5, <1>6, <1>7 DEF W, q, r

LEMMA Lengths ==
    ASSUME ContentOK
    PROVE  /\ Present \subseteq Ngrams /\ Ngrams \subseteq Nat
           /\ \A k : CellLen(k) \in Nat \ {0}
<1>1. Present \subseteq Ngrams  BY DEF Present
<1>2. Ngrams \subseteq Nat  BY Widths
<1>3. ASSUME NEW k \in Present PROVE ListSize(k) \in Nat \ {0}
  <2>1. content[k] \subseteq Files  BY <1>1, <1>3 DEF ContentOK
  <2>2. IsFiniteSet(content[k])  BY <2>1, FilesAssumption, FS_Subset
  <2>3. Cardinality(content[k]) \in Nat  BY <2>2, FS_CardinalityType
  <2>. QED  BY <2>3 DEF ListSize
<1>4. ASSUME NEW k PROVE CellLen(k) \in Nat \ {0}
  <2>1. CASE k \in Present  BY <1>3, <2>1 DEF CellLen
  <2>2. CASE k \notin Present  BY <2>2 DEF CellLen
  <2>. QED  BY <2>1, <2>2
<1>. QED  BY <1>1, <1>2, <1>4

(* The addresses exist and grow *)
LEMMA AddressesExist == ASSUME ContentOK PROVE Addresses(Address)
<1>1. \A k : CellLen(k) \in Nat \ {0}  BY Lengths
<1>. DEFINE F == [k \in Nat |-> [a \in Nat |-> a + CellLen(k)]]
<1>2. F \in [Nat -> [Nat -> Nat]]  BY <1>1
<1>3. \A k \in Nat, a \in Nat : F[k][a] = a + CellLen(k)  OBVIOUS
<1>. HIDE DEF F
<1>4. PICK A : Recurses(A, Nat, 0, F)  BY <1>2, Recursion DEF StepsIn
<1>5. \E B : Addresses(B)  BY <1>3, <1>4 DEF Addresses, Recurses
<1>. QED  BY <1>5 DEF Address

LEMMA AddressesGrow ==
    ASSUME ContentOK, NEW i \in Nat, NEW k \in Nat, i < k
    PROVE  Address[i] < Address[k]
<1>. DEFINE T == {d \in Nat : Address[i] < Address[i + 1 + d]}
<1>1. Addresses(Address) /\ \A n : CellLen(n) \in Nat \ {0}  BY AddressesExist, Lengths
<1>2. 0 \in T
  <2>1. Address[i + 1] = Address[i] + CellLen(i) /\ Address[i] \in Nat
    BY <1>1 DEF Addresses
  <2>2. i + 1 + 0 = i + 1  OBVIOUS
  <2>. QED  BY <1>1, <2>1, <2>2
<1>3. ASSUME NEW d \in Nat, d \in T PROVE d + 1 \in T
  <2>1. PICK n \in Nat : n = i + 1 + d  OBVIOUS
  <2>2. Address[n + 1] = Address[n] + CellLen(n) /\ Address[n] \in Nat /\ Address[i] \in Nat
    BY <1>1 DEF Addresses
  <2>3. i + 1 + (d + 1) = n + 1  BY <2>1
  <2>4. Address[i] < Address[n]  BY <1>3, <2>1
  <2>. QED  BY <1>1, <2>2, <2>3, <2>4
<1>4. Nat \subseteq T
  <2>. HIDE DEF T
  <2>. QED  BY <1>2, <1>3, Induction
<1>5. k - i - 1 \in Nat /\ i + 1 + (k - i - 1) = k  OBVIOUS
<1>. QED  BY <1>4, <1>5

(* n-grams without a list are a byte each *)
LEMMA AddressesOfZeros ==
    ASSUME ContentOK, NEW i \in Nat, NEW k \in Nat, i <= k,
           \A n \in i .. k - 1 : n \notin Present
    PROVE  Address[k] = Address[i] + (k - i)
<1>. DEFINE T == {d \in Nat : i + d <= k => Address[i + d] = Address[i] + d}
<1>1. Addresses(Address)  BY AddressesExist
<1>2. 0 \in T  BY <1>1 DEF Addresses
<1>3. ASSUME NEW d \in Nat, d \in T PROVE d + 1 \in T
  <2>1. SUFFICES ASSUME i + (d + 1) <= k PROVE Address[i + (d + 1)] = Address[i] + (d + 1)
    OBVIOUS
  <2>2. PICK n \in Nat : n = i + d  OBVIOUS
  <2>3. n \in i .. k - 1 /\ i + (d + 1) = n + 1  BY <2>1, <2>2
  <2>4. Address[n + 1] = Address[n] + CellLen(n) /\ Address[n] \in Nat /\ Address[i] \in Nat
    BY <1>1 DEF Addresses
  <2>5. Address[n] = Address[i] + d  BY <1>3, <2>1, <2>2
  <2>6. CellLen(n) = 1  BY <2>3 DEF CellLen
  <2>. QED  BY <2>3, <2>4, <2>5, <2>6
<1>4. Nat \subseteq T
  <2>. HIDE DEF T
  <2>. QED  BY <1>2, <1>3, Induction
<1>5. k - i \in Nat /\ i + (k - i) = k  OBVIOUS
<1>. QED  BY <1>4, <1>5

-----------------------------------------------------------------------------
LEMMA InitLayout == Init => IInv
<1>. SUFFICES ASSUME Init PROVE IInv
  OBVIOUS
<1>. DEFINE Has(some, ids) == content = [g \in Ngrams |-> IF g \in some THEN ids[g] ELSE {}]
<1>0. PICK some \in UNION {kSubset(k, Ngrams) : k \in 1 .. MaxPresent} :
          \E ids \in [some -> (SUBSET Files) \ {{}}] : Has(some, ids)
  BY DEF Init
<1>1. PICK ids \in [some -> (SUBSET Files) \ {{}}] : Has(some, ids)
  BY <1>0
<1>2. some \subseteq Ngrams /\ some # {}
  <2>1. PICK k \in 1 .. MaxPresent : some \subseteq Ngrams /\ Cardinality(some) = k
    BY DEF kSubset
  <2>2. Cardinality({}) = 0  BY FS_EmptySet
  <2>. QED  BY <2>1, <2>2
<1>3. ContentOK
  <2>1. content \in [Ngrams -> SUBSET Files]  BY <1>1
  <2>2. trimmed \in 0 .. NgramBits  BY BitsAssumption DEF Init
  <2>3. Present = some  BY <1>1, <1>2 DEF Present
  <2>. QED  BY <1>2, <2>1, <2>2, <2>3 DEF ContentOK
<1>4. Progress  BY Lengths, <1>3 DEF Init, Progress, Count
<1>5. Addresses(Address)  BY <1>3, AddressesExist
<1>6. Layout
  <2>1. Count = 0 /\ Address[0] = 0  BY <1>5 DEF Init, Count, Addresses
  <2>2. {Cell(c) : c \in 0 .. Count - 1} = {}  BY <2>1
  <2>3. disk.cells = {} /\ disk.size = 0  BY DEF Init
  <2>. QED  BY <2>1, <2>2, <2>3 DEF Init, Layout
<1>. QED  BY <1>3, <1>4, <1>6, InitWritesInOrder DEF IInv

(* What is fixed with the content *)
LEMMA SameContent ==
    ASSUME content' = content, trimmed' = trimmed
    PROVE  /\ Present' = Present /\ Address' = Address /\ GroupSize' = GroupSize
           /\ num_hints' = num_hints
           /\ \A k : Cell(k)' = Cell(k) /\ ngram_to_hint(k)' = ngram_to_hint(k)
           /\ ContentOK => ContentOK'
<1>1. Present' = Present  BY DEF Present
<1>2. \A k : CellLen(k)' = CellLen(k)  BY <1>1 DEF CellLen, ListSize
<1>3. \A A : Addresses(A)' <=> Addresses(A)  BY <1>2 DEF Addresses
<1>4. Address' = Address  BY <1>3 DEF Address
<1>5. \A k : Cell(k)' = Cell(k)  BY <1>1, <1>2, <1>4 DEF Cell
<1>. QED  BY <1>1, <1>4, <1>5 DEF GroupSize, num_hints, ngram_to_hint, ContentOK

(* The list of g, and the zeros before it, are the cells up to g *)
LEMMA NewCells ==
    ASSUME ContentOK, NEW n \in Nat, NEW g \in Present, n <= g,
           \A k \in n .. g - 1 : k \notin Present
    PROVE  /\ Zeros(Address[n], g - n) = {Cell(k) : k \in n .. g - 1}
           /\ Address[n] + (g - n) = Address[g]
           /\ [off |-> Address[g], len |-> ListSize(g), ngram |-> g] = Cell(g)
           /\ Address[g] + ListSize(g) = Address[g + 1]
<1>1. g \in Nat  BY Lengths
<1>2. Address[g] = Address[n] + (g - n)  BY <1>1, AddressesOfZeros
<1>3. \A k \in n .. g - 1 : Address[k] = Address[n] + (k - n)
  BY <1>1, AddressesOfZeros
<1>4. Addresses(Address)  BY AddressesExist
<1>5. CellLen(g) = ListSize(g)  BY DEF CellLen
<1>6. Zeros(Address[n], g - n) = {Cell(k) : k \in n .. g - 1}
  <2>. DEFINE Z(k) == [off |-> Address[n] + k, len |-> 1, ngram |-> NotInIndex]
  <2>1. \A k \in n .. g - 1 : Cell(k) = Z(k - n)
    BY <1>3 DEF Cell, CellLen
  <2>2. Zeros(Address[n], g - n) = {Z(k) : k \in 0 .. (g - n) - 1}
    BY DEF Zeros
  <2>. HIDE DEF Z
  <2>3. \A k \in 0 .. (g - n) - 1 : n + k \in n .. g - 1 /\ (n + k) - n = k
    BY <1>1
  <2>4. \A k \in n .. g - 1 : k - n \in 0 .. (g - n) - 1
    BY <1>1
  <2>5. {Z(k) : k \in 0 .. (g - n) - 1} \subseteq {Cell(k) : k \in n .. g - 1}
    BY <2>1, <2>3
  <2>6. {Cell(k) : k \in n .. g - 1} \subseteq {Z(k) : k \in 0 .. (g - n) - 1}
    BY <2>1, <2>4
  <2>. QED  BY <2>2, <2>5, <2>6
<1>. QED  BY <1>1, <1>2, <1>4, <1>5, <1>6 DEF Cell, Addresses

(* Between the start of its group and g no n-gram has a list, if g's hint   *)
(* is not there yet                                                        *)
LEMMA FirstOfGroup ==
    ASSUME ContentOK, Progress, NEW g \in todo, \A h \in todo : g <= h,
           ngram_to_hint(g) # last_index
    PROVE  /\ \A k \in GroupSize * ngram_to_hint(g) .. g - 1 : k \notin Present
           /\ g = Count => masked(g) = 0
<1>. DEFINE idx == ngram_to_hint(g)
<1>1. g \in Nat /\ g \in Present /\ Present \subseteq Nat  BY Lengths DEF Progress
<1>2. \A h \in Nat : GroupSize * idx <= h /\ h <= g => ngram_to_hint(h) = idx
  BY <1>1, Grouping
<1>3. /\ idx \in Nat /\ masked(g) \in 0 .. GroupSize - 1 /\ g = GroupSize * idx + masked(g)
      /\ GroupSize * idx \in Nat
  BY <1>1, Grouping
<1>4. GroupSize \in Nat \ {0}  BY Widths
<1>5. \A k \in GroupSize * idx .. g - 1 : k \notin Present
  <2>1. SUFFICES ASSUME NEW k \in GroupSize * idx .. g - 1, k \in Present PROVE FALSE
    OBVIOUS
  <2>2. k \in Nat /\ k < g /\ k \notin todo  BY <1>1, <1>3, <2>1
  <2>3. ~first_write  BY <2>1, <2>2 DEF Progress
  <2>4. /\ last_ngram_written \in Present \ todo /\ k < last_ngram_written + 1
        /\ g >= last_ngram_written + 1 /\ last_index = ngram_to_hint(last_ngram_written)
    BY <2>1, <2>2, <2>3 DEF Progress, Count
  <2>5. last_ngram_written \in Nat  BY <1>1, <2>4
  <2>6. GroupSize * idx <= last_ngram_written /\ last_ngram_written <= g
    BY <1>1, <1>3, <2>1, <2>4, <2>5
  <2>. QED  BY <1>2, <2>4, <2>5, <2>6
<1>6. ASSUME g = Count PROVE masked(g) = 0
  <2>1. SUFFICES ASSUME masked(g) # 0 PROVE FALSE
    OBVIOUS
  <2>2. g # 0  BY <1>3, <2>1
  <2>3. ~first_write /\ g = last_ngram_written + 1  BY <1>6, <2>2 DEF Count
  <2>4. last_ngram_written \in Nat /\ last_index = ngram_to_hint(last_ngram_written)
    BY <1>1, <2>3 DEF Progress
  <2>5. GroupSize * idx <= last_ngram_written /\ last_ngram_written <= g
    BY <1>1, <1>3, <2>1, <2>3, <2>4
  <2>. QED  BY <1>2, <2>4, <2>5
<1>. QED  BY <1>5, <1>6

LEMMA MinOfTodo ==
    ASSUME ContentOK, Progress, todo # {}
    PROVE  Min(todo) \in todo /\ \A h \in todo : Min(todo) <= h
<1>1. todo \in SUBSET Nat  BY Lengths DEF Progress
<1>. QED  BY <1>1, MinIsLeast DEF Min

LEMMA CountType ==
    ASSUME ContentOK, Progress
    PROVE  Count \in Nat /\ (first_write \/ last_ngram_written \in Nat)
<1>1. Present \subseteq Nat  BY Lengths
<1>2. first_write \/ last_ngram_written \in Nat  BY <1>1 DEF Progress
<1>. QED  BY <1>2 DEF Count

LEMMA WriteListProgress ==
    ASSUME ContentOK, Progress, WriteList
    PROVE  /\ Progress' /\ Present' = Present /\ Count' = Min(todo) + 1
           /\ todo' = todo \ {Min(todo)}
<1>. DEFINE g == Min(todo)
<1>1. g \in todo /\ \A h \in todo : g <= h  BY MinOfTodo DEF WriteList
<1>2. /\ todo' = todo \ {g} /\ last_ngram_written' = g /\ first_write' = FALSE
      /\ content' = content /\ trimmed' = trimmed /\ wpc = "lists" /\ wpc' = "lists"
  BY DEF WriteList
<1>3. last_index' = ngram_to_hint(g)  BY DEF WriteList
<1>. HIDE DEF g
<1>4. Present' = Present /\ \A k : ngram_to_hint(k)' = ngram_to_hint(k)
  BY <1>2, SameContent
<1>5. Present \subseteq Nat  BY Lengths
<1>6. Count' = g + 1  BY <1>2 DEF Count
<1>7. g \in Nat /\ Count \in Nat /\ Count <= g
  BY <1>1, <1>5, CountType DEF Progress
<1>8. \A h \in Present \ todo' : h < g + 1
  BY <1>1, <1>2, <1>5, <1>7 DEF Progress
<1>9. \A h \in todo' : h >= g + 1
  BY <1>1, <1>2, <1>5, <1>7 DEF Progress
<1>10. last_index' = ngram_to_hint(last_ngram_written)'
  BY <1>2, <1>3, <1>4 DEF ngram_to_hint
<1>11. todo' \subseteq Present /\ last_ngram_written' \in Present \ todo'
  BY <1>1, <1>2 DEF Progress
<1>. QED
  BY <1>2, <1>4, <1>6, <1>8, <1>9, <1>10, <1>11 DEF Progress, g

(* The hints after a list: that of its prefix is there, whether it had to  *)
(* be set or not                                                           *)
LEMMA WriteListHints ==
    ASSUME ContentOK, Progress, Layout, WriteList, good
    PROVE  hints' = [h \in 0 .. num_hints - 1 |-> HintOf(h)']
<1>. DEFINE g == Min(todo)
            idx == ngram_to_hint(g)
            pads == PadsBefore(g)
            pos == end + pads
<1>1. g \in todo /\ \A h \in todo : g <= h  BY MinOfTodo DEF WriteList
<1>2. Present \subseteq Nat /\ g \in Present /\ g \in Nat /\ g \in Ngrams
  BY <1>1, Lengths DEF Progress
<1>3. /\ hints = [h \in 0 .. num_hints - 1 |-> HintOf(h)]
      /\ disk.size = Address[Count]
  BY DEF Layout, WriteList
<1>4. Count \in Nat /\ Count <= g /\ pads = g - Count
  <2>1. Count \in Nat /\ Count <= g  BY <1>1, CountType DEF Progress
  <2>2. pads = g - Count
    <3>1. CASE first_write  BY <1>2, <3>1 DEF Count, PadsBefore
    <3>2. CASE ~first_write
      <4>1. pads = g - (last_ngram_written + 1)  BY <3>2 DEF PadsBefore
      <4>2. Count = last_ngram_written + 1  BY <3>2 DEF Count
      <4>. QED  BY <4>1, <4>2
    <3>. QED  BY <3>1, <3>2
  <2>. QED  BY <2>1, <2>2
<1>5. \A k \in Count .. g - 1 : k \notin Present
  <2>1. SUFFICES ASSUME NEW k \in Count .. g - 1, k \in Present PROVE FALSE
    OBVIOUS
  <2>2. k \in todo  BY <1>4, <2>1 DEF Progress
  <2>. QED  BY <1>1, <1>2, <1>4, <2>1, <2>2
<1>6. pos = Address[g]  BY <1>2, <1>3, <1>4, <1>5, NewCells DEF end
<1>7. /\ idx \in 0 .. num_hints - 1 /\ idx \in Nat /\ masked(g) \in 0 .. GroupSize - 1
      /\ g = GroupSize * idx + masked(g) /\ GroupSize * idx \in Nat
  BY <1>2, Grouping
<1>8. /\ content' = content /\ trimmed' = trimmed /\ todo' = todo \ {g}
  BY DEF WriteList
<1>9. \/ idx = last_index /\ hints' = hints
      \/ idx # last_index /\ hints' = [hints EXCEPT ![idx] = HintFor(g, pos, pads)]
  BY DEF WriteList
<1>. HIDE DEF g, idx, pads, pos
<1>10. ASSUME NEW h
       PROVE  HintOf(h)' = IF h = idx THEN Address[GroupSize * idx] ELSE HintOf(h)
  <2>1. Present' \ todo' = (Present \ todo) \cup {g}
    BY <1>1, <1>2, <1>8, SameContent
  <2>2. (\E k \in Present' \ todo' : ngram_to_hint(k)' = h)
          <=> h = idx \/ \E k \in Present \ todo : ngram_to_hint(k) = h
    BY <1>8, <2>1, SameContent DEF idx
  <2>. QED  BY <1>8, <2>2, SameContent DEF HintOf
<1>11. CASE idx = last_index
  <2>1. idx = 0 \/ \E k \in Present \ todo : ngram_to_hint(k) = idx
    BY <1>11 DEF Progress
  <2>2. HintOf(idx) = Address[GroupSize * idx]  BY <2>1 DEF HintOf
  <2>3. \A h : HintOf(h)' = HintOf(h)  BY <1>10, <2>2
  <2>4. hints' = hints  BY <1>9, <1>11
  <2>. QED  BY <1>3, <2>3, <2>4
<1>12. CASE idx # last_index
  <2>1. /\ \A k \in GroupSize * idx .. g - 1 : k \notin Present
        /\ g = Count => masked(g) = 0
    BY <1>1, <1>12, FirstOfGroup DEF idx
  <2>2. Address[g] = Address[GroupSize * idx] + masked(g)
    <3>1. GroupSize * idx <= g /\ g - GroupSize * idx = masked(g)  BY <1>2, <1>7
    <3>. QED  BY <1>2, <1>7, <2>1, <3>1, AddressesOfZeros
  <2>3. Address[g] \in Nat /\ Address[GroupSize * idx] \in Nat
    BY <1>2, <1>7, AddressesExist DEF Addresses
  <2>4. HintFor(g, pos, pads) = Address[GroupSize * idx]
    <3>1. CASE pads # 0
      <4>1. HintFor(g, pos, pads) = pos - masked(g)  BY <3>1 DEF HintFor
      <4>. QED  BY <1>6, <1>7, <2>2, <2>3, <4>1
    <3>2. CASE pads = 0
      <4>1. masked(g) = 0  BY <1>2, <1>4, <2>1, <3>2
      <4>2. HintFor(g, pos, pads) = pos  BY <3>2 DEF HintFor, tellp
      <4>. QED  BY <1>6, <2>2, <2>3, <4>1, <4>2
    <3>. QED  BY <3>1, <3>2
  <2>5. hints' = [hints EXCEPT ![idx] = Address[GroupSize * idx]]  BY <1>9, <1>12, <2>4
  <2>. QED  BY <1>3, <1>10, <2>5
<1>. QED  BY <1>11, <1>12

LEMMA WriteListLayout ==
    ASSUME WritesInOrder, ContentOK, Progress, Layout, WriteList
    PROVE  Layout'
<1>. DEFINE g    == Min(todo)
            pads == PadsBefore(g)
            pos  == end + pads
            list == [off |-> pos, len |-> ListSize(g), ngram |-> g]
            grown == disk.cells \cup Zeros(end, pads) \cup {list}
            written == [disk EXCEPT !.cells = grown, !.size = pos + ListSize(g)]
<1>1. SUFFICES ASSUME good' PROVE Layout'
  BY DEF Layout
<1>2. /\ MayFail(written) /\ content' = content /\ trimmed' = trimmed
      /\ wpc = "lists" /\ wpc' = "lists"
  BY DEF WriteList
<1>3. good /\ disk' = written  BY <1>1, <1>2 DEF MayFail
<1>4. hints' = [h \in 0 .. num_hints - 1 |-> HintOf(h)']
  BY <1>3, WriteListHints
<1>5. Count' = g + 1  BY WriteListProgress
<1>6. g \in Present /\ g \in Nat /\ Count \in Nat /\ Count <= g /\ \A h \in todo : g <= h
  BY MinOfTodo, CountType, Lengths DEF Progress, WriteList
<1>7. pads = g - Count
  <2>1. CASE first_write  BY <1>6, <2>1 DEF Count, PadsBefore
  <2>2. CASE ~first_write
    <3>1. pads = g - (last_ngram_written + 1)  BY <2>2 DEF PadsBefore
    <3>2. Count = last_ngram_written + 1  BY <2>2 DEF Count
    <3>. QED  BY <3>1, <3>2
  <2>. QED  BY <2>1, <2>2
<1>8. \A k \in Count .. g - 1 : k \notin Present
  <2>1. SUFFICES ASSUME NEW k \in Count .. g - 1, k \in Present PROVE FALSE
    OBVIOUS
  <2>2. k \in todo  BY <1>6, <2>1 DEF Progress
  <2>. QED  BY <1>6, <2>1, <2>2
<1>9. /\ disk.cells = {Cell(k) : k \in 0 .. Count - 1} /\ end = Address[Count]
  BY <1>3 DEF Layout, end
<1>10. /\ Zeros(end, pads) = {Cell(k) : k \in Count .. g - 1}
       /\ list = Cell(g) /\ pos + ListSize(g) = Address[g + 1]
  <2>1. CellLen(g) = ListSize(g)  BY <1>6 DEF CellLen
  <2>2. list = [off |-> pos, len |-> CellLen(g), ngram |-> IF g \in Present THEN g ELSE NotInIndex]
    BY <1>6, <2>1
  <2>. HIDE DEF g, list
  <2>3. /\ Zeros(Address[Count], g - Count) = {Cell(k) : k \in Count .. g - 1}
        /\ Address[Count] + (g - Count) = Address[g]
        /\ Address[g] + ListSize(g) = Address[g + 1]
    <3>1. PICK n \in Nat : n = Count  BY <1>6
    <3>2. n <= g /\ \A k \in n .. g - 1 : k \notin Present  BY <1>6, <1>8, <3>1
    <3>. QED  BY <1>6, <3>1, <3>2, NewCells
  <2>4. pos = Address[g] /\ Zeros(end, pads) = Zeros(Address[Count], g - Count)  BY <1>7, <1>9, <2>3
  <2>. HIDE DEF pos
  <2>. QED  BY <2>1, <2>2, <2>3, <2>4 DEF Cell
<1>11. disk'.cells = grown /\ disk'.size = pos + ListSize(g)
  BY <1>3 DEF WritesInOrder, Fields
<1>12. grown = {Cell(k) : k \in 0 .. g}
  <2>1. grown = {Cell(k) : k \in 0 .. Count - 1} \cup {Cell(k) : k \in Count .. g - 1}
                   \cup {Cell(g)}
    BY <1>9, <1>10
  <2>2. 0 .. g = (0 .. Count - 1) \cup (Count .. g - 1) \cup {g}  BY <1>6
  <2>. HIDE DEF grown, g
  <2>. QED  BY <2>1, <2>2
<1>13. {Cell(k)' : k \in 0 .. Count' - 1} = {Cell(k) : k \in 0 .. g}
  <2>1. 0 .. Count' - 1 = 0 .. g  BY <1>5, <1>6
  <2>2. \A k : Cell(k)' = Cell(k)  BY <1>2, SameContent
  <2>. HIDE DEF g
  <2>. QED  BY <2>1, <2>2
<1>14. Address' = Address /\ num_hints' = num_hints  BY <1>2, SameContent
<1>. HIDE DEF g, grown, pos
<1>15. disk'.cells = {Cell(k)' : k \in 0 .. Count' - 1} /\ disk'.size = Address'[Count']
  BY <1>5, <1>10, <1>11, <1>12, <1>13, <1>14
<1>. QED  BY <1>2, <1>4, <1>14, <1>15 DEF Layout

(* The other steps move neither a cell nor, after the first, a hint *)
LEMMA OtherStepsLayout ==
    ASSUME IInv, content' = content, trimmed' = trimmed, todo' = todo,
           last_ngram_written' = last_ngram_written, first_write' = first_write,
           last_index' = last_index,
           good' => good /\ disk'.cells = disk.cells /\ disk'.size = disk.size
    PROVE  /\ ContentOK' /\ Present' = Present /\ num_hints' = num_hints
           /\ \A h : HintOf(h)' = HintOf(h)
           /\ (wpc' = "spacer" => wpc = "spacer") /\ (wpc' \in {"header", "hints", "closed"} => todo = {})
                => Progress'
           /\ good' => /\ disk'.cells = {Cell(k)' : k \in 0 .. Count' - 1}
                       /\ disk'.size = Address'[Count']
<1>1. /\ Present' = Present /\ Address' = Address /\ GroupSize' = GroupSize
      /\ num_hints' = num_hints /\ ContentOK'
      /\ \A k : Cell(k)' = Cell(k) /\ ngram_to_hint(k)' = ngram_to_hint(k)
  BY SameContent DEF IInv
<1>2. Count' = Count  BY DEF Count
<1>3. \A h : HintOf(h)' = HintOf(h)  BY <1>1 DEF HintOf
<1>4. ASSUME good' PROVE /\ disk'.cells = {Cell(k)' : k \in 0 .. Count' - 1}
                         /\ disk'.size = Address'[Count']
  <2>1. disk'.cells = {Cell(k) : k \in 0 .. Count - 1} /\ disk'.size = Address[Count]
    BY <1>4 DEF IInv, Layout
  <2>. QED  BY <1>1, <1>2, <2>1
<1>5. ASSUME wpc' = "spacer" => wpc = "spacer", wpc' \in {"header", "hints", "closed"} => todo = {}
      PROVE Progress'
  <2>1. ngram_to_hint(last_ngram_written)' = ngram_to_hint(last_ngram_written)
    BY DEF ngram_to_hint
  <2>. QED  BY <1>1, <1>2, <1>5, <2>1 DEF IInv, Progress
<1>. QED  BY <1>1, <1>3, <1>4, <1>5

LEMMA NextLayout == IInv /\ [Next]_vars => IInv'
<1>. SUFFICES ASSUME IInv, [Next]_vars PROVE IInv'
  OBVIOUS
<1>. WritesInOrder /\ WritesInOrder' /\ ContentOK /\ Progress /\ Layout
  BY NextWritesInOrder DEF IInv
<1>. disk = [f \in Fields |-> disk[f]]  BY DEF WritesInOrder
<1>1. CASE WriteSpacer
  <2>. DEFINE written == [disk EXCEPT !.hints = hints]
  <2>1. /\ MayFail(written) /\ wpc = "spacer" /\ wpc' = "lists"
        /\ content' = content /\ trimmed' = trimmed /\ todo' = todo
        /\ last_ngram_written' = last_ngram_written /\ first_write' = first_write
        /\ last_index' = last_index
    BY <1>1 DEF WriteSpacer
  <2>2. good' => good /\ disk' = written  BY <2>1 DEF MayFail
  <2>3. written.cells = disk.cells /\ written.size = disk.size  BY DEF Fields
  <2>. HIDE DEF written
  <2>4. good' => good /\ disk'.cells = disk.cells /\ disk'.size = disk.size  BY <2>2, <2>3
  <2>5. /\ ContentOK' /\ Progress' /\ num_hints' = num_hints
        /\ \A h : HintOf(h)' = HintOf(h)
        /\ good' => /\ disk'.cells = {Cell(k)' : k \in 0 .. Count' - 1}
                    /\ disk'.size = Address'[Count']
    BY <2>1, <2>4, OtherStepsLayout
  <2>6. ASSUME good' PROVE hints' = [h \in 0 .. num_hints' - 1 |-> HintOf(h)']
    <3>1. Addresses(Address) /\ GroupSize \in Nat /\ num_hints \in Nat \ {0}
      BY AddressesExist, Widths
    <3>2. first_write /\ todo = Present  BY <2>1 DEF Progress
    <3>3. end = 0  BY <2>2, <2>6, <3>1, <3>2 DEF end, Layout, Count, Addresses
    <3>4. hints' = [hints EXCEPT ![0] = 0]  BY <1>1, <2>6, <3>3 DEF WriteSpacer
    <3>5. hints = [h \in 0 .. num_hints - 1 |-> NotInIndex]  BY <2>1, <2>2, <2>6 DEF Layout
    <3>6. GroupSize * 0 = 0  BY <3>1
    <3>7. HintOf(0) = 0  BY <3>1, <3>6 DEF HintOf, Addresses
    <3>8. \A h : h # 0 => HintOf(h) = NotInIndex  BY <3>2 DEF HintOf
    <3>. QED  BY <2>5, <3>1, <3>4, <3>5, <3>7, <3>8
  <2>. QED  BY <2>1, <2>5, <2>6 DEF IInv, Layout
<1>2. CASE WriteList
  <2>1. Progress' /\ Layout'  BY <1>2, WriteListProgress, WriteListLayout
  <2>2. ContentOK'  BY <1>2, SameContent DEF WriteList
  <2>. QED  BY <2>1, <2>2 DEF IInv
<1>3. CASE WriteMap \/ RewriteHeader
  <2>. DEFINE named  == [disk EXCEPT !.named = TRUE]
              offset == [disk EXCEPT !.offset = fileid_map_offset]
  <2>1. /\ MayFail(named) \/ MayFail(offset)
        /\ wpc \in {"lists", "header"} /\ wpc' \in {"header", "hints"} /\ todo = {}
        /\ content' = content /\ trimmed' = trimmed /\ todo' = todo
        /\ last_ngram_written' = last_ngram_written /\ first_write' = first_write
        /\ last_index' = last_index /\ hints' = hints
    BY <1>3 DEF WriteMap, RewriteHeader, Progress
  <2>2. good' => good /\ disk' \in {named, offset}  BY <2>1 DEF MayFail
  <2>3. \A d \in {named, offset} : d.cells = disk.cells /\ d.size = disk.size  BY DEF Fields
  <2>. HIDE DEF named, offset
  <2>4. good' => good /\ disk'.cells = disk.cells /\ disk'.size = disk.size  BY <2>2, <2>3
  <2>5. /\ ContentOK' /\ Progress' /\ num_hints' = num_hints
        /\ \A h : HintOf(h)' = HintOf(h)
        /\ good' => /\ disk'.cells = {Cell(k)' : k \in 0 .. Count' - 1}
                    /\ disk'.size = Address'[Count']
    BY <2>1, <2>4, OtherStepsLayout
  <2>. QED  BY <2>1, <2>2, <2>5 DEF IInv, Layout
<1>4. CASE RewriteHints
  <2>. DEFINE written == [disk EXCEPT !.hints = hints]
  <2>1. /\ disk' = IF good THEN written ELSE disk
        /\ wpc = "hints" /\ wpc' = "closed" /\ todo = {} /\ good' = good
        /\ content' = content /\ trimmed' = trimmed /\ todo' = todo
        /\ last_ngram_written' = last_ngram_written /\ first_write' = first_write
        /\ last_index' = last_index /\ hints' = hints
    BY <1>4 DEF RewriteHints, Progress
  <2>2. written.cells = disk.cells /\ written.size = disk.size /\ written.hints = hints
    BY DEF Fields
  <2>. HIDE DEF written
  <2>3. good' => good /\ disk'.cells = disk.cells /\ disk'.size = disk.size  BY <2>1, <2>2
  <2>4. /\ ContentOK' /\ Progress' /\ num_hints' = num_hints
        /\ \A h : HintOf(h)' = HintOf(h)
        /\ good' => /\ disk'.cells = {Cell(k)' : k \in 0 .. Count' - 1}
                    /\ disk'.size = Address'[Count']
    BY <2>1, <2>3, OtherStepsLayout
  <2>. QED  BY <2>1, <2>2, <2>4 DEF IInv, Layout
<1>5. CASE Killed \/ UNCHANGED vars
  <2>1. /\ content' = content /\ trimmed' = trimmed /\ todo' = todo /\ good' = good
        /\ last_ngram_written' = last_ngram_written /\ first_write' = first_write
        /\ last_index' = last_index /\ hints' = hints /\ disk' = disk
        /\ wpc' = "killed" \/ wpc' = wpc
    BY <1>5 DEF Killed, vars, writer
  <2>2. /\ ContentOK' /\ Progress' /\ num_hints' = num_hints
        /\ \A h : HintOf(h)' = HintOf(h)
        /\ good' => /\ disk'.cells = {Cell(k)' : k \in 0 .. Count' - 1}
                    /\ disk'.size = Address'[Count']
    BY <2>1, OtherStepsLayout DEF Progress
  <2>. QED  BY <2>1, <2>2 DEF IInv, Layout
<1>. QED  BY <1>1, <1>2, <1>3, <1>4, <1>5 DEF Next

-----------------------------------------------------------------------------
(***************************************************************************)
(* When bgparse goes on: once the header is final, and then until the      *)
(* index is closed the hints in the file are those of an empty index.      *)
(***************************************************************************)
NoHints == [h \in 0 .. num_hints - 1 |-> NotInIndex]

Stages ==
    /\ good /\ wpc \in {"lists", "header", "hints"} => disk.hints = NoHints
    /\ good /\ wpc = "header" => fileid_map_offset # 0
    /\ good /\ wpc \in {"hints", "closed"} => Accepts
    /\ Accepts => /\ good /\ wpc \in {"hints", "closed", "killed"}
                  /\ wpc # "closed" => disk.hints = NoHints

LEMMA InitStages == Init => Stages
  BY DEF Init, Stages, Accepts

LEMMA NextStages == IInv /\ Stages /\ [Next]_vars => Stages'
<1>. SUFFICES ASSUME IInv, Stages, [Next]_vars PROVE Stages'
  OBVIOUS
<1>. ContentOK /\ Progress /\ Layout /\ disk = [f \in Fields |-> disk[f]]
  BY DEF IInv, WritesInOrder
<1>0. ASSUME trimmed' = trimmed PROVE NoHints' = NoHints
  BY <1>0 DEF NoHints, num_hints
<1>1. CASE WriteSpacer
  <2>. DEFINE written == [disk EXCEPT !.hints = hints]
  <2>1. MayFail(written) /\ wpc = "spacer" /\ wpc' = "lists" /\ trimmed' = trimmed
    BY <1>1 DEF WriteSpacer
  <2>2. written.hints = hints /\ written.offset = disk.offset  BY DEF Fields
  <2>. HIDE DEF written
  <2>3. ~Accepts  BY <2>1 DEF Stages
  <2>4. disk' \in {disk, written} /\ (good' => good /\ disk' = written)  BY <2>1 DEF MayFail
  <2>5. ~Accepts'  BY <2>2, <2>3, <2>4 DEF Accepts
  <2>6. good => hints = NoHints  BY <2>1 DEF Layout, NoHints
  <2>. QED  BY <1>0, <2>1, <2>2, <2>4, <2>5, <2>6 DEF Stages
<1>2. CASE WriteList
  <2>. DEFINE g == Min(todo)
              pos == end + PadsBefore(g)
              cells == disk.cells \cup Zeros(end, PadsBefore(g))
                         \cup {[off |-> pos, len |-> ListSize(g), ngram |-> g]}
              written == [disk EXCEPT !.cells = cells, !.size = pos + ListSize(g)]
  <2>1. MayFail(written) /\ wpc = "lists" /\ wpc' = "lists" /\ trimmed' = trimmed
    BY <1>2 DEF WriteList
  <2>2. written.hints = disk.hints /\ written.offset = disk.offset  BY DEF Fields
  <2>. HIDE DEF written
  <2>3. ~Accepts  BY <2>1 DEF Stages
  <2>4. disk' \in {disk, written} /\ (good' => good /\ disk' = written)  BY <2>1 DEF MayFail
  <2>5. ~Accepts'  BY <2>2, <2>3, <2>4 DEF Accepts
  <2>. QED  BY <1>0, <2>1, <2>2, <2>4, <2>5 DEF Stages
<1>3. CASE WriteMap
  <2>. DEFINE written == [disk EXCEPT !.named = TRUE]
  <2>1. /\ MayFail(written) /\ wpc = "lists" /\ wpc' = "header" /\ trimmed' = trimmed
        /\ todo = {} /\ fileid_map_offset' = tellp(end)
    BY <1>3 DEF WriteMap
  <2>2. written.hints = disk.hints /\ written.offset = disk.offset  BY DEF Fields
  <2>. HIDE DEF written
  <2>3. ~Accepts  BY <2>1 DEF Stages
  <2>4. disk' \in {disk, written} /\ (good' => good /\ disk' = written)  BY <2>1 DEF MayFail
  <2>5. ~Accepts'  BY <2>2, <2>3, <2>4 DEF Accepts
  <2>6. ASSUME good PROVE fileid_map_offset' # 0
    <3>1. ~first_write /\ last_ngram_written \in Present
      BY <2>1 DEF ContentOK, Progress
    <3>2. Count \in Nat /\ 0 < Count  BY <3>1, Lengths DEF Count
    <3>3. Address[0] = 0 /\ Address[0] < Address[Count]
      BY <3>2, AddressesExist, AddressesGrow DEF Addresses
    <3>4. disk.size = Address[Count]  BY <2>6 DEF Layout
    <3>5. disk.size # 0  BY <3>2, <3>3, <3>4, AddressesExist DEF Addresses
    <3>. QED  BY <2>1, <2>6, <3>5 DEF tellp, end
  <2>. QED  BY <1>0, <2>1, <2>2, <2>4, <2>5, <2>6 DEF Stages
<1>4. CASE RewriteHeader
  <2>. DEFINE written == [disk EXCEPT !.offset = fileid_map_offset]
  <2>1. MayFail(written) /\ wpc = "header" /\ wpc' = "hints" /\ trimmed' = trimmed
    BY <1>4 DEF RewriteHeader
  <2>2. written.hints = disk.hints /\ written.offset = fileid_map_offset  BY DEF Fields
  <2>. HIDE DEF written
  <2>3. ~Accepts  BY <2>1 DEF Stages
  <2>4. CASE good /\ disk' = written /\ good' = good
    BY <1>0, <2>1, <2>2, <2>4 DEF Stages, Accepts
  <2>5. CASE good' = FALSE /\ disk' = disk
    BY <2>1, <2>3, <2>5 DEF Stages, Accepts
  <2>. QED  BY <2>1, <2>4, <2>5 DEF MayFail
<1>5. CASE RewriteHints
  <2>. DEFINE written == [disk EXCEPT !.hints = hints]
  <2>1. /\ disk' \in {disk, written} /\ wpc = "hints" /\ wpc' = "closed"
        /\ trimmed' = trimmed /\ good' = good
    BY <1>5 DEF RewriteHints
  <2>2. written.offset = disk.offset  BY DEF Fields
  <2>. HIDE DEF written
  <2>. QED  BY <2>1, <2>2 DEF Stages, Accepts
<1>6. CASE Killed \/ UNCHANGED vars
  <2>1. /\ wpc' = wpc \/ (wpc \notin {"closed", "killed"} /\ wpc' = "killed")
        /\ trimmed' = trimmed /\ good' = good /\ disk' = disk
        /\ fileid_map_offset' = fileid_map_offset
    BY <1>6 DEF Killed, vars, writer
  <2>. QED  BY <1>0, <2>1 DEF Stages, Accepts
<1>. QED  BY <1>1, <1>2, <1>3, <1>4, <1>5, <1>6 DEF Next

-----------------------------------------------------------------------------
(***************************************************************************)
(* What bgparse reads.                                                     *)
(***************************************************************************)
LEMMA CellsAt ==
    ASSUME IInv, good, NEW k \in Nat
    PROVE  {c \in disk.cells : c.off = Address[k]} = IF k < Count THEN {Cell(k)} ELSE {}
<1>. ContentOK /\ Progress /\ Layout  BY DEF IInv
<1>1. disk.cells = {Cell(i) : i \in 0 .. Count - 1} /\ Count \in Nat
  BY CountType, Lengths DEF Layout
<1>2. \A i : Cell(i).off = Address[i]  BY DEF Cell
<1>3. ASSUME NEW i \in Nat, Address[i] = Address[k] PROVE i = k
  <2>1. Address[i] \in Nat /\ Address[k] \in Nat  BY AddressesExist DEF Addresses
  <2>2. ~(i < k) /\ ~(k < i)  BY <1>3, <2>1, AddressesGrow
  <2>. QED  BY <2>2
<1>. QED  BY <1>1, <1>2, <1>3

(* From the place of one n-gram, skipping m cells, one is at the one m later *)
LEMMA SkipFinds ==
    ASSUME IInv, good, NEW g \in Nat, NEW m \in Nat, g + m < Count
    PROVE  Skip(Address[g], m) = {Cell(g + m)}
<1>. ContentOK /\ Progress /\ Layout  BY DEF IInv
<1>. DEFINE start == Address[g]
            At(off) == {c \in disk.cells : c.off = off}
            Step(v) == IF v = Garbage \/ At(v) = {} THEN Garbage
                       ELSE v + (CHOOSE c \in At(v) : TRUE).len
            Body(f) == [k \in Nat |-> IF k = 0 THEN start ELSE Step(f[k - 1])]
            pos == CHOOSE f : f = Body(f)
            S == Nat \cup {Garbage}
            F == [k \in Nat |-> [v \in S |-> Step(v)]]
<1>1. Skip(start, m) = IF pos[m] = Garbage THEN {} ELSE At(pos[m])
  BY DEF Skip
<1>2. start \in Nat /\ \A k \in Nat : Address[k] \in Nat /\ Address[k + 1] = Address[k] + CellLen(k)
  BY AddressesExist DEF Addresses
<1>3. \A v \in S : Step(v) \in S
  <2>1. SUFFICES ASSUME NEW v \in S, v # Garbage, At(v) # {} PROVE Step(v) \in S
    OBVIOUS
  <2>2. PICK c : c = CHOOSE d \in At(v) : TRUE  OBVIOUS
  <2>3. c \in disk.cells  BY <2>1, <2>2
  <2>4. PICK k : c = Cell(k)  BY <2>3 DEF Layout
  <2>5. c.len \in Nat  BY <2>4, Lengths DEF Cell
  <2>6. Step(v) = v + c.len  BY <2>1, <2>2
  <2>. HIDE DEF Step
  <2>. QED  BY <2>1, <2>5, <2>6
<1>4. \A k \in Nat : k < Count => Step(Address[k]) = Address[k + 1]
  <2>1. SUFFICES ASSUME NEW k \in Nat, k < Count PROVE Step(Address[k]) = Address[k + 1]
    OBVIOUS
  <2>2. At(Address[k]) = {Cell(k)}  BY <2>1, CellsAt
  <2>3. (CHOOSE c \in At(Address[k]) : TRUE) = Cell(k)  BY <2>2
  <2>4. Address[k] # Garbage  BY <1>2, MarksAssumption
  <2>. QED  BY <1>2, <2>2, <2>3, <2>4 DEF Cell
<1>5. At(Address[g + m]) = {Cell(g + m)}  BY CellsAt
<1>. HIDE DEF At, Step, start
<1>6. StepsIn(F, S) /\ start \in S /\ \A k \in Nat, v \in S : F[k][v] = Step(v)
  BY <1>2, <1>3 DEF StepsIn
<1>. HIDE DEF F, S
<1>7. PICK f : Recurses(f, S, start, F)  BY <1>6, Recursion
<1>8. f = Body(f)
  <2>1. f \in [Nat -> S] /\ f[0] = start /\ \A k \in Nat : f[k + 1] = Step(f[k])
    BY <1>6, <1>7 DEF Recurses
  <2>2. \A k \in Nat : k # 0 => k - 1 \in Nat /\ f[k] = Step(f[k - 1])
    <3>1. \A k \in Nat : k # 0 => k - 1 \in Nat /\ k = (k - 1) + 1  OBVIOUS
    <3>. QED  BY <2>1, <3>1
  <2>. QED  BY <2>1, <2>2
<1>9. pos = Body(pos)  BY <1>8
<1>. HIDE DEF pos
<1>10. pos[0] = start /\ \A k \in Nat : pos[k + 1] = Step(pos[k])
  <2>1. \A k \in Nat : k + 1 \in Nat /\ k + 1 # 0 /\ (k + 1) - 1 = k  OBVIOUS
  <2>. QED  BY <1>9, <2>1
<1>. DEFINE T == {k \in Nat : k <= m => pos[k] = Address[g + k]}
<1>11. 0 \in T  BY <1>10 DEF start
<1>12. ASSUME NEW k \in Nat, k \in T PROVE k + 1 \in T
  <2>1. SUFFICES ASSUME k + 1 <= m PROVE pos[k + 1] = Address[g + (k + 1)]
    OBVIOUS
  <2>2. Count \in Nat  BY CountType, Lengths
  <2>3. g + k \in Nat /\ g + k < Count /\ (g + k) + 1 = g + (k + 1)  BY <2>1, <2>2
  <2>4. pos[k] = Address[g + k]  BY <1>12, <2>1
  <2>. QED  BY <1>4, <1>10, <2>3, <2>4
<1>13. Nat \subseteq T
  <2>. HIDE DEF T
  <2>. QED  BY <1>11, <1>12, Induction
<1>14. pos[m] = Address[g + m]  BY <1>13
<1>15. Address[g + m] # Garbage  BY <1>2, MarksAssumption
<1>. QED  BY <1>1, <1>5, <1>14, <1>15 DEF start

(* The list of an n-gram is found, unless it comes after the last one in the same group *)
LEMMA LookupFinds ==
    ASSUME IInv, wpc = "closed", good, NEW g \in Ngrams, ~AfterTheLast(g)
    PROVE  Lookup(g) = content[g]
<1>. ContentOK /\ Progress /\ Layout  BY DEF IInv
<1>. DEFINE q == ngram_to_hint(g)
            r == masked(g)
            last == last_ngram_written
<1>1. todo = {} /\ ~first_write  BY DEF Progress, ContentOK
<1>2. last \in Present /\ Count = last + 1 /\ \A k \in Present : k < Count
  BY <1>1 DEF Progress, Count
<1>3. g \in Nat /\ last \in Nat /\ Present \subseteq Nat /\ Present \subseteq Ngrams
  BY <1>2, Lengths
<1>4. /\ q \in 0 .. num_hints - 1 /\ q \in Nat /\ r \in Nat /\ g = GroupSize * q + r
      /\ GroupSize * q \in Nat
  BY <1>3, Grouping, Widths
<1>5. disk.hints[q] = HintOf(q)  BY <1>4 DEF Layout
<1>6. g \notin Present => content[g] = {}  BY DEF Present
<1>7. CASE HintOf(q) = NotInIndex
  <2>1. Lookup(g) = {}  BY <1>5, <1>7 DEF Lookup
  <2>2. g \notin Present
    <3>1. Address[GroupSize * q] \in Nat  BY <1>4, AddressesExist DEF Addresses
    <3>2. \A k \in Present : ngram_to_hint(k) # q
      BY <1>1, <1>7, <3>1, MarksAssumption DEF HintOf
    <3>. QED  BY <3>2
  <2>. QED  BY <1>6, <2>1, <2>2
<1>8. CASE HintOf(q) # NotInIndex
  <2>1. HintOf(q) = Address[GroupSize * q]  BY <1>8 DEF HintOf
  <2>2. q = 0 \/ \E k \in Present : ngram_to_hint(k) = q  BY <1>8 DEF HintOf
  <2>3. g < Count
    <3>1. SUFFICES ASSUME g > last PROVE FALSE  BY <1>2, <1>3
    <3>2. q # ngram_to_hint(last)  BY <3>1 DEF AfterTheLast
    <3>3. /\ \A k \in Nat : k <= last => ngram_to_hint(k) <= ngram_to_hint(last)
          /\ ngram_to_hint(last) \in Nat
      BY <1>3, Grouping
    <3>4. ngram_to_hint(last) <= q  BY <1>3, <3>1, Grouping
    <3>5. ASSUME NEW k \in Present, ngram_to_hint(k) = q PROVE FALSE
      <4>1. k \in Nat /\ k <= last  BY <1>2, <1>3
      <4>. QED  BY <1>4, <3>2, <3>3, <3>4, <3>5, <4>1
    <3>. QED  BY <1>4, <2>2, <3>2, <3>3, <3>4, <3>5
  <2>4. Skip(HintOf(q), r) = {Cell(g)}
    <3>1. PICK k \in Nat : k = GroupSize * q  BY <1>4
    <3>2. g = k + r  BY <1>4, <3>1
    <3>. HIDE DEF q, r
    <3>. QED  BY <1>4, <2>1, <2>3, <3>1, <3>2, SkipFinds
  <2>5. Lookup(g) = LET c == CHOOSE c \in {Cell(g)} : TRUE
                    IN  IF c.ngram = NotInIndex THEN {} ELSE content[c.ngram]
    BY <1>5, <1>8, <2>4 DEF Lookup
  <2>6. (CHOOSE c \in {Cell(g)} : TRUE) = Cell(g)  OBVIOUS
  <2>7. Lookup(g) = IF Cell(g).ngram = NotInIndex THEN {} ELSE content[Cell(g).ngram]
    BY <2>5, <2>6
  <2>8. Cell(g).ngram = IF g \in Present THEN g ELSE NotInIndex  BY DEF Cell
  <2>. QED  BY <1>3, <1>6, <2>7, <2>8, MarksAssumption
<1>. QED  BY <1>7, <1>8

(* Until the index is closed no list is found *)
LEMMA LookupFindsNone ==
    ASSUME IInv, Stages, Accepts, wpc # "closed", NEW g \in Ngrams
    PROVE  Lookup(g) = {}
<1>1. ContentOK /\ disk.hints = NoHints  BY DEF IInv, Stages
<1>2. ngram_to_hint(g) \in 0 .. num_hints - 1  BY <1>1, Lengths, Grouping
<1>3. disk.hints[ngram_to_hint(g)] = NotInIndex  BY <1>1, <1>2 DEF NoHints
<1>. QED  BY <1>3 DEF Lookup

(* A search narrows to the files that are in the lists of all the n-grams *)
LEMMA SearchNarrows ==
    ASSUME ContentOK, NEW pattern \in SUBSET Ngrams, IsFiniteSet(pattern),
           NEW lists \in [Ngrams -> SUBSET Files],
           \A g \in pattern : Lookup(g) = lists[g]
    PROVE  Search(pattern) = {f \in Files : \A g \in pattern : f \in lists[g]}
<1>. DEFINE grams == Ordered(pattern)
            n == Cardinality(pattern)
            Step(k, v) == IF v \in {{}, Garbage} THEN v
                          ELSE IF Lookup(grams[k]) = Garbage THEN Garbage
                               ELSE v \cap Lookup(grams[k])
            Body(f) == [i \in Nat |-> IF i = 0 THEN Files ELSE Step(i, f[i - 1])]
            found == CHOOSE f : f = Body(f)
            S == (SUBSET Files) \cup {Garbage}
            F == [i \in Nat |-> [v \in S |-> Step(i + 1, v)]]
<1>1. Search(pattern) = found[Len(grams)]  BY DEF Search
<1>2. pattern \subseteq Nat  BY Lengths
<1>3. /\ grams \in [1 .. n -> pattern] /\ n \in Nat
      /\ \A x \in pattern : \E k \in 1 .. n : grams[k] = x
  BY <1>2, OrderedIs, FS_CardinalityType
<1>4. Len(grams) = n
  <2>1. grams \in Seq(pattern) /\ DOMAIN grams = 1 .. n  BY <1>3
  <2>. HIDE DEF grams, n
  <2>. QED  BY <1>3, <2>1
<1>5. \A i \in Nat, v \in S : Step(i + 1, v) \in S  OBVIOUS
<1>6. \A k \in 1 .. n : Lookup(grams[k]) = lists[grams[k]]
                        /\ lists[grams[k]] \in SUBSET Files
  <2>1. SUFFICES ASSUME NEW k \in 1 .. n
                 PROVE  Lookup(grams[k]) = lists[grams[k]] /\ lists[grams[k]] \in SUBSET Files
    OBVIOUS
  <2>2. grams[k] \in pattern /\ grams[k] \in Ngrams  BY <1>3
  <2>. QED  BY <2>2
<1>7. \A k \in 1 .. n, v \in SUBSET Files : Step(k, v) = v \cap lists[grams[k]]
  BY <1>6, MarksAssumption
<1>. HIDE DEF grams, n, Step
<1>8. StepsIn(F, S) /\ Files \in S /\ \A i \in Nat, v \in S : F[i][v] = Step(i + 1, v)
  BY <1>5 DEF StepsIn
<1>. HIDE DEF F, S
<1>9. PICK f : Recurses(f, S, Files, F)  BY <1>8, Recursion
<1>10. f = Body(f)
  <2>1. f \in [Nat -> S] /\ f[0] = Files /\ \A k \in Nat : f[k + 1] = Step(k + 1, f[k])
    BY <1>8, <1>9 DEF Recurses
  <2>2. \A k \in Nat : k # 0 => k - 1 \in Nat /\ f[k] = Step(k, f[k - 1])
    <3>1. \A k \in Nat : k # 0 => k - 1 \in Nat /\ k = (k - 1) + 1  OBVIOUS
    <3>. QED  BY <2>1, <3>1
  <2>. QED  BY <2>1, <2>2
<1>11. found = Body(found)  BY <1>10
<1>. HIDE DEF found
<1>12. found[0] = Files /\ \A k \in Nat : found[k + 1] = Step(k + 1, found[k])
  <2>1. \A k \in Nat : k + 1 \in Nat /\ k + 1 # 0 /\ (k + 1) - 1 = k  OBVIOUS
  <2>. QED  BY <1>11, <2>1
<1>. DEFINE Match(i) == {x \in Files : \A k \in 1 .. i : x \in lists[grams[k]]}
            T == {i \in Nat : i <= n => found[i] = Match(i)}
<1>13. 0 \in T  BY <1>12
<1>14. ASSUME NEW i \in Nat, i \in T PROVE i + 1 \in T
  <2>1. SUFFICES ASSUME i + 1 <= n PROVE found[i + 1] = Match(i + 1)
    OBVIOUS
  <2>2. found[i] = Match(i) /\ i + 1 \in 1 .. n  BY <1>3, <1>14, <2>1
  <2>3. found[i + 1] = Match(i) \cap lists[grams[i + 1]]  BY <1>7, <1>12, <2>2
  <2>4. 1 .. i + 1 = (1 .. i) \cup {i + 1}  OBVIOUS
  <2>. QED  BY <2>3, <2>4
<1>15. Nat \subseteq T
  <2>. HIDE DEF T
  <2>. QED  BY <1>13, <1>14, Induction
<1>16. found[n] = Match(n)  BY <1>3, <1>15
<1>. QED  BY <1>1, <1>3, <1>4, <1>16

(* What bgparse accepts gives the matching files once the hints are in the  *)
(* file, and none before                                                   *)
LEMMA SearchFinds ==
    ASSUME IInv, Stages, Accepts,
           NEW pattern \in SUBSET Ngrams, IsFiniteSet(pattern), pattern # {},
           \A g \in pattern : ~AfterTheLast(g)
    PROVE  Search(pattern) = IF wpc = "closed" THEN Matching(pattern) ELSE {}
<1>1. ContentOK  BY DEF IInv
<1>2. CASE wpc = "closed"
  <2>1. good  BY DEF Stages
  <2>2. \A g \in pattern : Lookup(g) = content[g]  BY <1>2, <2>1, LookupFinds
  <2>3. content \in [Ngrams -> SUBSET Files]  BY <1>1 DEF ContentOK
  <2>4. Search(pattern) = {f \in Files : \A g \in pattern : f \in content[g]}
    BY <1>1, <2>2, <2>3, SearchNarrows
  <2>. QED  BY <1>2, <2>4 DEF Matching
<1>3. CASE wpc # "closed"
  <2>. DEFINE none == [g \in Ngrams |-> {}]
  <2>1. \A g \in pattern : Lookup(g) = none[g]  BY <1>3, LookupFindsNone
  <2>2. none \in [Ngrams -> SUBSET Files] /\ \A g \in pattern : none[g] = {}  OBVIOUS
  <2>. HIDE DEF none
  <2>3. Search(pattern) = {f \in Files : \A g \in pattern : f \in none[g]}
    BY <1>1, <2>1, <2>2, SearchNarrows
  <2>. QED  BY <1>3, <2>2, <2>3
<1>. QED  BY <1>2, <1>3

(* A finished index is accepted.  One that bgparse accepts gives for every *)
(* search string exactly the files that have all its n-grams if the writer *)
(* has closed it, and no file if it was read, or bgindex was killed, with  *)
(* the hints still to be written: whatever the sizes, the lists and the    *)
(* hint types are.  Search strings with an n-gram behind the last list in  *)
(* the same group are not covered: MissingNgramsAreZero is false of them.  *)
THEOREM SearchFindsAll == Spec => []SearchesAreExact
<1>1. IInv /\ Stages => SearchesAreExact
  <2>1. SUFFICES ASSUME IInv, Stages PROVE SearchesAreExact
    OBVIOUS
  <2>2. wpc = "closed" /\ good => Accepts  BY <2>1 DEF Stages
  <2>3. SUFFICES ASSUME Accepts, NEW g \in Ngrams, NEW h \in Ngrams,
                        \A k \in {g, h} : ~AfterTheLast(k)
                 PROVE  Search({g, h}) = IF wpc = "closed" THEN Matching({g, h}) ELSE {}
    BY <2>2 DEF SearchesAreExact, Patterns
  <2>4. {g, h} \in SUBSET Ngrams /\ IsFiniteSet({g, h}) /\ {g, h} # {}
    <3>1. {g, h} = {g} \cup {h}  OBVIOUS
    <3>2. IsFiniteSet({g}) /\ IsFiniteSet({h})  BY FS_Singleton
    <3>3. IsFiniteSet({g, h})  BY <3>1, <3>2, FS_Union
    <3>. QED  BY <3>3
  <2>. QED  BY <2>1, <2>3, <2>4, SearchFinds
<1>. QED  BY <1>1, InitLayout, NextLayout, InitStages, NextStages, PTL DEF Spec
=============================================================================

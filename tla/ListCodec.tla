------------------------------ MODULE ListCodec ------------------------------
(***************************************************************************)
(* How the file ids of an n-gram are stored: VarByteUInt, PFORUInt, and    *)
(* bgCompress, which uses both; and how bgparse reads them back.  Bytes    *)
(* are numbers below 256, places in a sequence of bytes count from 1.      *)
(***************************************************************************)
EXTENDS Integers, Sequences, SequencesExt, FiniteSetsExt

(* The options -b, -e and -m, as far as the format can hold them: the       *)
(* number of exceptions is kept in four bits, the offset of a value within  *)
(* its block, up to 15 bits times the block, in eight.                      *)
PFORSettings ==
    {s \in [blocksize : 1 .. 255, maxexceptions : 0 .. 15, threshold : Nat] :
        s.blocksize % 8 = 0 /\ (15 * (s.blocksize - 1)) \div 8 < 256}

Places == Nat \ {0}

(* the files of an n-gram: the loser tree hands over each once, in order *)
Ascendings ==
    {ids \in Seq(Nat) : ids # <<>> /\ \A i, k \in DOMAIN ids : i < k => ids[i] < ids[k]}

-----------------------------------------------------------------------------
(* VarByteUInt: seven bits a byte, the low ones first, and a mark on every  *)
(* byte that another follows                                                *)

encoding[v \in Nat] ==
    IF v < 128 THEN <<v>> ELSE <<128 + (v % 128)>> \o encoding[v \div 128]

VarByte(v) == encoding[v]

(* what is read beyond the end: the vectors are padded with zeros *)
ByteAt(bytes, k) == IF k <= Len(bytes) THEN bytes[k] ELSE 0

(* the value that starts at a position, and the position after it *)
VarByteAt(bytes, at) ==
    LET val[k \in Places] == (ByteAt(bytes, k) % 128)
                               + IF ByteAt(bytes, k) < 128 THEN 0 ELSE 128 * val[k + 1]
        end[k \in Places] == IF ByteAt(bytes, k) < 128 THEN k + 1 ELSE end[k + 1]
    IN  [val |-> val[at], next |-> end[at]]

-----------------------------------------------------------------------------
(* PFORUInt::encode: a byte with the number of exceptions and the width b,  *)
(* the values b bits each, the exceptions with their places                 *)

NoBlock == <<>>      \* the null pointer; a block is never empty

width[v \in Nat] == IF v < 2 THEN 1 ELSE 1 + width[v \div 2]
minbits(v) == width[v]                                   \* 1 + ilog2(v)

Exceptional(vals, b) == {i \in DOMAIN vals : minbits(vals[i]) > b}

(* Mutant of Widths: up to and with _maxb *)
WidthsAndMaxB(vals, maxexceptions) ==
    {b \in 1 .. 16 : Cardinality(Exceptional(vals, b)) <= maxexceptions}

(* the widths that leave few enough exceptions; _maxb is 16 *)
Widths(vals, maxexceptions) ==
    {b \in 1 .. 15 : Cardinality(Exceptional(vals, b)) <= maxexceptions}

(* nothing but ones, exceptions aside: b is written as 0, the values not at all *)
Special(vals, b) == b = 1 /\ \A i \in DOMAIN vals \ Exceptional(vals, b) : vals[i] = 1

(* the number with these bits, from 0 on *)
Number(bits) ==
    LET from[j \in Nat] == IF j \in DOMAIN bits THEN bits[j] + 2 * from[j + 1] ELSE 0 IN from[0]

Packed(vals, b) ==
    LET bit(n) == (vals[n \div b + 1] \div 2 ^ (n % b)) % 2
    IN  [k \in 1 .. (b * Len(vals)) \div 8 |-> Number([j \in 0 .. 7 |-> bit(8 * (k - 1) + j)])]

EncodedBlock(vals, maxexceptions) ==
    LET b == Min(Widths(vals, maxexceptions))
        odd == Exceptional(vals, b)
        special == Special(vals, b)
        exception(i) == IF i \in odd THEN VarByte(i - 1) \o VarByte(vals[i]) ELSE <<>>
    IN  IF Widths(vals, maxexceptions) = {} THEN NoBlock
        ELSE <<(16 * Cardinality(odd) + (IF special THEN 0 ELSE b)) % 256>>
               \o (IF special THEN <<>> ELSE Packed(vals, b))
               \o FlattenSeq([i \in DOMAIN vals |-> exception(i)])

(* PFORUInt::decode: the block at a position, and the position after it *)
DecodedBlock(bytes, at, blocksize) ==
    LET b == bytes[at] % 16
        bit(n) == (ByteAt(bytes, at + 1 + n \div 8) \div 2 ^ (n % 8)) % 2
        start(i) == 8 * (((b * (i - 1)) \div 8) % 256) + ((b * (i - 1)) % 8)   \* uint8_t off
        packed == [i \in 1 .. blocksize |->
                      IF b = 0 THEN 1
                      ELSE Number([j \in 0 .. b - 1 |-> bit(start(i) + j)])]
        patched[k \in Nat] ==
            IF k = 0 THEN [vals |-> packed, next |-> at + 1 + (b * blocksize) \div 8]
            ELSE LET place == VarByteAt(bytes, patched[k - 1].next)
                     value == VarByteAt(bytes, place.next)
                 IN  [vals |-> [patched[k - 1].vals EXCEPT ![place.val + 1] = value.val],
                      next |-> value.next]
    IN  patched[bytes[at] \div 16]

-----------------------------------------------------------------------------
(* bgCompress *)

(* convert_to_deltas *)
Deltas(ids) == [i \in DOMAIN ids |-> IF i = 1 THEN ids[1] ELSE ids[i] - ids[i - 1]]

Padded(vals, blocksize) ==
    LET over == Len(vals) % blocksize
    IN  vals \o [k \in 1 .. IF over = 0 THEN 0 ELSE blocksize - over |-> 0]

EncodedBlocks(vals, pfor) ==
    LET all == Padded(vals, pfor.blocksize)
        block(k) == SubSeq(all, (k - 1) * pfor.blocksize + 1, k * pfor.blocksize)
    IN  [k \in 1 .. Len(all) \div pfor.blocksize |-> EncodedBlock(block(k), pfor.maxexceptions)]

(* the first id apart; the others in blocks if they are many and every block *)
(* can be encoded, else one by one.  writer() puts the size and the mark of  *)
(* the encoding in front.                                                    *)
Compressed(ids, pfor) ==
    LET rest == Tail(Deltas(ids))
        blocks == IF Len(rest) >= pfor.threshold THEN EncodedBlocks(rest, pfor) ELSE <<>>
        pfor_encoded == blocks # <<>> /\ NoBlock \notin ToSet(blocks)
        cdata == VarByte(ids[1])
                   \o FlattenSeq(IF pfor_encoded THEN blocks
                                 ELSE [i \in DOMAIN rest |-> VarByte(rest[i])])
    IN  VarByte(2 * Len(cdata) + (IF pfor_encoded THEN 1 ELSE 0)) \o cdata

-----------------------------------------------------------------------------
(* bgparse *)

(* the position after the list at a position *)
Skipped(bytes, at) ==
    LET size == VarByteAt(bytes, at) IN size.next + size.val \div 2

(* the values before the first zero, which can only be padding *)
BeforeZeros(vals) ==
    LET zeros == {i \in DOMAIN vals : vals[i] = 0}
    IN  IF zeros = {} THEN vals ELSE SubSeq(vals, 1, Min(zeros) - 1)

(* convert_from_deltas *)
Sums(vals) ==
    LET sum[i \in DOMAIN vals] == IF i = 1 THEN vals[1] ELSE sum[i - 1] + vals[i] IN sum

(* the ids in the list at a position: it reads nothing beyond its size *)
ReadList(bytes, at, blocksize) ==
    LET size == VarByteAt(bytes, at)
        cdata == SubSeq(bytes, size.next, size.next + size.val \div 2 - 1)
        first == VarByteAt(cdata, 1)
        inBlocks[k \in Places] ==
            IF k > Len(cdata) THEN <<>>
            ELSE LET block == DecodedBlock(cdata, k, blocksize)
                 IN  block.vals \o inBlocks[block.next]
        oneByOne[k \in Places] ==
            IF k > Len(cdata) THEN <<>>
            ELSE LET value == VarByteAt(cdata, k) IN <<value.val>> \o oneByOne[value.next]
    IN  IF cdata = <<>> THEN <<>>
        ELSE Sums(<<first.val>> \o (IF size.val % 2 = 1 THEN BeforeZeros(inBlocks[first.next])
                                                          ELSE oneByOne[first.next]))
=============================================================================

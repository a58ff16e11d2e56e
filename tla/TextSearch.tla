----------------------------- MODULE TextSearch ------------------------------
(***************************************************************************)
(* What happens to the bytes themselves: bgindex and bgparse take files    *)
(* and search strings apart into n-grams, bgverify looks for the strings   *)
(* in a file with the Boyer-Moore-Horspool search.                         *)
(***************************************************************************)
EXTENDS Integers, Sequences, SequencesExt, FiniteSetsExt

Byte == 0 .. 255

(* a byte outside the array is whatever lies there *)
ByteOr(bytes, k, outside) == IF k \in DOMAIN bytes THEN bytes[k] ELSE outside

(* the four bytes at k as a uint32_t, little-endian *)
Word(bytes, k, outside) ==
    LET byte(j) == ByteOr(bytes, k + j, outside)
    IN  byte(0) + 256 * (byte(1) + 256 * (byte(2) + 256 * byte(3)))

(* Mutant of Ngram: the last 3-gram is cut like the others *)
NgramCut(n, bytes, k, outside) ==
    IF n = 4 THEN Word(bytes, k, outside)
    ELSE IF k < Len(bytes) - n + 1 THEN Word(bytes, k, outside) % 2^24
    ELSE Word(bytes, k - 1, outside) % 2^24

(* the n-gram at k.  For n = 3 four bytes are read and cut, and at the end   *)
(* the four that end there are shifted, so as not to read beyond it          *)
Ngram(n, bytes, k, outside) ==
    IF n = 4 THEN Word(bytes, k, outside)
    ELSE IF k < Len(bytes) - n + 1 THEN Word(bytes, k, outside) % 2^24
    ELSE Word(bytes, k - 1, outside) \div 256

(* bgShingle takes files of four bytes and more *)
FileNgrams(n, bytes, outside) ==
    IF Len(bytes) < 4 THEN {} ELSE {Ngram(n, bytes, k, outside) : k \in 1 .. Len(bytes) - n + 1}

(* ngrams_from_v_binascii: of all search strings, those too short left out. *)
(* For a string of three bytes the last 3-gram is read from one byte before *)
(* the string.                                                              *)
StringNgrams(n, bytes, outside) ==
    IF Len(bytes) < n THEN {} ELSE {Ngram(n, bytes, k, outside) : k \in 1 .. Len(bytes) - n + 1}

SearchNgrams(n, strings, outside) ==
    UNION {StringNgrams(n, strings[s], outside) : s \in DOMAIN strings}

(* bgparse's answer for one file: without n-grams nothing is found *)
IsCandidate(filegrams, searchgrams) == searchgrams # {} /\ searchgrams \subseteq filegrams

-----------------------------------------------------------------------------
(* Mutant of skip: the last byte of the pattern counts as well *)
SkipOfAll(pattern, byte) ==
    LET at == {k \in DOMAIN pattern : pattern[k] = byte}
    IN  IF at = {} THEN Len(pattern) ELSE IF Max(at) = Len(pattern) THEN Len(pattern)
        ELSE Len(pattern) - Max(at)

(* BMH::BMH: how far the byte under the pattern's end allows it to move *)
skip(pattern, byte) ==
    LET at == {k \in 1 .. Len(pattern) - 1 : pattern[k] = byte}
    IN  IF at = {} THEN Len(pattern) ELSE Len(pattern) - Max(at)

(* BMH::find: the offsets, from 0, at which the pattern is found; the       *)
(* function's argument is the place of the pattern's end, from 1            *)
Found(pattern, text, onlyone) ==
    LET m == Len(pattern)
        from[k \in Nat] ==
            IF k > Len(text) THEN <<>>
            ELSE LET next == k + skip(pattern, text[k])
                 IN  IF SubSeq(text, k - m + 1, k) # pattern THEN from[next]
                     ELSE IF onlyone THEN <<k - m>>
                     ELSE <<k - m>> \o from[next]
    IN  from[m]

(* bgverify's output for a file, its patterns one after the other: nothing   *)
(* as soon as one of them is not found; with -o the offsets of all           *)
Verified(patterns, text, showall) ==
    LET results == [p \in DOMAIN patterns |-> Found(patterns[p], text, ~showall)]
    IN  IF \E p \in DOMAIN patterns : results[p] = <<>> THEN <<>>
        ELSE IF showall THEN FlattenSeq(results) ELSE <<"matches">>
=============================================================================

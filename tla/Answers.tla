------------------------------- MODULE Answers -------------------------------
(***************************************************************************)
(* From bytes to an answer.  One behaviour follows either a file, a line   *)
(* of search strings and what the three programs make of them -- bgindex   *)
(* shingles the file, bgparse says whether it is a candidate, bgverify     *)
(* whether it matches -- or the ids of one n-gram, from bgCompress to      *)
(* bgparse.  The steps are calls of the operators of TextSearch and        *)
(* ListCodec.                                                              *)
(***************************************************************************)
EXTENDS ListCodec, TextSearch, Ascending

CONSTANTS
    Lists,       \* [ids, pfor]: the files of an n-gram, in order, and options
    Texts,       \* contents of a file
    Strings,     \* what is searched for: sequences of byte strings
    Outside      \* what a byte outside an array may be

ASSUME ListsAssumption ==
    \A l \in Lists : l.pfor \in PFORSettings /\ l.ids \in Ascendings
ASSUME BytesAssumption ==      \* bgverify refuses an empty string
    /\ Texts \subseteq Seq(Byte) /\ Outside \subseteq Byte
    /\ Strings \subseteq Seq(Seq(Byte) \ {<<>>})

VARIABLES
    pc,
    list, stored, read,                     \* of a list: its bytes, its ids read back
    n, text, strings, outside, showall,     \* of a file, the inputs,
    filegrams, candidate, output            \* its n-grams, and the two verdicts

listVars == <<list, stored, read>>
inputs == <<n, text, strings, outside, showall>>
vars == <<pc, listVars, inputs, filegrams, candidate, output>>

NoList == [ids |-> <<>>, pfor |-> <<>>]

Init ==
    /\ stored = <<>> /\ read = <<>> /\ filegrams = {} /\ candidate = FALSE /\ output = <<>>
    /\ \/ /\ pc = "compress" /\ list \in Lists
          /\ n = 0 /\ text = <<>> /\ strings = <<>> /\ outside = 0 /\ showall = FALSE
       \/ /\ pc = "shingle" /\ list = NoList
          /\ n \in {3, 4} /\ text \in Texts /\ strings \in Strings
          /\ outside \in Outside /\ showall \in BOOLEAN

(* the list, and behind it, as in the index, another one *)
Follower == <<300, 301>>

Compress ==
    /\ pc = "compress"
    /\ stored' = Compressed(list.ids, list.pfor) \o Compressed(Follower, list.pfor)
    /\ pc' = "read"
    /\ UNCHANGED <<list, read, inputs, filegrams, candidate, output>>

(* the list, and by way of its size the next one *)
Read ==
    /\ pc = "read"
    /\ read' = <<ReadList(stored, 1, list.pfor.blocksize),
                 ReadList(stored, Skipped(stored, 1), list.pfor.blocksize)>>
    /\ pc' = "done"
    /\ UNCHANGED <<list, stored, inputs, filegrams, candidate, output>>

Shingle ==
    /\ pc = "shingle"
    /\ filegrams' = FileNgrams(n, text, outside)
    /\ pc' = "parse"
    /\ UNCHANGED <<listVars, inputs, candidate, output>>

Parse ==
    /\ pc = "parse"
    /\ candidate' = IsCandidate(filegrams, SearchNgrams(n, strings, outside))
    /\ pc' = "verify"
    /\ UNCHANGED <<listVars, inputs, filegrams, output>>

Verify ==
    /\ pc = "verify"
    /\ output' = Verified(strings, text, showall)
    /\ pc' = "done"
    /\ UNCHANGED <<listVars, inputs, filegrams, candidate>>

Next == Compress \/ Read \/ Shingle \/ Parse \/ Verify

Spec == Init /\ [][Next]_vars

-----------------------------------------------------------------------------
(* Properties *)

(* What bgparse reads is what bgCompress was given, whichever encoding was  *)
(* chosen, however many blocks and exceptions it took and however the last  *)
(* block was padded; and the size in front of it leads to the next list     *)
(* (PFOR.hpp, VarByte.hpp, bgCompress; bgparse's skip and decode loops).    *)
ListsReadBack ==
    pc = "done" /\ list # NoList => read = <<list.ids, Follower>>

Occurrences(pattern) ==
    {k \in 0 .. Len(text) - Len(pattern) : SubSeq(text, k + 1, k + Len(pattern)) = pattern}

Matches == \A s \in DOMAIN strings : Occurrences(strings[s]) # {}

(* A file that contains all search strings is a candidate, unless it is too *)
(* small to be indexed or all strings are too short to be looked up:        *)
(* bgindex and bgparse make the same n-grams of the same bytes, at the end  *)
(* of the file, at the end of the string and in between, and the byte read  *)
(* before a string of three bytes does not matter (bgShingle against        *)
(* bgparse's ngrams_from_binascii).                                         *)
MatchesAreCandidates ==
    pc \in {"verify", "done"} /\ list = NoList =>
        (Matches /\ Len(text) >= 4 /\ (\E s \in DOMAIN strings : Len(strings[s]) >= n)
            => candidate)

(* bgverify prints a file just if all strings are in it, and with -o every  *)
(* place of each of them, overlapping ones too, in order: the skips of the  *)
(* Horspool search pass over no occurrence.                                 *)
VerifyIsExact ==
    pc = "done" /\ list = NoList =>
        output = IF ~Matches THEN <<>>
                 ELSE IF ~showall THEN <<"matches">>
                 ELSE FlattenSeq([s \in DOMAIN strings |-> Ordered(Occurrences(strings[s]))])
=============================================================================

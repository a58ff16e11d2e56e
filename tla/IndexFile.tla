------------------------------ MODULE IndexFile ------------------------------
(***************************************************************************)
(* The .bgi file: how WriteWorker lays it out and finishes it, and what    *)
(* bgparse finds in it -- when the writer is done, or has run out of disk, *)
(* or is still at it, or was killed.                                       *)
(*                                                                         *)
(* The writer gets the n-grams in order (IndexPipeline proves that).  The  *)
(* file is its header, its hints, and the cells of the data region: the    *)
(* n-gram's list of file ids, or a single zero byte for an n-gram that no  *)
(* file has.  Positions count bytes from the start of the data region.     *)
(***************************************************************************)
EXTENDS Ascending, Sequences, FiniteSetsExt

CONSTANTS
    NgramBits,     \* 8 * N
    TrimmedBits,   \* what the hint types trim from an n-gram: 8, 4 or no bits
    Files,         \* file ids
    MaxPresent,    \* bound on the n-grams the files have
    NotInIndex,    \* UINT64_MAX, the hint for a prefix no n-gram has
    Garbage        \* what is read where no list is

ASSUME BitsAssumption ==
    /\ NgramBits \in Nat /\ TrimmedBits \subseteq 0 .. NgramBits
ASSUME FilesAssumption == Files \subseteq Nat /\ IsFiniteSet(Files)
ASSUME MarksAssumption ==      \* neither is a position in a file or a list
    NotInIndex \notin Nat /\ Garbage \notin Nat /\ \A ids \in SUBSET Files : Garbage # ids

VARIABLES
    content,                      \* the files each n-gram occurs in: fixed
    trimmed,                      \* what hint_type trims: fixed
    wpc, todo,                    \* the writer, the n-grams it has not written
    last_ngram_written, first_write, last_index,
    hints, fileid_map_offset,     \* _hints and header, in the writer's memory
    good,                         \* _index_dat: no write has failed
    disk                          \* the file

writer == <<wpc, todo, last_ngram_written, first_write, last_index, hints, fileid_map_offset>>
vars == <<content, trimmed, writer, good, disk>>

Ngrams == 0 .. 2^NgramBits - 1
Present == {g \in Ngrams : content[g] # {}}

-----------------------------------------------------------------------------
(* bgi_header *)

num_hints == 2 ^ (NgramBits - trimmed)     \* short of the width of int

ngram_to_hint(g) == g \div 2 ^ trimmed
masked(g) == g % 2 ^ trimmed              \* ngram & hint_type_mask()

-----------------------------------------------------------------------------
(* The cells *)

ListSize(g) == 1 + Cardinality(content[g])     \* the size, then at least a byte a file

Zeros(start, n) == {[off |-> start + k, len |-> 1, ngram |-> NotInIndex] : k \in 0 .. n - 1}

end == disk.size                     \* _index_dat.tellp()
tellp(pos) == IF good THEN pos ELSE NotInIndex   \* (streampos)-1 is UINT64_MAX

Init ==
    /\ \E some \in UNION {kSubset(k, Ngrams) : k \in 1 .. MaxPresent} :
          \E ids \in [some -> (SUBSET Files) \ {{}}] :
             content = [g \in Ngrams |-> IF g \in some THEN ids[g] ELSE {}]
    /\ trimmed \in TrimmedBits
    /\ wpc = "spacer" /\ todo = Present
    /\ last_ngram_written = 0 /\ first_write = TRUE /\ last_index = 0
    /\ hints = [h \in 0 .. num_hints - 1 |-> NotInIndex]
    /\ fileid_map_offset = 0
    /\ good = TRUE
    /\ disk = [offset |-> 0, hints |-> <<>>, cells |-> {}, size |-> 0, named |-> FALSE]

(* A write that makes the file longer fails when the disk is full; from then *)
(* on the stream writes nothing.                                             *)
MayFail(written) ==
    \/ good /\ disk' = written /\ UNCHANGED good
    \/ good' = FALSE /\ UNCHANGED disk

(* an empty header, empty hints; the first hint is where the data starts *)
WriteSpacer ==
    /\ wpc = "spacer"
    /\ MayFail([disk EXCEPT !.hints = hints])
    /\ hints' = [hints EXCEPT ![0] = IF good' THEN end ELSE NotInIndex]
    /\ wpc' = "lists"
    /\ UNCHANGED <<content, trimmed, todo, last_ngram_written, first_write, last_index,
                   fileid_map_offset>>

(* Mutant of HintFor: the hint is where the n-gram is, not its prefix *)
HintWithoutPadding(g, pos, pads) == tellp(pos)

HintFor(g, pos, pads) ==
    IF good /\ pads # 0 THEN pos - masked(g) ELSE tellp(pos)

PadsBefore(g) == IF first_write THEN g ELSE g - (last_ngram_written + 1)

(* writer(): the zeros for the n-grams in between, the hint if the prefix is *)
(* a new one, and the list                                                   *)
WriteList ==
    /\ wpc = "lists" /\ todo # {}
    /\ LET g == Min(todo)
           idx == ngram_to_hint(g)
           pads == PadsBefore(g)
           pos == end + pads
           list == [off |-> pos, len |-> ListSize(g), ngram |-> g]
       IN  /\ IF idx = last_index
              THEN UNCHANGED <<hints, last_index>>
              ELSE hints' = [hints EXCEPT ![idx] = HintFor(g, pos, pads)] /\ last_index' = idx
           /\ MayFail([disk EXCEPT !.cells = @ \cup Zeros(end, pads) \cup {list},
                                   !.size = pos + ListSize(g)])
           /\ last_ngram_written' = g
    /\ first_write' = FALSE
    /\ todo' = todo \ {Min(todo)}
    /\ UNCHANGED <<content, trimmed, wpc, fileid_map_offset>>

(* after the last list the names of the files: what is read there is garbage *)
WriteMap ==
    /\ wpc = "lists" /\ todo = {}
    /\ fileid_map_offset' = tellp(end)
    /\ MayFail([disk EXCEPT !.named = TRUE])
    /\ wpc' = "header"
    /\ UNCHANGED <<content, trimmed, todo, last_ngram_written, first_write, last_index, hints>>

(* Mutant of RewriteHeader: it is written before the names *)
HeaderBeforeMap ==
    /\ wpc = "lists" /\ todo = {}
    /\ disk' = [disk EXCEPT !.offset = end]
    /\ wpc' = "hints"
    /\ UNCHANGED <<content, trimmed, todo, last_ngram_written, first_write, last_index,
                   hints, fileid_map_offset, good>>

(* seekp(0) first writes what is still in the buffer, so it may fail too *)
RewriteHeader ==
    /\ wpc = "header"
    /\ MayFail([disk EXCEPT !.offset = fileid_map_offset])
    /\ wpc' = "hints"
    /\ UNCHANGED <<content, trimmed, todo, last_ngram_written, first_write, last_index,
                   hints, fileid_map_offset>>

RewriteHints ==
    /\ wpc = "hints"
    /\ disk' = IF good THEN [disk EXCEPT !.hints = hints] ELSE disk
    /\ wpc' = "closed"
    /\ UNCHANGED <<content, trimmed, todo, last_ngram_written, first_write, last_index,
                   hints, fileid_map_offset, good>>

Killed ==
    /\ wpc \notin {"closed", "killed"}
    /\ wpc' = "killed"
    /\ UNCHANGED <<content, trimmed, todo, last_ngram_written, first_write, last_index,
                   hints, fileid_map_offset, good, disk>>

Next == WriteSpacer \/ WriteList \/ WriteMap \/ RewriteHeader \/ RewriteHints \/ Killed

Spec == Init /\ [][Next]_vars

-----------------------------------------------------------------------------
(* bgparse, on the file as it is at one moment *)

(* it goes on unless the offset of the map is 0; or beyond the file,        *)
(* which, the offset being written last, cannot be                          *)
Accepts == disk.offset # 0

(* the position of the n-gram's cell: from the hint, skip cells of unknown  *)
(* length.  The end of the data region is computed but never looked at.     *)
Skip(start, skip) ==
    LET At(off) == {c \in disk.cells : c.off = off}
        pos[k \in Nat] ==
            IF k = 0 THEN start
            ELSE LET before == pos[k - 1]
                 IN  IF before = Garbage \/ At(before) = {} THEN Garbage
                     ELSE before + (CHOOSE c \in At(before) : TRUE).len
    IN  IF pos[skip] = Garbage THEN {} ELSE At(pos[skip])

(* the files listed for an n-gram: none if there is no hint, or a size of 0 *)
Lookup(g) ==
    LET hint == disk.hints[ngram_to_hint(g)]
        cell == Skip(hint, masked(g))
    IN  IF hint = NotInIndex THEN {}
        ELSE IF cell = {} THEN Garbage
        ELSE LET c == CHOOSE c \in cell : TRUE
             IN  IF c.ngram = NotInIndex THEN {} ELSE content[c.ngram]

(* the candidates for a set of n-grams: in ascending order each narrows what *)
(* the ones before it have left, and nothing left ends the search            *)
Search(pattern) ==
    LET grams == Ordered(pattern)
        found[i \in Nat] ==
            IF i = 0 THEN Files
            ELSE LET before == found[i - 1]
                     here == Lookup(grams[i])
                 IN  IF before \in {{}, Garbage} THEN before
                     ELSE IF here = Garbage THEN Garbage ELSE before \cap here
    IN  found[Len(grams)]

-----------------------------------------------------------------------------
(* Properties *)

(* the n-grams that share the last list's prefix and come after it *)
AfterTheLast(g) == g > last_ngram_written /\ ngram_to_hint(g) = ngram_to_hint(last_ngram_written)

Matching(pattern) == {f \in Files : \A g \in pattern : f \in content[g]}

Patterns == {{g, h} : g, h \in Ngrams}

(* A finished index is accepted; and whatever bgparse accepts gives, for    *)
(* every search string, exactly the files that contain all its n-grams --   *)
(* through the hints, whatever groups are empty, wherever the first n-gram  *)
(* of a group is, and however long the lists are -- or, if the hints have   *)
(* not been written, none, and never a wrong file; except for n-grams       *)
(* behind the last list, see MissingNgramsAreZero (WriteWorker::writer and  *)
(* run against bgparse's search).                                           *)
SearchesAreExact ==
    /\ wpc = "closed" /\ good => Accepts
    /\ Accepts =>
          \A pattern \in Patterns :
              (\A g \in pattern : ~AfterTheLast(g)) =>
                  Search(pattern) = IF wpc = "closed" THEN Matching(pattern) ELSE {}

(* Whatever the moment, the disk or the signal: if bgparse goes on, all the *)
(* lists and the names are in the file (WriteWorker::run writes the header  *)
(* again only after them, and writes nothing once a write has failed).      *)
AcceptedOnlyWithAllLists ==
    Accepts => /\ \A g \in Present : \E c \in disk.cells : c.ngram = g
               /\ disk.named

(* INDEX_DETAILS.txt: the size of an n-gram's list is "0 for "missing"      *)
(* n-grams".  A finished index has no n-gram for which garbage is read.     *)
MissingNgramsAreZero ==
    wpc = "closed" /\ good => \A g \in Ngrams : Lookup(g) # Garbage
=============================================================================

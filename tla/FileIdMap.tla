----------------------------- MODULE FileIdMap -------------------------------
(***************************************************************************)
(* The names of the files at the end of an index, one line per file id,    *)
(* after bgindex has written them: bgextractfile removes and replaces      *)
(* names in place, bg-extract-or-replace-fileids.py copies the lines to a  *)
(* text file and back, and bgparse, bgsearch and bgdump read them at any   *)
(* moment, from a file that may be half rewritten.                         *)
(*                                                                         *)
(* The region from fileid_map_offset on is a sequence of characters. The   *)
(* ten digits of an id, which no program reads, are one character, Id.     *)
(* The region of a compressed map is its text after decompression.         *)
(***************************************************************************)
EXTENDS Ascending, SequencesExt, FiniteSetsExt

CONSTANTS
    NumFiles,        \* header.num_files
    Paths,           \* file names, sequences of letters
    Metas,           \* what can follow a name: nothing, or a comma and metadata
    Replacements,    \* the strings of -r, the empty one for a removal
    MaxRuns          \* bound: how often the tools are called

ASSUME NumFilesAssumption == NumFiles \in Nat \ {0}
ASSUME MaxRunsAssumption  == MaxRuns \in Nat

Id == "0000000000"
Space == " "
Comma == ","
NL == "NL"
NUL == "NUL"

Letters == UNION {Range(s) : s \in Paths \cup Metas \cup Replacements}
Characters == Letters \cup {Id, Space, Comma, NL, NUL}

(* bgindex reads a line for each file and opens what is before its first   *)
(* comma; the rest, comma included, is metadata.  It prints a name, and    *)
(* gets -r, as a C string: neither holds a NUL.                            *)
ASSUME NamesAssumption ==
    /\ Paths \cup Metas \cup Replacements \subseteq Seq(Letters)
    /\ NL \notin Letters /\ NUL \notin Letters
    /\ \A s \in Paths : Comma \notin Range(s)
    /\ \A s \in Metas : s # <<>> => s[1] = Comma

VARIABLES
    compressed,      \* hdr.compressed(), fixed by bgindex -z
    region,          \* the file from fileid_map_offset to its end
    torn,            \* a compressed map is half rewritten
    pc,              \* "idle", "extracting" or "replacing" names, or "killed"
    todo,            \* the writes that are left, in order
    pos,             \* the file position, within the region
    txt,             \* the lines of the .fileidmap.txt, if there is one
    names,           \* what the file ids should be called
    target,          \* what they should be called when the tool is done
    runs

vars == <<compressed, region, torn, pc, todo, pos, txt, names, target, runs>>
tool == <<pc, todo, pos, names, target>>

Ids == 1 .. NumFiles

(* An entry of the map: the name of a file and its metadata. *)
Entries == [file : Paths, meta : Metas]
Text(entry)  == entry.file \o entry.meta

(* StrFormat("%010u %s", i, ...) *)
LineOf(entry) == <<Id, Space>> \o Text(entry)

(* The lines, each with its newline *)
Joined(lines) == FlattenSeq([i \in DOMAIN lines |-> Append(lines[i], NL)])

(* where the lines of the first id files end *)
EndOf(ns, id) == Len(Joined([i \in 1 .. id |-> LineOf(ns[i])]))

(* boost::split at the newlines: what follows the last one is a line too *)
Split(text) ==
    LET cuts == <<0>> \o Ordered({i \in DOMAIN text : text[i] = NL}) \o <<Len(text) + 1>>
    IN [i \in 1 .. Len(cuts) - 1 |-> SubSeq(text, cuts[i] + 1, cuts[i + 1] - 1)]

(* what is before the first c, and what is after it *)
Before(s, c) ==
    LET i == SelectInSeq(s, LAMBDA x : x = c) IN IF i = 0 THEN s ELSE SubSeq(s, 1, i - 1)
After(s, c)  ==
    LET i == SelectInSeq(s, LAMBDA x : x = c) IN IF i = 0 THEN s ELSE SubSeq(s, i + 1, Len(s))

-----------------------------------------------------------------------------
(* Reading *)

(* A line of at most one character is erased, and the step to the next     *)
(* index then passes over the line that has moved up: it stays as it is.   *)
ReadLine(acc, line) ==
    IF acc.skip THEN [lines |-> Append(acc.lines, line), skip |-> FALSE]
    ELSE IF Len(line) <= 1 THEN [acc EXCEPT !.skip = TRUE]
    ELSE [acc EXCEPT !.lines = Append(@, After(line, Space))]

(* files of bgparse *)
FilesOf(text) ==
    LET lines == Split(text)
        read[i \in 0 .. Len(lines)] ==
            IF i = 0 THEN [lines |-> <<>>, skip |-> FALSE]
            ELSE ReadLine(read[i - 1], lines[i])
    IN read[Len(lines)].lines

(* bgparse prints files[id]; a torn stream ends it with an exception, and  *)
(* an id past the last line reads outside the vector.                      *)
Undefined == <<"undefined">>

Printed(files, id) == IF torn \/ id > Len(files) THEN Undefined ELSE files[id]

(* bgsearch.parse: a line is a name up to the first comma, and its         *)
(* metadata.  A blank line, the empty name here, is no candidate.          *)
Candidate(line) ==
    LET file == Before(line, Comma)
    IN [file |-> file, meta |-> SubSeq(line, Len(file) + 1, Len(line))]

(* bgdump -f prints each line as it is in the map, but the one it passes over *)
ListLine(acc, line) ==
    IF acc.skip THEN [acc EXCEPT !.skip = FALSE]
    ELSE IF Len(line) <= 1 THEN [lines |-> Append(acc.lines, line), skip |-> TRUE]
    ELSE [acc EXCEPT !.lines = Append(@, line)]

FileList(text) ==
    LET lines == Split(text)
        listed[i \in 0 .. Len(lines)] ==
            IF i = 0 THEN [lines |-> <<>>, skip |-> FALSE]
            ELSE ListLine(listed[i - 1], lines[i])
    IN listed[Len(lines)].lines

-----------------------------------------------------------------------------
(* bgextractfile *)

(* Mutant of ScanLine: the line of a removed file goes, with its id *)
ScanErases(acc, line, request, str) ==
    LET name == Before(After(line, Space), Comma)
    IN  IF acc.found = request.limit \/ name \notin request.names
        THEN [acc EXCEPT !.lines = Append(@, line)]
        ELSE [acc EXCEPT !.found = @ + 1, !.removed = @ + Len(line) + 1]

(* A line: its name, up to the metadata, is compared with every requested  *)
(* one, until as many are found as there are to find.  removed_files       *)
(* collects the bytes to pad.                                              *)
ScanLine(acc, line, request, str) ==
    LET name == Before(After(line, Space), Comma)
        new  == Append(Before(line, Space), Space) \o str
    IN  IF acc.found = request.limit \/ acc.skip
        THEN [acc EXCEPT !.lines = Append(@, line), !.skip = FALSE]
        ELSE IF Len(line) <= 1
        THEN [acc EXCEPT !.removed = @ + 1, !.skip = TRUE]
        ELSE IF name \in request.names
        THEN [acc EXCEPT !.lines = Append(@, new), !.found = @ + 1,
                         !.removed = @ + (Len(line) + 1) - (Len(new) - 1)]
        ELSE [acc EXCEPT !.lines = Append(@, line)]

Scan(request, str) ==
    LET lines == Split(region)
        scanned[i \in 0 .. Len(lines)] ==
            IF i = 0 THEN [lines |-> <<>>, found |-> 0, removed |-> 0, skip |-> FALSE]
            ELSE ScanLine(scanned[i - 1], lines[i], request, str)
    IN scanned[Len(lines)]

(* Mutant of Padding: there is none *)
NoPadding(n) == <<>>

(* removed_files NULs, if there are any to write *)
Padding(n) == [i \in 1 .. n |-> <<NUL>>]

(* A write for each line, one for each newline, one for each NUL *)
Writes(scan) ==
    FlattenSeq([i \in DOMAIN scan.lines |-> <<scan.lines[i], <<NL>>>>]) \o Padding(scan.removed)

(* What was asked for: the first limit ids with a requested name get str *)
Renaming(request, str) ==
    LET asked == {id \in Ids : names[id].file \in request.names}
        first == {id \in asked : Cardinality({i \in asked : i <= id}) <= request.limit}
    IN [id \in Ids |-> IF id \in first THEN Candidate(str) ELSE names[id]]

(* -x sets num_file_search to 1 however often it is given; without -x the  *)
(* names come from stdin, and it is their number                           *)
Requests == {request \in [names : SUBSET Paths \ {{}}, limit : 1 .. Cardinality(Paths)] :
                request.limit \in {1, Cardinality(request.names)}}

(* main up to the first write; with nothing found it ends here *)
ExtractFile(request, str) ==
    LET scan == Scan(request, str) IN
    /\ pc = "idle" /\ runs < MaxRuns
    /\ runs' = runs + 1
    /\ IF scan.found > 0
       THEN /\ pc' = "extracting" /\ pos' = 0
            /\ todo' = IF compressed THEN <<Joined(scan.lines)>> ELSE Writes(scan)
            /\ target' = Renaming(request, str)
            /\ UNCHANGED names
       ELSE UNCHANGED tool
    /\ UNCHANGED <<compressed, region, torn, txt>>

-----------------------------------------------------------------------------
(* The script: process_file *)

(* the lines Python sees: nothing follows the last newline but a line with none *)
PythonLines(text) ==
    LET lines == Split(text) IN IF Last(lines) = <<>> THEN Front(lines) ELSE lines

(* Extraction. The text file is opened, and emptied, before the version is *)
(* checked, and written before the lines are counted.                      *)
ExtractLines ==
    /\ pc = "idle" /\ runs < MaxRuns
    /\ runs' = runs + 1
    /\ txt' = IF compressed THEN <<>> ELSE PythonLines(region)
    /\ UNCHANGED <<compressed, region, torn, tool>>

(* The user gives a file another name and leaves a line for each id. *)
EditLines(id, entry) ==
    /\ pc = "idle" /\ Len(txt) >= NumFiles
    /\ txt' = [SubSeq(txt, 1, NumFiles) EXCEPT ![id] = LineOf(entry)]
    /\ UNCHANGED <<compressed, region, torn, tool, runs>>

(* The text file is there, the version is known and the lines are as many  *)
(* as the index has files.                                                 *)
AcceptsLines == Len(txt) = NumFiles /\ ~compressed

ReplaceLines ==
    /\ pc = "idle" /\ runs < MaxRuns
    /\ runs' = runs + 1
    /\ IF AcceptsLines
       THEN /\ pc' = "replacing" /\ pos' = 0
            /\ todo' = [i \in DOMAIN txt |-> Append(txt[i], NL)]
            /\ target' = [id \in Ids |-> Candidate(After(txt[id], Space))]
            /\ UNCHANGED names
       ELSE UNCHANGED tool
    /\ UNCHANGED <<compressed, region, torn, txt>>

-----------------------------------------------------------------------------
(* Writing, which both tools do in place *)

(* Mutant of Overlay: the file is cut off behind each write *)
CutOff(text, at, bytes) == SubSeq(text, 1, at) \o bytes

(* the bytes of a write replace those at its position *)
Overlay(text, at, bytes) ==
    [i \in 1 .. Max({Len(text), at + Len(bytes)}) |->
        IF i \in at + 1 .. at + Len(bytes) THEN bytes[i - at] ELSE text[i]]

(* Mutant of Write: the newline is counted with each line and once more *)
CountsNewline ==
    /\ pc \in {"extracting", "replacing"} /\ ~compressed /\ todo # <<>>
    /\ region' = Overlay(region, pos, Head(todo))
    /\ pos' = pos + Len(Head(todo)) + 1
    /\ todo' = Tail(todo)
    /\ UNCHANGED <<compressed, torn, pc, txt, names, target, runs>>

Write ==
    /\ pc \in {"extracting", "replacing"} /\ ~compressed /\ todo # <<>>
    /\ region' = Overlay(region, pos, Head(todo))
    /\ pos' = pos + Len(Head(todo))
    /\ todo' = Tail(todo)
    /\ UNCHANGED <<compressed, torn, pc, txt, names, target, runs>>

(* The stream of a compressed map goes out in several writes; when the     *)
(* last is done the decompressor ends with it and ignores what is behind.  *)
StartStream ==
    /\ pc = "extracting" /\ compressed /\ ~torn /\ todo # <<>>
    /\ torn' = TRUE
    /\ UNCHANGED <<compressed, region, tool, txt, runs>>

EndStream ==
    /\ pc = "extracting" /\ torn
    /\ torn' = FALSE
    /\ region' = Head(todo)
    /\ todo' = <<>>
    /\ UNCHANGED <<compressed, pc, pos, names, target, txt, runs>>

(* what is left of the region: the script truncates at its position *)
Kept == IF pc = "replacing" THEN SubSeq(region, 1, pos) ELSE region

Close ==
    /\ pc \in {"extracting", "replacing"} /\ todo = <<>>
    /\ region' = Kept
    /\ names' = target
    /\ pc' = "idle" /\ pos' = 0
    /\ UNCHANGED <<compressed, torn, todo, target, txt, runs>>

(* the tool dies between two writes *)
Kill ==
    /\ pc \in {"extracting", "replacing"}
    /\ pc' = "killed"
    /\ UNCHANGED <<compressed, region, torn, todo, pos, names, target, txt, runs>>

-----------------------------------------------------------------------------
(* bgindex has written the index (WriteWorker::run) *)
Init ==
    /\ compressed \in BOOLEAN
    /\ names \in [Ids -> Entries]
    /\ region = Joined([id \in Ids |-> LineOf(names[id])])
    /\ target = names
    /\ torn = FALSE /\ pc = "idle" /\ todo = <<>> /\ pos = 0
    /\ txt = <<>> /\ runs = 0

Next ==
    \/ \E request \in Requests, str \in Replacements : ExtractFile(request, str)
    \/ ExtractLines
    \/ \E id \in Ids, entry \in Entries : EditLines(id, entry)
    \/ ReplaceLines
    \/ Write \/ StartStream \/ EndStream \/ Close \/ Kill

Spec == Init /\ [][Next]_vars

-----------------------------------------------------------------------------
(* Properties *)

Names == [Ids -> Entries \cup {Candidate(str) : str \in Replacements}]

TypeOK ==
    /\ compressed \in BOOLEAN /\ torn \in BOOLEAN
    /\ pc \in {"idle", "extracting", "replacing", "killed"}
    /\ \A i \in DOMAIN region : region[i] \in Characters
    /\ \A i \in DOMAIN todo : \A j \in DOMAIN todo[i] : todo[i][j] \in Characters
    /\ pos \in 0 .. Len(region)
    /\ \A i \in DOMAIN txt : \A j \in DOMAIN txt[i] : txt[i][j] \in Characters \ {NL}
    /\ names \in Names /\ target \in Names
    /\ runs \in 0 .. MaxRuns

(* Whatever sequence of tools has run, a search finds for each id the name *)
(* and metadata it should have, or nothing once it is removed, and bgdump  *)
(* lists it: no id takes the name of another (bgparse, bgsearch.parse,     *)
(* bgdump -f, after bgextractfile and the script).                         *)
NamesAreAsAsked ==
    pc = "idle" =>
        LET files == FilesOf(region)
            list  == FileList(region)
        IN \A id \in Ids : /\ Candidate(Printed(files, id)) = names[id]
                           /\ list[id] = LineOf(names[id])

(* No part of a name that is gone stays behind the lines: what follows     *)
(* them are newlines and the padding (bgextractfile, process_file).        *)
NoNameIsLeft ==
    pc = "idle" =>
        \A i \in DOMAIN region :
            i > EndOf(names, NumFiles) => region[i] \in {NL, NUL}

(* A search that reads the map while it is rewritten in place, or after    *)
(* the tool was killed, is right for every id whose line is written, and   *)
(* has the old name or the new one for every id up to which no line        *)
(* changes its length (write of each line and newline by bgextractfile).   *)
TornMapIsRightUpToTheChange ==
    pc \in {"extracting", "replacing", "killed"} /\ ~compressed =>
        LET files == FilesOf(region)
        IN \A id \in Ids :
            LET read == Candidate(Printed(files, id))
            IN /\ pos >= EndOf(target, id) => read = target[id]
               /\ (\A i \in 1 .. id : Len(Text(names[i])) = Len(Text(target[i])))
                     => read \in {names[id], target[id]}
=============================================================================

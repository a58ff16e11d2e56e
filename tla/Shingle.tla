------------------------------- MODULE Shingle -------------------------------
(***************************************************************************)
(* The first half of bgindex's main: it queues the files it was given for  *)
(* the shingle threads, waits for them, and closes the gaps the unusable   *)
(* files leave -- once in id_to_fname, the names the index will print, and *)
(* once in the leaves of the loser tree, the file ids the index will hold. *)
(*                                                                         *)
(* A file is what bgShingle finds out about it: whether stat succeeds with *)
(* an acceptable size, whether mmap does, and its unique n-grams.  A name  *)
(* is the file it stands for and the metadata appended to it.              *)
(***************************************************************************)
EXTENDS BgQueue, FiniteSets, Functions

CONSTANTS
    Shinglers,         \* the shingle threads
    NumFiles,          \* lines read from stdin
    UniqueCounts,      \* how many unique n-grams a file may have
    max_uniq_ngrams,   \* -M
    Overflow,          \* -O was given
    CountOnly          \* shingle_and_exit

ASSUME NumFilesAssumption == NumFiles \in Nat
ASSUME ThreadsAssumption == NoThread \notin Shinglers /\ IsFiniteSet(Shinglers)
ASSUME OptionsAssumption  == /\ Overflow \in BOOLEAN
                             /\ CountOnly \in BOOLEAN
                             /\ UniqueCounts \subseteq Nat \ {0} /\ max_uniq_ngrams \in Nat

VARIABLES
    file,                         \* what the file system holds, fixed
    run_lock_free,                \* the queue that is used, fixed
    mpc, i,                       \* main: where it is, its loop index
    shingleQ, shingledone,
    spc, snote, draining,         \* shingle threads, as in IndexPipeline
    fds,                          \* FileData of each file
    id_to_fname,
    overflow,                     \* what the overflow file holds
    missing_files, max_ngram_files,
    nodes                         \* lt->nodes: the file in each leaf

thread == <<spc, snote, draining>>
results == <<fds, id_to_fname, overflow>>
counts == <<missing_files, max_ngram_files>>
input == <<file, run_lock_free>>
vars == <<input, mpc, i, shingleQ, shingledone, thread, results, counts, nodes>>

Ids == 0 .. NumFiles - 1
Newline == NumFiles                            \* no file has this number
Blank == [file |-> NumFiles, meta |-> 0]      \* the empty string

(* what is not readable is not mapped, what is not mapped is not counted *)
Kinds == {k \in [readable : BOOLEAN, mappable : BOOLEAN, unique : UniqueCounts] :
             /\ k.mappable => k.readable
             /\ ~k.mappable => k.unique = CHOOSE n \in UniqueCounts : TRUE}

Init ==
    /\ file \in [Ids -> Kinds] /\ run_lock_free \in BOOLEAN
    /\ mpc = "push" /\ i = 0
    /\ shingleQ = EmptyQueue /\ shingledone = FALSE
    /\ spc = [s \in Shinglers |-> "loop"] /\ snote = [s \in Shinglers |-> 0]
    /\ draining = {}
    /\ fds = [f \in Ids |-> [id |-> f, missing |-> FALSE, hit_ngram_limit |-> FALSE,
                             have_vals |-> FALSE]]
    /\ id_to_fname = [f \in Ids |-> [file |-> f, meta |-> 0]]
    /\ overflow = <<>>
    /\ missing_files = 0 /\ max_ngram_files = 0
    /\ nodes = <<>>

-----------------------------------------------------------------------------
(* main, while the shingle threads run *)

PushFile ==
    /\ mpc = "push" /\ i < NumFiles
    /\ IsFree(shingleQ)
    /\ shingleQ' = Pushed(shingleQ, i)
    /\ i' = i + 1
    /\ mpc' = IF run_lock_free THEN "push" ELSE "notify"
    /\ UNCHANGED <<input, shingledone, thread, results, counts, nodes>>

NotifyShingler ==
    /\ mpc = "notify"
    /\ shingleQ' \in OneWoken(shingleQ)
    /\ mpc' = "push"
    /\ UNCHANGED <<input, i, shingledone, thread, results, counts, nodes>>

(* Mutant of EndPush: shingledone is not set *)
EndPushSilently ==
    /\ mpc = "push" /\ i = NumFiles
    /\ mpc' = IF run_lock_free THEN "join" ELSE "quit"
    /\ UNCHANGED <<input, i, shingleQ, shingledone, thread, results, counts, nodes>>

EndPush ==
    /\ mpc = "push" /\ i = NumFiles
    /\ shingledone' = TRUE
    /\ mpc' = IF run_lock_free THEN "join" ELSE "quit"
    /\ UNCHANGED <<input, i, shingleQ, thread, results, counts, nodes>>

QuitShingle ==
    /\ \/ mpc = "quit" /\ shingleQ' = QuitSet(shingleQ) /\ mpc' = "wake"
       \/ mpc = "wake" /\ shingleQ' = AllWoken(shingleQ) /\ mpc' = "join"
    /\ UNCHANGED <<input, i, shingledone, thread, results, counts, nodes>>

JoinShinglers ==
    /\ mpc = "join"
    /\ \A s \in Shinglers : spc[s] = "done"
    /\ mpc' = "names" /\ i' = 0
    /\ UNCHANGED <<input, shingleQ, shingledone, thread, results, counts, nodes>>

-----------------------------------------------------------------------------
(* main, when they are gone *)

(* Mutant of NewId: only the missing files leave a gap *)
GapsOfMissingOnly(f) == f - missing_files

(* the first loop: unusable names are blanked, the others move down *)
NewId(f) == f - (missing_files + max_ngram_files)

MoveName(f) ==
    IF NewId(f) = f THEN id_to_fname
    ELSE [id_to_fname EXCEPT ![NewId(f)] = id_to_fname[f], ![f] = Blank]

CompactName ==
    /\ mpc = "names" /\ i < NumFiles
    /\ IF fds[i].missing
       THEN /\ missing_files' = missing_files + 1
            /\ id_to_fname' = [id_to_fname EXCEPT ![i] = Blank]
            /\ UNCHANGED max_ngram_files
       ELSE IF fds[i].hit_ngram_limit
       THEN /\ max_ngram_files' = max_ngram_files + 1
            /\ id_to_fname' = [id_to_fname EXCEPT ![i] = Blank]
            /\ UNCHANGED missing_files
       ELSE id_to_fname' = MoveName(i) /\ UNCHANGED counts
    /\ i' = i + 1
    /\ UNCHANGED <<input, mpc, shingleQ, shingledone, thread, fds, overflow, nodes>>

(* LoserTree llt(total_files) *)
NamesDone ==
    /\ mpc = "names" /\ i = NumFiles
    /\ mpc' = "nodes" /\ i' = 0
    /\ UNCHANGED <<input, shingleQ, shingledone, thread, results, counts, nodes>>

(* the second loop: a usable file becomes the next leaf, and gets its number *)
AssignNode ==
    /\ mpc = "nodes" /\ i < NumFiles
    /\ IF ~fds[i].missing /\ ~fds[i].hit_ngram_limit
       THEN /\ nodes' = Append(nodes, i)
            /\ fds' = [fds EXCEPT ![i].id = Len(nodes)]
       ELSE UNCHANGED <<nodes, fds>>
    /\ i' = i + 1
    /\ UNCHANGED <<input, mpc, shingleQ, shingledone, thread, id_to_fname, overflow, counts>>

total_files == NumFiles - (missing_files + max_ngram_files)

(* id_to_fname.resize(total_files), unless there are too few or --count *)
NodesDone ==
    /\ mpc = "nodes" /\ i = NumFiles
    /\ IF total_files < 2
       THEN mpc' = "exit1" /\ UNCHANGED id_to_fname
       ELSE /\ id_to_fname' = [f \in 0 .. total_files - 1 |-> id_to_fname[f]]
            /\ mpc' = IF CountOnly THEN "exit0" ELSE "merge"
    /\ UNCHANGED <<input, i, shingleQ, shingledone, thread, fds, overflow, counts, nodes>>

Main == \/ PushFile \/ NotifyShingler \/ EndPush \/ QuitShingle \/ JoinShinglers
        \/ CompactName \/ NamesDone \/ AssignNode \/ NodesDone

-----------------------------------------------------------------------------
(* A shingle thread *)

Goto(s, pc) == spc' = [spc EXCEPT ![s] = pc]
mainVars == <<input, mpc, i, shingledone, counts, nodes>>

CheckDone(s) ==
    /\ spc[s] = "loop"
    /\ Goto(s, IF shingledone THEN "drain" ELSE "take")
    /\ draining' = IF shingledone THEN draining \cup {s} ELSE draining
    /\ UNCHANGED <<mainVars, shingleQ, snote, results>>

(* wait_and_pop *)
WaitAndPop(s) ==
    /\ \/ /\ ~run_lock_free /\ spc[s] = "take" /\ CanLock(shingleQ, s)
          /\ shingleQ' = Locked(shingleQ, s)
          /\ Goto(s, IF MustWait(shingleQ) THEN "sleep" ELSE "pop")
          /\ UNCHANGED snote
       \/ /\ spc[s] = "sleep"
          /\ shingleQ' = Slept(shingleQ, s)
          /\ Goto(s, "take")
          /\ UNCHANGED snote
       \/ /\ spc[s] = "pop" /\ shingleQ.quit
          /\ shingleQ' = Released(shingleQ)
          /\ Goto(s, "loop")
          /\ UNCHANGED snote
       \/ /\ spc[s] = "pop" /\ ~shingleQ.quit
          /\ shingleQ' = Popped(shingleQ)
          /\ snote' = [snote EXCEPT ![s] = Head(shingleQ.items)]
          /\ Goto(s, "shingle")
    /\ UNCHANGED <<mainVars, draining, results>>

(* the inner loop of runlockfree, and the drain of both *)
TryPop(s) ==
    /\ \/ run_lock_free /\ spc[s] = "take"
       \/ spc[s] = "drain" /\ IsFree(shingleQ)
    /\ IF shingleQ.items = <<>>
       THEN /\ Goto(s, IF s \in draining THEN "done" ELSE "loop")
            /\ UNCHANGED <<shingleQ, snote>>
       ELSE /\ shingleQ' = Popped(shingleQ)
            /\ snote' = [snote EXCEPT ![s] = Head(shingleQ.items)]
            /\ Goto(s, "shingle")
    /\ UNCHANGED <<mainVars, draining, results>>

(* bgShingle: what it finds decides the fate of the file *)
FindMissing(s) ==
    LET f == snote[s] IN
    /\ spc[s] = "shingle" /\ ~file[f].readable
    /\ fds' = [fds EXCEPT ![f].missing = TRUE]
    /\ Goto(s, "next")
    /\ UNCHANGED <<mainVars, shingleQ, snote, draining, id_to_fname, overflow>>

(* mmap fails: the whole program leaves with exit(14) *)
MapFails(s) ==
    LET f == snote[s] IN
    /\ spc[s] = "shingle" /\ file[f].readable /\ ~file[f].mappable
    /\ mpc' = "exit14"
    /\ UNCHANGED <<input, i, shingledone, counts, nodes, shingleQ, thread, results>>

(* Mutant of TooDense: a file with exactly the maximum is let through *)
AboveMaximum(f) == max_uniq_ngrams < file[f].unique
TooDense(f) == max_uniq_ngrams <= file[f].unique
Usable(f) == file[f].readable /\ file[f].mappable

FindDense(s) ==
    LET f == snote[s] IN
    /\ spc[s] = "shingle" /\ Usable(f) /\ TooDense(f)
    /\ fds' = [fds EXCEPT ![f].hit_ngram_limit = TRUE]
    /\ Goto(s, IF Overflow THEN "putname" ELSE "next")
    /\ UNCHANGED <<mainVars, shingleQ, snote, draining, id_to_fname, overflow>>

(* Mutant of PutOverflow: the newline is put before the name *)
PutNewlineFirst(s) ==
    /\ \/ spc[s] = "putname" /\ overflow' = Append(overflow, Newline) /\ Goto(s, "putnewline")
       \/ spc[s] = "putnewline" /\ overflow' = Append(overflow, snote[s]) /\ Goto(s, "next")
    /\ UNCHANGED <<mainVars, shingleQ, snote, draining, fds, id_to_fname>>

(* two calls of fputs: stdio locks the file for each, not for both *)
PutOverflow(s) ==
    /\ \/ spc[s] = "putname" /\ overflow' = Append(overflow, snote[s]) /\ Goto(s, "putnewline")
       \/ spc[s] = "putnewline" /\ overflow' = Append(overflow, Newline) /\ Goto(s, "next")
    /\ UNCHANGED <<mainVars, shingleQ, snote, draining, fds, id_to_fname>>

FindNgrams(s) ==
    LET f == snote[s] IN
    /\ spc[s] = "shingle" /\ Usable(f) /\ ~TooDense(f)
    /\ id_to_fname' = [id_to_fname EXCEPT ![f].meta = @ + 1]
    /\ fds' = [fds EXCEPT ![f].have_vals = TRUE]
    /\ Goto(s, "next")
    /\ UNCHANGED <<mainVars, shingleQ, snote, draining, overflow>>

(* Mutant of AfterNote: after the drain's first file the thread ends *)
AfterDrained(s) == IF s \in draining THEN "done" ELSE IF run_lock_free THEN "take" ELSE "loop"
AfterNote(s) == IF s \in draining THEN "drain" ELSE IF run_lock_free THEN "take" ELSE "loop"

(* ++shingle_counter, which nobody reads, and the next round *)
NextNote(s) ==
    /\ spc[s] = "next"
    /\ Goto(s, AfterNote(s))
    /\ UNCHANGED <<mainVars, shingleQ, snote, draining, results>>

Shingler(s) ==
    \/ CheckDone(s) \/ WaitAndPop(s) \/ TryPop(s) \/ FindMissing(s) \/ MapFails(s)
    \/ FindDense(s) \/ PutOverflow(s) \/ FindNgrams(s) \/ NextNote(s)

SpuriousWakeup ==
    /\ shingleQ' \in Spurious(shingleQ)
    /\ UNCHANGED <<mainVars, thread, results>>

Ended == mpc \in {"exit0", "exit1", "exit14", "merge"}

Next == ~Ended /\ (Main \/ (\E s \in Shinglers : Shingler(s)) \/ SpuriousWakeup)

Spec == Init /\ [][Next]_vars
FairSpec == Spec /\ SF_vars(~Ended /\ Main) /\ \A s \in Shinglers : SF_vars(~Ended /\ Shingler(s))
-----------------------------------------------------------------------------
(* Properties *)

(* the maximum itself counts as too many *)
Dense(f) == Usable(f) /\ file[f].unique >= max_uniq_ngrams
Good(f)  == Usable(f) /\ ~Dense(f)

MainPCs == {"push", "notify", "quit", "wake", "join", "names", "nodes", "merge", "exit0",
            "exit1", "exit14"}
ShinglerPCs == {"loop", "take", "sleep", "pop", "drain", "shingle", "putname", "putnewline",
                "next", "done"}
FileData == [id : Nat, missing : BOOLEAN, hit_ngram_limit : BOOLEAN, have_vals : BOOLEAN]
Lines == IF mpc \in {"merge", "exit0"} THEN 0 .. total_files - 1 ELSE Ids
Names == [file : 0 .. NumFiles, meta : {0, 1}]

(* Every variable has its type; the two loops of main never index          *)
(* id_to_fname outside of it, and metadata is appended to a name once.     *)
TypeOK ==
    /\ file \in [Ids -> Kinds] /\ run_lock_free \in BOOLEAN
    /\ mpc \in MainPCs /\ i \in 0 .. NumFiles
    /\ shingleQ \in QueueOf(Ids, Shinglers) /\ shingledone \in BOOLEAN
    /\ spc \in [Shinglers -> ShinglerPCs] /\ snote \in [Shinglers -> Nat]
    /\ draining \subseteq Shinglers
    /\ fds \in [Ids -> FileData]
    /\ id_to_fname \in [Lines -> Names]
    /\ overflow \in Seq(0 .. NumFiles)
    /\ missing_files \in Nat /\ max_ngram_files \in Nat
    /\ missing_files + max_ngram_files <= NumFiles
    /\ nodes \in Seq(Ids)

(* When the threads are joined each file has been shingled, by one of them *)
(* and once: it carries the one mark it deserves, and a usable one carries *)
(* its metadata once (run of bgShingleClass, bgShingle).                   *)
EachFileHasItsFate ==
    mpc = "names" /\ i = 0 =>
        \A f \in Ids : /\ fds[f].missing = ~file[f].readable
                        /\ fds[f].hit_ngram_limit = Dense(f)
                        /\ fds[f].have_vals = Good(f)
                        /\ id_to_fname[f] = [file |-> f, meta |-> IF Good(f) THEN 1 ELSE 0]

(* The two loops that close the gaps agree: the number under which the     *)
(* merge sees a file is the line at which the index prints its name, and   *)
(* every usable file is there (main).                                      *)
IdsMatchNames ==
    mpc = "merge" =>
        /\ DOMAIN id_to_fname = 0 .. Len(nodes) - 1
        /\ \A k \in DOMAIN id_to_fname :
              /\ id_to_fname[k] = [file |-> nodes[k + 1], meta |-> 1]
              /\ fds[nodes[k + 1]].id = k
        /\ Range(nodes) = {f \in Ids : Good(f)}
        /\ \A k \in 2 .. Len(nodes) : nodes[k - 1] < nodes[k]

Named(f)      == {k \in DOMAIN overflow : overflow[k] = f}
NamesIn(k)    == {j \in 1 .. k : overflow[j] # Newline}
NewlinesIn(k) == {j \in 1 .. k : overflow[j] = Newline}
LinesOpen(k)  == Cardinality(NamesIn(k)) - Cardinality(NewlinesIn(k))

(* When the threads are joined each file that reached the maximum is named *)
(* once in the overflow file, and no other; and the newlines are there:    *)
(* never one before the name it ends, as many as names in the end, and     *)
(* never more names ahead of them than there are threads.  So each line is *)
(* one name if there is one thread, and no line runs more names together   *)
(* than there are threads (the two calls of fputs in bgShingle).           *)
OverflowIsIntact ==
    mpc = "names" /\ Overflow =>
        /\ \A f \in Ids : Cardinality(Named(f)) = IF Dense(f) THEN 1 ELSE 0
        /\ \A k \in 0 .. Len(overflow) : LinesOpen(k) \in 0 .. Cardinality(Shinglers)
        /\ LinesOpen(Len(overflow)) = 0

(* With the lock-free queue main gets past the shingle threads.            *)
Termination == run_lock_free => <>Ended
=============================================================================

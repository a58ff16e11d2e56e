# BigGrep in TLA+

BigGrep finds the files of a large collection that contain given byte strings. `bgindex` turns a
list of files into an inverted index of their n-grams (3 or 4 bytes); `bgparse` reads one index and
prints the files that have all n-grams of the search strings; `bgverify` looks into those files;
`bgsearch` runs bgparse over many indexes and, if asked, verifies what they print, with a pool of
threads. This directory models the parts of BigGrep that decide something, checks them with TLC on
small instances, and proves for all sizes what matters most: of the two threaded stages of bgindex,
of the merge between them, of the index file they write and how bgparse looks up an n-gram in it, of
the names at its end and the tools that rewrite them, of the codecs, of the way from a search string to
a candidate and of bgverify's search, and of bgsearch's threads.

Paths below are relative to the repository's `src/`, line numbers to the files as they are there.

## 1. The system

| Component | State | Operations | Interaction | What is hard | What makes it correct |
|---|---|---|---|---|---|
| Shingling (`bgindex_th.cpp` 601-842, main 1834-1936) | `shingleQueue`, `shingledone`; per file a `FileData` and an entry of `id_to_fname`; the overflow file | push a file; shingle it: missing, too dense, or its n-grams; close the gaps in names and ids | worker threads share the queue with main and write main's arrays without a lock | main may look only after all are shingled; two loops must agree on the numbering | each file gets its one fate; the id the index holds is the line of the file's name |
| Merge (`LoserTree`, 407-590; loop 1689-1774) | an array of nodes, a position in each file's n-grams | build, repair one path, pop the root, close an n-gram | called by main only | levels of odd size, ties, exhausted files | the sequence sent is the inverted index of the files |
| Compress and write (846-1392, 1650-1793) | two queues, `compressdone`, `writerdone`, two counters, the reorder buffer | send with back-pressure, compress, reorder and write, shut down in order | main, several compress threads and one write thread over two queues | interleaving, shutdown with items still queued, back-pressure over two counters | every n-gram once, in merge order; the header counts them; the program ends |
| Queue (`bgQueue`, 207-267) | items, mutex, condition, `queuedone` | push, try_pop, wait_and_pop, quit | all three stages | lost wakeups | no item slept on, every consumer told of the end |
| Index file (`WriteWorker`, 1076-1390; `bgi_header.hpp`) | header, hints, data region, names | write lists with padding, set hints, finish | read by bgparse, bgdump, bgextractfile at any time | a reader or a crash before the end, a full disk, hints into padding | a finished index answers exactly for the n-grams up to its last list; an accepted one has all its lists and never names a wrong file |
| bgparse (`bgparse.cpp`) | a mapped file, the candidates so far | accept, find an n-gram, narrow | child process of bgsearch | unpadded n-grams, hint widths | the candidates are the files that contain all n-grams |
| Codecs (`PFOR.hpp`, `VarByte.hpp`) | none | encode, decode | compress threads; bgparse, bgdump | exception counts and offsets in narrow fields | decode inverts encode |
| bgverify (`bgverify.cpp`) | none | search each file for all patterns | child process of bgsearch | lengths in an int | exactly the files that contain all patterns |
| bgextractfile, `bg-extract-or-replace-fileids.py`, `bgdump -f` | the names at the end of an index, a text file | remove, replace, copy out and back, list | rewrite an index in place, while bgparse may read it | sizes, padding, compression, a tool killed in the middle | every id keeps the name it should have |
| bgsearch (`biggrep/bgsearch.py`, `bgsearch_jobmanager.py`, the two processors) | queues of search, verify and completed jobs, counts, flags | put a result, hand out a job, report, throttle, limit | main and the dispatcher share the manager without a lock | the loop's condition over changing fields; pauses and resumes; failures | every hit is reported once, and the program exits |
| jobdispatch | per processor two lists under a lock; per engine `live`, `_pause` | dispatch, collect, watch, drain; start and finish a job | dispatcher thread and engine threads | engines that die, results left at the end | no job is lost or done twice |
| Command line, logging, `StrFormat`, stopwatch, tests | | | | | not modelled, see section 7 |

## 2. Modules

    BgQueue ------> IndexPipeline ---INSTANCE---> IndexBuild        (what the stage promises)
       |                   +--- MCIndexPipeline
       +----------> Shingle ------- MCShingle
    Ascending ----> LoserTree ----- MCLoserTree
       +----------> IndexFile ----- MCIndexFile
       +----------> FileIdMap ----- MCFileIdMap
       +----------> Answers ------- MCAnswers                      (with ListCodec, TextSearch)
    JobDispatch --> BgSearch ---INSTANCE---> SearchResults          (what a search promises)
                       +--- MCBgSearch

The proofs: `CommonProofs` (about BgQueue, Ascending, numbers, functions and sequences) is extended by
`IndexPipelineProofs`, `ShingleProofs`, `LoserTreeProofs`, `IndexFileProofs`, `FileIdMapProofs` and
`AnswersProofs`, each of which also extends the module it is about; `BgSearchProofs` stands by itself.

The MC modules extend their module with TLC; `MCBgSearch` also names the settings of a search that
its runs choose from, `MCFileIdMap` the names and replacements. The rest of what distinguishes the
runs is in the `.cfg` files. The stages of bgindex are modelled one by one and meet at their
interfaces: `Shingle` ends with the leaves of the tree, `LoserTree` starts with files that have
n-grams, the sequence that `LoserTree` sends is `0 .. NumNgrams-1` for `IndexPipeline`, the order in
which `IndexPipeline` writes is the order in which `IndexFile` gets its n-grams, and the lines
`IndexFile` ends with are those `FileIdMap` starts with.

**BgQueue**: `bgQueue<T>` as a record (`items`, `quit`, `holder`, `waiters`) and one operator for
what each step of a member function makes of it. `push` is two steps, because it notifies after it
has unlocked; `wait_and_pop` is three (lock and test, sleep or not, pop), because `quit` takes no
lock and can fall between them; `quit` is two (flag, notify_all). Condition variables may wake up
spuriously. `boost::lockfree::queue` is the same record whose `holder` stays `NoThread`.

**IndexPipeline**: `bgCompressAndWrite` and its threads. `mpc`, `cpc[c]` and `wpc` say where main,
a compress thread and the write thread are. Main: `OpenIndex` or `OpenFails`, then for each n-gram
`CheckBacklog` (the comparison of the two counters, `CaughtUp` when the sleep loop ends),
`SendNgram`, `NotifyCompressor`; then `EndMerge`, `QuitCompress`, `WakeCompress`, `JoinCompress`,
`QuitWriter`, `WakeWriter`, `JoinWriter`. A compress thread: `CheckDone`, the pop of its build,
`Compress` (everything bgCompress does, the push to the write queue at its end), `CountCompressed`.
The write thread: the same pop, `InsertNote`, `WriteNext` once for each buffered n-gram that is
due, `CountWritten`, `FinishIndex`. `run_lock_free` (`-L`) chooses between `run` and `runlockfree`;
it is chosen in the initial state, so that one run checks both kinds of queues. The two differ
after `compressdone`, where the one drains with an `if` and the other with a `while`
(`AfterCount`). An n-gram is its `ngram_order`.

**IndexBuild**: the promise: a file that grows by one n-gram at a time in order, and is complete
when the last one is in it. `IndexPipeline!Build` is the refinement mapping: the file is `written`,
complete when the write thread is done.

**Shingle**: main's `PushFile` to `JoinShinglers`, the threads' `FindMissing`, `MapFails` (exit in
the middle), `FindDense`, `PutOverflow` (two stdio calls, two steps), `FindNgrams`, and then main's
`CompactName` and `AssignNode`, one file a step. A file is what bgShingle finds out about it. Here
too `run_lock_free` is chosen in the initial state.

**LoserTree**: `level` gives `build_tree`'s loop variables when it comes to a level of the array,
phantoms included, and `Links` the pairs of nodes it links with their parents; `PlayLeaf` is a turn of
`update_tree_full`; `Merge` is one turn of bgCompressAndWrite's loop: the root's file gives its n-gram,
its position moves on, `update_tree` replays the path to the root, and `Collect` closes the n-gram when
the next one differs.

**IndexFile**: the writer's steps in order: `WriteSpacer`, a `WriteList` per n-gram (the least of
`todo`), `WriteMap`, `RewriteHeader`, `RewriteHints`; each write may be the one that fills the disk
(`MayFail`), and the process may be killed between two of them (`Killed`). Reading is a state
function: `Accepts`, `Lookup`, `Search` say what bgparse makes of the file as it is in that state,
so that every invariant about them is about a reader that comes at any moment.

**FileIdMap**: the region from `fileid_map_offset` on, as a sequence of characters in which the ten
digits of an id are one. bgextractfile: `ExtractFile` reads the map and scans it (`ScanLine`: the
lines it skips, the hits, the count of bytes to pad, the stop after `num_file_search` hits); then
each call of `write` is a step (`Write`: a line, a newline, a NUL), in place. A compressed map goes
out in several writes between which it cannot be read (`StartStream`, `EndStream`). The script:
`ExtractLines`, the user's `EditLines`, `ReplaceLines`, its writes, and the truncation in `Close`.
`Kill` ends a tool between two writes. The readers are state functions again: `FilesOf` and
`Printed` (bgparse's vector of names and what it prints for an id), `Candidate` (bgsearch's parse of
the line), `FileList` (`bgdump -f`), each with the line that `erase` and the increment after it pass
over (`ReadLine`, `ListLine`). `names` and `target` say what the ids should be called before and after
the tool: a string of `-r` is read back as `Candidate` reads it, as a name up to its first comma and
metadata. `NamesAssumption` says what may be in a name: no newline, because bgindex reads a line for
each file; no NUL, because names are printed, and replacements given, as C strings; no comma, because
bgindex opens what is before the first comma of the line and takes the rest for metadata.

**ListCodec** and **TextSearch** are the pure algorithms, as operators: VarByteUInt and PFORUInt bit by
bit, bgCompress's choice between them and bgparse's reading of a list; the n-grams bgindex and bgparse
make of bytes, including what they read beside the array, and bgverify's Horspool search. **Answers**
calls them: `Compress` and `Read` for the ids of one n-gram, or `Shingle`, `Parse` and `Verify` for a
file and a line of search strings. `PFORSettings` says which values of `-b`, `-e` and `-m` the format
can hold.

**Ascending** is `std::sort` on different numbers: `Ordered(S)`, the k-th entry of which is the element
of S with k-1 smaller ones (`Nth`). LoserTree uses it for the sorted n-grams of a file, IndexFile for
the n-grams of a search string, Answers for the offsets bgverify prints, FileIdMap for the places of the
newlines at which the readers split.

**JobDispatch** holds a `Processor` and a `ProcessorEngine` as values, **BgSearch** their threads.
Main: `CheckWorking`, `CheckCompleted`, `CheckCounts` (the loop's condition, each field read in
a step of its own and in this order; `counted` is the candidate count between the last two reads),
`Report`, `Checks` (limit, dispatcher's death, throttle); `Interrupt` is a KeyboardInterrupt at any
point of the loop. The dispatcher: a round over the engines,
for each `Dispatch`, `Collect`, then for each result `StartPut`, `PutCandidate`..., `PutVerified`,
`EndPut` -- putJob in pieces, because main looks at its fields meanwhile -- and `NextThread`
with the watchdog. An engine: `StartJob`, `FinishJob`, `EngineStops`, or `EngineFails`. A candidate
is a position in an index with a fate: hit, miss, filtered out, malformed. The command line's choices
(`verify`, `limit`, `throttleat`) and what is assumed of the instance (which fates occur, whether
engines fail, whether the user interrupts, how many candidates there are) are the record `setting`,
chosen in the initial state.

**SearchResults**: what a search promises its caller, without threads, queues or counters: it hands
over files one at a time, none twice, only ones that passed what was asked for (`Reportable`: after
the limit is exceeded, unverified ones too), nothing after its end, and returns 1 or 2 only for their
reasons. It does not promise that 0 means all: `search_race` shows that it cannot.
`BgSearch!Results` is the refinement mapping.

## 3. Runs

Passing runs:

| Run | Instance | Shows |
|---|---|---|
| pipeline | both kinds of queues, 2 compress threads, 3 n-grams, throttle at 0 | nothing vanishes, nothing is written twice, merge order; no item is slept on; an index that ends early lacks only the end of the merge order, and with the lock-free queues lacks nothing; the throttle always opens again; the lock-free build ends; the stage implements IndexBuild |
| shingle | 4 files of every kind, 2 threads, both builds | each file gets its fate exactly once; the overflow file has the name of each file that reached the maximum once and a newline for each; both gap-closing loops agree; the lock-free build ends |
| losertree | all choices of 2 to 6 files over three n-grams, at most 8 in all | the tree is right at every inner node after every step, phantoms or not, and what is sent is the inverted index |
| indexfile | 16 n-grams of which up to 3 present, hints per n-gram and per 4 | a finished index is accepted and searches in it are exact, but for n-grams behind the last list; whatever is accepted, at any moment, with a full disk or a kill, has all lists and the names, and while its hints are missing gives no file |
| filemap | 2 files named `a` or `bb`, with metadata or not; up to 3 calls of the tools, with replacements that are empty, shorter, as long and longer, or bring metadata of their own; plain and compressed | after any sequence of removals, replacements, copies and edits each id has the name it should have, for bgparse and for bgdump; no piece of an old name stays behind; a reader in the middle, or after a kill, is right for every line already written |
| answers | lists of up to two blocks with up to two exceptions anywhere, and the extremes of the format; all files of up to 6 bytes over two letters, all strings of up to 4 and all pairs of 3 | what bgparse reads is what bgCompress was given; a file that matches is a candidate; bgverify finds exactly the occurrences |
| search | 2 indexes, 2 engines of a kind; plain, with failures, verifying, with a limit of 1 met by hits or by misses, with a throttle that closes and opens, and with one that closes for good until the user interrupts at any moment | no hit is in two places or in none; verification overshoots the limit by one index at most; a search implements SearchResults; unless a thread fails, a search whose loop can get on (`Resumable`) ends, and so does every interrupted one, and the program can exit; it does not wait for a dispatcher that has failed |

Runs that find a disagreement between the code and what it says of itself (section 6):
pipeline_hang, pipeline_lost, indexfile_tail, search_race, search_one.

### Bounds, and why they are enough

- Two consumers of a queue are enough for every order in which items can overtake each other and
  for a wakeup taken by the wrong thread; three n-grams let two be out of order while the third is
  due, and let the drain meet more items than it takes.
- `HaltAbove = ResumeAt = 0` stands for 50000 and 10000: the throttle closes as soon as one
  compressed n-gram is not yet written, and opens when all are.
- Four files (`NumFiles`) give each gap-closing loop a gap of either kind, or of both, before,
  between and behind usable files; `UniqueCounts` has a number below `max_uniq_ngrams` and the
  maximum itself, where a wrong comparison shows; more than the maximum is treated like the maximum.
- Trees of 2 to 6 leaves (`FileCounts`) have 1 to 3 levels, with no phantom, one on the leaves' level
  (3), one higher up (6), and on two levels (5). `MaxTotal` bounds the n-grams of all files together:
  with 8, up to 4 files may have two each, and 6 files still differ in length.
- Four n-gram bits with two trimmed are four prefixes of four n-grams: three lists (`MaxPresent`) can
  be in one prefix, in two, in three, first or last or in the middle of it.
- Three calls (`MaxRuns`) are enough for a map that was padded once and is rewritten again, and for
  the script's copy out and back around a bgextractfile; two ids for a line that moves and one that
  does not. The paths and replacements differ in length both ways (`Paths`, `Metas`,
  `Replacements`), and a replacement may be empty or hold a comma.
- Blocks of 8 with one or two exceptions, one exception more than allowed, exactly full and padded
  blocks, and a second block that fails after the first; 15 exceptions, and values of 15 bits in a
  block of 136, are the most the header and the offsets hold. Two letters suffice for every overlap
  of a string with itself and with another; `Outside` is what lies beside the array.
- Two indexes and two engines per kind have one search finish while another is put, a verifier idle
  while another works, and a job left when parsing is halted. `slack` is the 500 of `throttleat-500`.
  With a `throttleat` of 1 it is 0 in the setting `Throttled`, which stands for every `-t` above 500, and
  1 in `Stopped`, for those up to 500: there parsing that was halted is never resumed, and only the
  user ends the search. `candidates` bounds what one index yields (1 or 2), and
  `totals` says what all may together: anything up to four where the search is plain; with a limit of 1
  four hits, or three misses, which exceed it by as much as can be verified, or before the last index
  is put; under the throttle three, two to halt the parsing and one in the index that is left.

### Deadlock

`CHECK_DEADLOCK FALSE` is said where the modelled program stops in its last state: the pipeline and
shingle stages and the computations of Answers end in a state without successors, the writer of
IndexFile ends or is killed, FileIdMap stops after `MaxRuns` calls or a kill, and in
`search` threads may really remain that nobody wakes once one of them has failed. That a stage does
reach its end is the liveness property of its run. LoserTree has an explicit final step, and its run
checks deadlock.

### Fairness

Threads are operating-system threads: each that can run does, and a mutex that becomes free again
and again is had by whoever waits for it. In IndexPipeline and Shingle that is strong fairness for
each thread (weak fairness would let a waiter lose the mutex for ever, since others take it in
between). No fairness is assumed of spurious wakeups, nor which of a thread's steps it takes. In
BgSearch each thread has weak fairness: CPython hands the interpreter lock round, every lock is
held for one step, and what a thread waits for stays true until it acts. Failing and interrupting
are never fair. LoserTree, IndexFile, FileIdMap and Answers have safety properties only and no
fairness; SearchResults promises no progress (that is `Termination`).

## 4. Proofs

Eight modules hold what TLAPS proves, for every value of the constants that satisfies the named
assumptions of the modelled module. Each follows the same plan: an inductive invariant, a lemma per
process that its steps keep it, and a last step by temporal logic.

### Queues, numbers and functions (CommonProofs)

For the queue: what each step of `bgQueue` keeps of its type and of its lock, and what append and tail do to a
sequence without repetitions seen as a set. The stages' proofs cite these lemmas and never expand the
queue.

The library states induction and recursion for an operator, which none of the provers can be given.
CommonProofs states them for sets and functions instead, where they are first-order: `Induction` (a set
that has 0 and with n also n + 1 has all naturals, from the least element of what is missing, which is
the well-foundedness of < in the library), `MeasureInduction` over anything that has a natural number
for its measure, `Recursion` (a function that makes each value of the one before exists) and
`FallingRecursion` (so does one that makes it of the value at an argument of smaller measure). A function
of the model that is defined by recursion is a CHOOSE over the functions that satisfy its equation;
these lemmas show that there is one, and with that the equation holds. Besides: division, powers of
two, `Ordered` (`OrderedIs`, `OrderedIsOnly`: it is the one ascending enumeration of a finite set of
numbers), and sequences that lie one behind the other in a longer one (`LiesIn`, `Flatten`,
`PartsLie`), which is how the other modules speak of a file and of a stored list.

### Compress and write (IndexPipelineProofs)

For any number of n-grams, any set of compress threads, any thresholds and both builds:

- `TypeCorrect`, `NoNgramLost` (every n-gram main has sent is in exactly one of the compress queue, a
  compress thread, the write queue, the write thread, the reorder buffer and the file) and
  `MergeOrderRestored` (the file is a prefix of the merge order).

  The invariant is `IInv = TypeOK /\ Locking /\ SendBound /\ InOnePlace /\ WrittenInMergeOrder`.
  `Locking` is needed because a thread pops in a later step than the one in which it found an item:
  between them it must hold the mutex, or another could take the item. `SendBound` keeps the type of
  the order main is about to send. `InOnePlace` needs its second half, `NothingTwice`: without it a
  pop could leave the item behind elsewhere. `WrittenInMergeOrder` is inductive given that the
  writer takes the least of its buffer only when it is due (`DueIsFirst`, by the well-foundedness of
  < on the naturals).
- `CutIsAtTheEnd` and `LockFreeLosesNothing`: when bgindex returns, only n-grams that are still in
  the compress queue are missing from the file, the header counts what is in it, and with the
  lock-free queues nothing is missing. The invariant adds `Shutdown` (which flag is set where the
  shutdown of main has come to, and which thread may be done by then), `InOrder` (the compress queue holds the last orders that main has sent, in order,
  so that what is left over in it is the end of the merge order) and `Counting` (the header against the file).
  `LockFreeLosesNothing`, and the two that follow, assume `Compressors # {}`: with `-C 0` bgindex
  starts no compress thread, and the index that results is empty.
- `PipelineImplementsBuild`: every step of the pipeline is a step of IndexBuild or a stutter under
  the refinement mapping, the safety half of `ImplementsIndexBuild`.
- `WorkIsNoticed`: the notify outside of the mutex is enough (`NobodySleepsOnWork`). Its invariant,
  `Sleeping`, adds that a thread on its way to sleep, which still holds the mutex, has an empty queue
  before it.

### Shingling (ShingleProofs)

For any number of files of any kinds, any threads and both builds: `TypeCorrect` (no index leaves its
array), `EveryFileIsJudged`, `NumbersAreLines` and `OverflowStaysIntact`. The invariant has one part for
each phase. While the threads run, `Places` (a file is unsent, in the queue, with one thread, or
judged) carries `Fates` (what is judged is judged right, what is not is untouched); `Locking` and
`Ending` say who may touch the queue and why a thread may leave. At `JoinShinglers` all are judged,
and the loops' part starts: `NamesInv` and `NodesInv` state how far each loop has come in terms of one
function that neither of them computes, the number of usable files before a file -- and that is why
they agree. The lemmas `PlaceGrows` and `PlaceAfter` say how that number grows. `Overflows` follows
the two writes of a line: each name is there once when its file is judged, and the names that have no
newline yet are as many as the threads between their two writes, which bounds how many names a line
runs together (`OverflowIsIntact`) without promising one name a line (section 6). All four assume `Shinglers # {}`: with `-S 0` nothing is shingled, and main
looks at files nobody has judged.

### Merge (LoserTreeProofs)

For any number of files from 2 and any finite set of n-grams, hence trees of any height with phantoms
on any of their levels:

- `NodesHoldTheirFirst`: every node holds the first of the unexhausted files below it, whatever has been
  popped (`EveryNodeHoldsItsFirst`). First the shape: by induction over the levels, a level has half
  the nodes of the one below, padded to an even number, starts behind it, and the last one is the root
  (`HeightIs`); each node is in one `Place`, so that the links `build_tree` makes are those of a tree
  (`TreeIsLinked`) and the ancestors of file f are, level by level, the nodes `Off[k][f]`, f halved k
  times (`AncestorsAre`). Then the play: the left child's files have smaller numbers than the right
  one's, so that the winner of what stands for both is the first of all (`WinnerIsFirst`), and a path
  played again from below is right at each of its nodes if the nodes beside it are (`UpdateHolds`). The
  invariant is `TreeInv(h)`: while the leaves are played, every node is right whose leaves have all
  been (`Holds(h, cur_off, fd, last_fid_popped)`; a leaf's sibling needs no play of its own, having the
  same ancestors, `SiblingsMeet`), afterwards every node is. It is inductive because a pop moves the
  cursor of one file, and only the nodes of its path have that file below them.
- `SendsInOrder`: what is sent is at every moment the beginning of the inverted index, and all of it at
  the end, and `exit(88)` is never reached (`SendsTheInvertedIndex`). The invariant `SendInv` says
  what has been popped, in terms of the current n-gram v and the set F of its files collected so
  far: `Popped(F, cur_off, v)`, in each file exactly the n-grams before v, and v itself if the file
  is in F; F is an initial part of v's files in their order; and the notifications sent are the
  entries of the n-grams before v. The root's file leads (by `TreeInv`), so that the next pop gives
  either the next file of v (`PopSame`), or the first of the next n-gram, and then F is complete
  (`PopComplete`, `PopNext`).

### Index file (IndexFileProofs)

`AcceptedIsComplete`: whatever write fails and whenever bgindex is killed, an index that bgparse
accepts has the list of every n-gram and the names, for any n-gram size, hint width and contents. The
invariant `WritesInOrder` says what is on disk by the time the next thing is written: the header's
offset, which is what bgparse accepts an index by, comes after the lists and the names.

`SearchFindsAll` (`SearchesAreExact`): a finished index is accepted; and on an index that bgparse
accepts, a search gives exactly the files that have all its n-grams if the writer has closed it, and no
file if it is read, or was left by a kill, between the header and the hints. N-grams behind the last
list in the same group are excepted: what is read for them is garbage (`indexfile_tail`).

The walk from the hint is a recursive function of the position, and so is the narrowing of the
candidates; what they return follows by induction. The invariant is
`IInv = WritesInOrder /\ ContentOK /\ Progress /\ Layout`: `Progress` says which n-grams have been
written, an initial part of their order; `Layout` says where: each n-gram up to the last one has a cell,
a list or a zero byte, one behind the other, and the hint of a group is where its first n-gram's cell
is. `Stages` adds when bgparse goes on: not before the header is final, and then with the hints of an
empty index until the writer has closed the file. `SearchNarrows` is about a search over any lists;
`SearchFinds` applies it to those of the files (`LookupFinds`) and to none (`LookupFindsNone`). It needs
`Files` to be finite and `NotInIndex` and `Garbage`, which stand for results that are no list, to
differ from what they mark (`MarksAssumption`).

### The names (FileIdMapProofs)

For any number of files, any names, metadata and replacements that `NamesAssumption` allows, any number
of runs of the tools, plain and compressed: `TypeCorrect`, `NamesStayRight` (`NamesAreAsAsked`),
`NamesThatGoAreGone` (`NoNameIsLeft`) and `TornMapStaysReadable` (`TornMapIsRightUpToTheChange`).

What the readers find says too little about the region to be inductive: a blank line is erased with the
line behind it left as it is, so that two different regions may read the same and yet be scanned and
padded differently by the next tool. The invariant speaks of the region itself. `IsMap(text, ns)`: the
text begins with the lines of the names ns, and newlines and NULs are all that follows. `IInv` says
beside the types:

- between two tools, the region is the map of `names` (`Idle`);
- while a plain map is rewritten, or after a kill (`Writing`), what lies before the position and what is
  still to be written are together the map of `target` (`Coming`); behind the position the old map still
  lies (`Behind`); bgextractfile's writes go as far as the old lines did, so that none of them stays behind
  the new ones, and the script cuts off what is behind its position; and no write begins within a line
  (`Whole`), which makes a region between two writes a region between two lines;
- of a compressed map, the old or the new one is there (`Streaming`), and only a compressed map is `torn`;
- a text file with enough lines has a line for each id (`TxtInv`), whichever tools have run since.

TLC checked `IInv` on the instance of `filemap` before it was proved. The lemmas go from the text to the
names. `SplitIs` and `SplitMap`: splitting a map gives the lines of the names and then lines that are
blank or NULs. `ReadIs`: bgparse and bgdump find the first k names of any text that begins with k lines,
whatever follows, because no line of a name is blank and nothing is passed over before the end of the
names. `ScanFile`, `ScanNULs` and `ScanIs`: the scan renames the lines it should, keeps the others, and
counts at least what the lines have lost, so that the padding covers the old ones. `JoinedMap`, `WritesAre`, `ExtractIs`, `ReplaceIs`, `EditIs`: what
each tool sets out to write is a map of its target. `OverlayIs` and `WriteKeeps`: a write moves one part
from what is to come to what is there. `WrittenIsRead`, `MixedIsRead` and `TornReadIsRight`: a reader in
the middle sees the new lines and then, where nothing has moved, the old ones.

### Answers (AnswersProofs)

For all texts and strings of bytes, all ascending lists of ids, and all options in `PFORSettings`:

- `ContainedIsCandidate`: a file of four bytes or more that contains all search strings, one of which
  is long enough to be looked up, is a candidate (`MatchesAreCandidates`). What lies beside the array
  may make more n-grams of the file, never fewer.
- `SearchIsExact`: bgverify's search names exactly the files with all strings, and with `-o` every
  offset once and in ascending order (`VerifyIsExact`). The argument is the invariant of the Horspool
  loop, as a set of numbers: behind the place looked at lie exactly the occurrences still to be found,
  because a skip passes over none.
- `ListsAreReadBack`: bgparse reads back what bgCompress wrote, and from the size finds the list behind
  it (`ListsReadBack`). From below: a VarByte number is read where it lies in a longer sequence
  (`ReadsAs`), whatever is behind it; bits packed eight to a byte, the values of a group going into one
  byte per bit, are the numbers they were taken from; a block with its lower bits unpacked is right
  except at the exceptions, and decoding the exceptions one by one mends it (how many there are up to a
  place is the induction's measure); blocks follow one another and reading goes on behind each;
  differences sum up to the ids; padding repeats the last id and is dropped. The loops of bgparse over
  the blocks and over the rest are one lemma about a loop that goes from place to place (`Loops`).
  Answers itself is a program that takes an input and computes, so that the invariant, `Progress`,
  says what the results are results of.

They assume that texts and strings consist of bytes and that no string is empty (`BytesAssumption`),
and that lists are ascending and options can be held by the format (`ListsAssumption`; section 6 says
what happens otherwise).

### The search's limit (BgSearchProofs)

`VerifyingStaysLimited`: for any number of indexes, processes and candidates, any limit and any
throttle, with threads that fail and a user who interrupts, at most the candidates of one index more
than the limit are or will be verified. `VerifyingIsLimited` is not inductive. What is: that nothing
waits for verification that is not counted (`ToVerify <= candidate_count`), and that while the limit
has not been noticed, the count together with what is left of the search being put stays within the
bound (`Bound`) -- putJob looks at the limit once, before it counts the search's own candidates, and
does so in the thread that queues them. The types of what the threads hold are needed to know that a
processor's results are of its own kind.

### No candidate lost or reported twice (BgSearchProofs)

`EachHitStaysInOnePlace`: `EachHitIsInOnePlace` for any number of indexes, processes and candidates,
with failing threads and interrupts. `In` is the set of candidates of a place, `Once` says that it
has none twice, `With` that one list of lists has what another has and one job's candidates besides.
Sequences give rise to `With` at either end (`AtTheEnd`, `AtTheBack`, `AtTheFront`, `FirstCandidate`,
`Joined`), all from one lemma (`Split`), and every step of BgSearch is a `Moves` from one place to
another made of two of them (`Handed`, `Dropped`). The invariant `HitInv` adds to the types of
BgSearchProofs that an engine has a job only while it is busy, that what is to be verified is one
candidate (bgverify's answer decides about the whole job), and that the dispatcher has nothing in its
hands between two puts.

### A search keeps its promise (BgSearchProofs)

`SearchImplementsResults`: every step of BgSearch is a step of SearchResults or a stutter, for any
number of indexes, processes and candidates -- `ImplementsSearchResults`, which is all safety. That
no file is reported twice comes from `HitInv`. `FlowInv` adds what the rest needs: `FlowOK`, what may
lie at each place (a search's candidates; one that passes the filter, on its way to verification; after
it, a hit or nothing; in `completed_jobs`, what is reportable); `EndsOK`, that the dispatcher fails over
malformed metadata only and stops only once told to, so that main returns 1 for that reason; and
`CountOK`, that `candidate_count` is at most the number of passing candidates that have left the
searches (`Passing \ NotPut`), so that a limit that is noticed is one that is exceeded and what is
reported unverified afterwards may be. Counting a candidate takes it out of `NotPut` because it is in
no other place (`PutOnce`).

### Only model-checked

Liveness under fairness, and whether an action is enabled, are out of the provers' reach: `Termination`,
`ThrottleEnds`, `FailureEndsSearch` and the liveness half of `ImplementsIndexBuild` stay with TLC. Every
invariant and every safety property of a passing run is a theorem. The violations of section 6 are
counterexamples of TLC.

## 5. Hazards

`PROJECT.json` lists each place where the code could go wrong in a way a test would hardly reach,
with the property that watches it. The groups: queue shutdown and wakeups; draining; the throttle's
counters; names and ids after gaps; the overflow list; phantoms in the tree; padding and hints;
readers and crashes during the final writes; names rewritten in place, shorter or longer, under a
reader, by a tool that dies; lines the readers pass over; the search loop's condition; pauses and
resumes; limit and throttle at their boundaries; interrupts; engines and dispatchers that die.

Four have no property: the shift in `num_hints` and the offsets of blocks above 136 are undefined or
wrong whatever the rest of the program does (section 6 names them); the int lengths of bgverify need
files of 2 GiB; an error of bgparse, and one that never answers, are seen by nobody, so that there is
no promise to state.

## 6. What the model found

These are runs that TLC ends with a counterexample, quoted against the document or comment they
contradict in `PROJECT.json`:

- `quit` sets its flag and notifies without the mutex; a consumer between its test and its wait
  never hears of it and bgindex hangs (pipeline_hang).
- `bgCompressClass::run` drains with an `if`: n-grams left in the queue are not in the index
  (pipeline_lost). `CutOnlyAtTheEnd` says the damage: only the end of the merge order is missing.
- Nothing is padded after the last list, and bgparse walks on into the names (indexfile_tail).
- The search loop can end between the count and the candidates of the last index (search_race);
  `-n 1 -v` waits for ever (search_one).

These were noticed while the code was translated. The models do what the code does, but no run
states the contrary:

- The final header is written before the hints (`bgindex_th.cpp:1378`), although `bgparse.cpp:266`
  takes an offset of 0 for the sign that the index is still being generated: a bgparse in between, or
  after a bgindex killed in between, goes on and finds no file. `SearchesAreExact` says that it finds no
  wrong one.
- Name and newline of the overflow list are two calls of fputs (`bgindex_th.cpp:753`), so that two
  threads can write name, name, newline, newline, which names neither file; `OverflowIsIntact` says how
  far this goes. `-M` rejects a file with exactly the maximum (`:743`), which `bgindex.pod:37` and `:45`
  allow ("Maximum number of unique n-grams allowed per file", "surpass"); `EachFileHasItsFate` and
  `OverflowIsIntact` say what the code does.
- With `-t` from 1 to 500, `throttleat-500` is no number of candidates: parsing that was halted is never
  resumed, and the search waits for ever for the indexes that are left (`biggrep/bgsearch.py:97`).
  `Termination` therefore speaks of searches that are `Resumable` (no verification; or more than one
  process, and no throttle or one above the 500), and of all others from the moment the user
  interrupts.
- putJob looks at the limit once per index, before it counts the index's own candidates
  (`biggrep/bgsearch_jobmanager.py:59`), so that an index with more candidates than the limit never
  halts the search if it is the last: `bgsearch.pod:51` says "Halt search and verify when the number of
  candidates exceeds NUM". `VerifyingIsLimited` is what does hold; after the limit at most unverified
  files may be reported, as SearchResults says.
- Dead engines are not replaced, since the watchdog reads `started` and the engine sets `start`
  (`jobdispatch/jobdispatch.py:111`, `jobdispatch/processor.py:78`). `EachHitIsInOnePlace` says that
  nothing is handed over twice then; nothing is promised of what the engine held.
- With blocks above 136 (`-b 144`) the offset of a value within its block does not fit its uint8_t
  (`PFOR.hpp:362`); above 15 exceptions (`-e 16`) their number does not fit its nybble (`:293`).
  bgindex refuses neither.
- The clean-up of an exhausted file in `pop_node_data` is in a branch that is never taken (`:401`).
- `num_hints` shifts an int by 32 when n is 4 and nothing is trimmed (`bgi_header.hpp:94`).
- With `-C 0` bgindex writes an empty index, with `-S 0` it indexes no file, and reports success.
- bgextractfile stops after as many hits as names were asked for -- after one with `-x`, however often
  it is given -- so that of two ids with the same name only the first is removed, although
  `bgextractfile.pod:20` says "Search for the given file and remove it". It pads more than it has
  removed, so the map only grows, and with a padded map the script finds one line too many: it
  refuses, but has by then overwritten its text file.
- The script knows the versions 2.0 and 2.1 only; for 2.2, a compressed map, it leaves an empty text
  file.
- A search that reads the names during a rewrite may see shifted or torn names, or fewer lines than
  there are ids, and then reads outside of the vector (`bgparse.cpp`, `files[id]`).
  `TornMapIsRightUpToTheChange` says which names are still right.
- A dispatcher that has died is not told to stop its engines when main returns 0 or 2, or when the
  user interrupts: they are no daemon threads, and the program does not exit.
- A dispatcher that dies in its last put leaves the engines running (`biggrep/bgsearch.py:135`).

## 7. Abstractions, and what is not modelled

- `BGAtomicCounter` increments are atomic steps. Memory is sequentially consistent: the unprotected
  flags (`compressdone`, `queuedone`) become visible at once, which is the mildest reading.
- In BgSearch an engine's look at `live` and `_pause` and its pop are one step, and so are the
  pauses and resumes of one turn of main: an engine that was past its look when it was paused does
  one more job, which it might as well have taken before. The dispatcher's append of a candidate and
  the count that follows are one step. Sleeps are left out.
- bgparse and bgverify are processes; BgSearch takes their output as given. A bgparse that fails
  yields no candidates and is not reported by search's result.
- The metadata comparison (`filter_metadata`) is a fate of the candidate. Metrics, status lines and
  YARA (which differs from bgverify in the text appended to the metadata)
  are left out, as are option parsing, configuration files, logging, `StrFormat`, the stopwatch, the
  help texts, the option `-l` of bgparse, debug output, the mock job manager and the test programs.
- An interrupt falls between two of main's steps, not into the middle of one.
- In FileIdMap one tool runs at a time, and a write that fails is left out: bgextractfile logs it and
  goes on. The header that bgdump prints is read as bgparse reads it; its functions on n-grams are
  never called.
- The number of hints is the natural number the code means, not what the shift of an int gives.
- A search for several strings of which some are too short goes on with the others, as in bgparse.
  bgverify's `int` lengths and files it cannot open are left out.
- `WriteWorker::writer` exits when a list's compressed form is not smaller than 2 GiB; the model's
  lists are short.

## 8. Plan

Done: all modules of section 2, their runs, the proofs of section 4. What is left, most useful first:

1. Composition: the pipeline's `written` as the input of `IndexFile`'s writer, and `FileIdMap` after
   it, so that a reader of the whole file is modelled during an extraction.
2. Two tools at once on one index, and failing writes of bgextractfile.
3. Proofs from one stage to the next, once they are composed: that the lines `IndexFile` writes are a
   map in the sense of `IsMap`, and that the lists it holds are those the merge sent.

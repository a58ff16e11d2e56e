--------------------------- MODULE IndexPipeline -----------------------------
(***************************************************************************)
(* bgCompressAndWrite of bgindex_th.cpp with the threads it starts: the    *)
(* main thread merges and sends one notification per n-gram, compress      *)
(* threads take them in any order, and one WriteWorker puts them back in   *)
(* merge order with a reorder buffer and writes them.                      *)
(*                                                                         *)
(* An n-gram is its ngram_order, 0 .. NumNgrams-1; what it compresses to   *)
(* and where it lands in the file is the business of other modules.        *)
(*                                                                         *)
(* run_lock_free, the -L of the command line, chooses for every queue      *)
(* between boost::lockfree::queue (runlockfree) and bgQueue (run).         *)
(***************************************************************************)
EXTENDS BgQueue, FiniteSetsExt, Functions

CONSTANTS
    Compressors,   \* the compress threads
    Writer,        \* the write thread
    NumNgrams,     \* unique n-grams the merge produces
    HaltAbove,     \* backlog at which main stops sending (50000 in the code)
    ResumeAt       \* backlog at which it goes on (10000 in the code)

ASSUME NumNgramsAssumption  == NumNgrams \in Nat
ASSUME BacklogAssumption    == HaltAbove \in Nat /\ ResumeAt \in Nat
ASSUME ThreadsAssumption    == /\ Writer \notin Compressors
                               /\ NoThread \notin Compressors \cup {Writer}

VARIABLES
    run_lock_free,     \* the kind of the queues, an option of the run
    mpc,               \* where the main thread is in bgCompressAndWrite
    sent,              \* total_unique_ngrams
    failed,            \* writer->error
    compressQ,         \* compressQueue / compressLockQueue
    writeQ,            \* writeQueue / writeLockQueue
    compressdone, writerdone,
    cpc,               \* where each compress thread is in run
    cnote,             \* the order of the notification it holds
    wpc,               \* where the write thread is in run and writer
    wnote,             \* the order of the notification it holds
    draining,          \* threads that have left their main loop
    write_buffer,      \* the keys of _write_buffer
    next_ngram,        \* _next_ngram_counter
    written,           \* the orders written to _index_dat
    compress_counter, write_counter,
    num_ngrams         \* header.num_ngrams

mainVars  == <<mpc, sent, failed, compressdone, writerdone>>
compVars  == <<cpc, cnote, compress_counter>>
writeVars == <<wpc, wnote, write_buffer, next_ngram, written, write_counter, num_ngrams>>
vars == <<run_lock_free, mainVars, compressQ, writeQ, compVars, writeVars, draining>>

Threads == Compressors \cup {Writer}
Orders  == 0 .. NumNgrams - 1

Init ==
    /\ run_lock_free \in BOOLEAN
    /\ mpc = "open" /\ sent = 0 /\ failed = FALSE
    /\ compressQ = EmptyQueue /\ writeQ = EmptyQueue
    /\ compressdone = FALSE /\ writerdone = FALSE
    /\ cpc = [c \in Compressors |-> "loop"]
    /\ cnote = [c \in Compressors |-> 0]
    /\ wpc = "unstarted" /\ wnote = 0
    /\ draining = {}
    /\ write_buffer = {} /\ next_ngram = 0 /\ written = <<>>
    /\ compress_counter = 0 /\ write_counter = 0 /\ num_ngrams = 0

-----------------------------------------------------------------------------
(* The main thread *)

unchangedByMain == <<run_lock_free, compVars, draining>>

(* new WriteWorker opens the file, and its thread starts *)
OpenIndex ==
    /\ mpc = "open"
    /\ mpc' = "merge" /\ wpc' = "loop"
    /\ UNCHANGED <<unchangedByMain, sent, failed, compressdone, writerdone, compressQ,
                   writeQ, wnote, write_buffer, next_ngram, written, write_counter, num_ngrams>>

(* writer->error: stop the compress threads, which already run, and exit(1) *)
OpenFails ==
    /\ mpc = "open"
    /\ failed' = TRUE /\ compressdone' = TRUE
    /\ mpc' = IF run_lock_free THEN "joinCompress" ELSE "quitCompress"
    /\ UNCHANGED <<unchangedByMain, sent, writerdone, compressQ, writeQ, writeVars>>

(* An n-gram is ready; before any but the last is sent the backlog is checked *)
CheckBacklog ==
    /\ mpc = "merge" /\ sent < NumNgrams
    /\ mpc' = IF sent + 1 < NumNgrams /\ compress_counter > write_counter + HaltAbove
              THEN "throttled" ELSE "send"
    /\ UNCHANGED <<unchangedByMain, sent, failed, compressdone, writerdone, compressQ,
                   writeQ, writeVars>>

(* the usleep loop ends *)
CaughtUp ==
    /\ mpc = "throttled"
    /\ compress_counter <= write_counter + ResumeAt
    /\ mpc' = "send"
    /\ UNCHANGED <<unchangedByMain, sent, failed, compressdone, writerdone, compressQ,
                   writeQ, writeVars>>

(* Mutant of SendNgram: total_unique_ngrams counts before it names the n-gram *)
SendNextOrder ==
    /\ mpc = "send" /\ IsFree(compressQ)
    /\ compressQ' = Pushed(compressQ, sent + 1)
    /\ sent' = sent + 1
    /\ mpc' = IF run_lock_free THEN "merge" ELSE "notify"
    /\ UNCHANGED <<unchangedByMain, failed, compressdone, writerdone, writeQ,
                   writeVars>>

SendNgram ==
    /\ mpc = "send"
    /\ IsFree(compressQ)
    /\ compressQ' = Pushed(compressQ, sent)
    /\ sent' = sent + 1
    /\ mpc' = IF run_lock_free THEN "merge" ELSE "notify"
    /\ UNCHANGED <<unchangedByMain, failed, compressdone, writerdone, writeQ,
                   writeVars>>

NotifyCompressor ==
    /\ mpc = "notify"
    /\ compressQ' \in OneWoken(compressQ)
    /\ mpc' = "merge"
    /\ UNCHANGED <<unchangedByMain, sent, failed, compressdone, writerdone, writeQ,
                   writeVars>>

EndMerge ==
    /\ mpc = "merge" /\ sent = NumNgrams
    /\ compressdone' = TRUE
    /\ mpc' = IF run_lock_free THEN "joinCompress" ELSE "quitCompress"
    /\ UNCHANGED <<unchangedByMain, sent, failed, writerdone, compressQ, writeQ,
                   writeVars>>

(* compressLockQueue.quit() *)
QuitCompress ==
    /\ mpc = "quitCompress"
    /\ compressQ' = QuitSet(compressQ)
    /\ mpc' = "wakeCompress"
    /\ UNCHANGED <<unchangedByMain, sent, failed, compressdone, writerdone, writeQ,
                   writeVars>>

WakeCompress ==
    /\ mpc = "wakeCompress"
    /\ compressQ' = AllWoken(compressQ)
    /\ mpc' = "joinCompress"
    /\ UNCHANGED <<unchangedByMain, sent, failed, compressdone, writerdone, writeQ,
                   writeVars>>

(* Mutant of JoinCompress: the writer is told to end without join_all *)
GoOnWithoutJoin ==
    /\ mpc = "joinCompress"
    /\ writerdone' = ~failed
    /\ mpc' = IF failed THEN "exit1" ELSE IF run_lock_free THEN "joinWriter" ELSE "quitWriter"
    /\ UNCHANGED <<unchangedByMain, sent, failed, compressdone, compressQ, writeQ,
                   writeVars>>

(* Mutant of JoinCompress: writerdone is forgotten *)
JoinOnly ==
    /\ mpc = "joinCompress"
    /\ \A c \in Compressors : cpc[c] = "done"
    /\ mpc' = IF failed THEN "exit1" ELSE IF run_lock_free THEN "joinWriter" ELSE "quitWriter"
    /\ UNCHANGED <<unchangedByMain, sent, failed, compressdone, writerdone, compressQ,
                   writeQ, writeVars>>

(* threadpool.join_all() returns, then writerdone = true *)
JoinCompress ==
    /\ mpc = "joinCompress"
    /\ \A c \in Compressors : cpc[c] = "done"
    /\ IF failed
       THEN mpc' = "exit1" /\ UNCHANGED writerdone
       ELSE /\ writerdone' = TRUE
            /\ mpc' = IF run_lock_free THEN "joinWriter" ELSE "quitWriter"
    /\ UNCHANGED <<unchangedByMain, sent, failed, compressdone, compressQ, writeQ,
                   writeVars>>

(* writeLockQueue.quit() *)
QuitWriter ==
    /\ mpc = "quitWriter"
    /\ writeQ' = QuitSet(writeQ)
    /\ mpc' = "wakeWriter"
    /\ UNCHANGED <<unchangedByMain, sent, failed, compressdone, writerdone, compressQ,
                   writeVars>>

WakeWriter ==
    /\ mpc = "wakeWriter"
    /\ writeQ' = AllWoken(writeQ)
    /\ mpc' = "joinWriter"
    /\ UNCHANGED <<unchangedByMain, sent, failed, compressdone, writerdone, compressQ,
                   writeVars>>

(* write_thread->join() returns *)
JoinWriter ==
    /\ mpc = "joinWriter" /\ wpc = "done"
    /\ mpc' = "exit0"
    /\ UNCHANGED <<unchangedByMain, sent, failed, compressdone, writerdone, compressQ,
                   writeQ, writeVars>>

Main == \/ OpenIndex \/ OpenFails \/ CheckBacklog \/ CaughtUp \/ SendNgram
        \/ NotifyCompressor \/ EndMerge \/ QuitCompress \/ WakeCompress
        \/ JoinCompress \/ QuitWriter \/ WakeWriter \/ JoinWriter

-----------------------------------------------------------------------------
(* A compress thread: run when ~run_lock_free, else runlockfree *)

unchangedByCompressor == <<run_lock_free, mainVars, writeVars>>

(* while (!compressdone) *)
CheckDone(c) ==
    /\ cpc[c] = "loop"
    /\ IF compressdone
       THEN cpc' = [cpc EXCEPT ![c] = "drain"] /\ draining' = draining \cup {c}
       ELSE cpc' = [cpc EXCEPT ![c] = "take"] /\ UNCHANGED draining
    /\ UNCHANGED <<unchangedByCompressor, compressQ, writeQ, cnote, compress_counter>>

(* wait_and_pop: lock and evaluate the predicate, or come back from wait *)
LockCompressQ(c) ==
    /\ ~run_lock_free /\ cpc[c] = "take"
    /\ CanLock(compressQ, c)
    /\ compressQ' = Locked(compressQ, c)
    /\ cpc' = [cpc EXCEPT ![c] = IF MustWait(compressQ) THEN "sleep" ELSE "pop"]
    /\ UNCHANGED <<unchangedByCompressor, writeQ, cnote, compress_counter, draining>>

SleepCompressQ(c) ==
    /\ cpc[c] = "sleep"
    /\ compressQ' = Slept(compressQ, c)
    /\ cpc' = [cpc EXCEPT ![c] = "take"]
    /\ UNCHANGED <<unchangedByCompressor, writeQ, cnote, compress_counter, draining>>

(* A queue that quits gives NULL, whatever is still in it *)
PopCompressQ(c) ==
    /\ cpc[c] = "pop"
    /\ IF compressQ.quit
       THEN /\ compressQ' = Released(compressQ)
            /\ cpc' = [cpc EXCEPT ![c] = "loop"]
            /\ UNCHANGED cnote
       ELSE /\ compressQ' = Popped(compressQ)
            /\ cpc' = [cpc EXCEPT ![c] = "compress"]
            /\ cnote' = [cnote EXCEPT ![c] = Head(compressQ.items)]
    /\ UNCHANGED <<unchangedByCompressor, writeQ, compress_counter, draining>>

(* The pops that do not block: the lock-free ones of both loops, and the   *)
(* try_pop after the loop.                                                 *)
TryPop(c, whenEmpty) ==
    IF compressQ.items = <<>>
    THEN /\ cpc' = [cpc EXCEPT ![c] = whenEmpty]
         /\ UNCHANGED <<compressQ, cnote>>
    ELSE /\ compressQ' = Popped(compressQ)
         /\ cpc' = [cpc EXCEPT ![c] = "compress"]
         /\ cnote' = [cnote EXCEPT ![c] = Head(compressQ.items)]

PopLockFree(c) ==
    /\ run_lock_free /\ cpc[c] = "take"
    /\ TryPop(c, "loop")
    /\ UNCHANGED <<unchangedByCompressor, writeQ, compress_counter, draining>>

DrainCompressQ(c) ==
    /\ cpc[c] = "drain"
    /\ IsFree(compressQ)
    /\ TryPop(c, "done")
    /\ UNCHANGED <<unchangedByCompressor, writeQ, compress_counter, draining>>

(* bgCompress, which ends with a push to the write queue *)
Compress(c) ==
    /\ cpc[c] = "compress"
    /\ IsFree(writeQ)
    /\ writeQ' = Pushed(writeQ, cnote[c])
    /\ cpc' = [cpc EXCEPT ![c] = IF run_lock_free THEN "count" ELSE "notify"]
    /\ UNCHANGED <<unchangedByCompressor, compressQ, cnote, compress_counter, draining>>

NotifyWriter(c) ==
    /\ cpc[c] = "notify"
    /\ writeQ' \in OneWoken(writeQ)
    /\ cpc' = [cpc EXCEPT ![c] = "count"]
    /\ UNCHANGED <<unchangedByCompressor, compressQ, cnote, compress_counter, draining>>

(* Mutant of AfterCount: one try_pop after the loop in both builds *)
DrainOnce(c) == IF c \in draining THEN "done" ELSE IF run_lock_free THEN "take" ELSE "loop"

(* ++compress_counter, and back to the loop the note was popped in: the    *)
(* drain is a loop in runlockfree and a single if in run.                  *)
AfterCount(c) ==
    IF c \in draining THEN IF run_lock_free THEN "drain" ELSE "done"
                      ELSE IF run_lock_free THEN "take" ELSE "loop"

CountCompressed(c) ==
    /\ cpc[c] = "count"
    /\ compress_counter' = compress_counter + 1
    /\ cpc' = [cpc EXCEPT ![c] = AfterCount(c)]
    /\ UNCHANGED <<unchangedByCompressor, compressQ, writeQ, cnote, draining>>

Compressor(c) ==
    \/ CheckDone(c) \/ LockCompressQ(c) \/ SleepCompressQ(c) \/ PopCompressQ(c)
    \/ PopLockFree(c) \/ DrainCompressQ(c) \/ Compress(c) \/ NotifyWriter(c)
    \/ CountCompressed(c)

-----------------------------------------------------------------------------
(* The write thread: run and writer of WriteWorker *)

unchangedByWriter == <<run_lock_free, mainVars, compVars, compressQ>>

CheckWriterDone ==
    /\ wpc = "loop"
    /\ IF writerdone
       THEN wpc' = "drain" /\ draining' = draining \cup {Writer}
       ELSE wpc' = "take" /\ UNCHANGED draining
    /\ UNCHANGED <<unchangedByWriter, writeQ, wnote, write_buffer, next_ngram, written,
                   write_counter, num_ngrams>>

LockWriteQ ==
    /\ ~run_lock_free /\ wpc = "take"
    /\ CanLock(writeQ, Writer)
    /\ writeQ' = Locked(writeQ, Writer)
    /\ wpc' = IF MustWait(writeQ) THEN "sleep" ELSE "pop"
    /\ UNCHANGED <<unchangedByWriter, wnote, write_buffer, next_ngram, written,
                   write_counter, num_ngrams, draining>>

SleepWriteQ ==
    /\ wpc = "sleep"
    /\ writeQ' = Slept(writeQ, Writer)
    /\ wpc' = "take"
    /\ UNCHANGED <<unchangedByWriter, wnote, write_buffer, next_ngram, written,
                   write_counter, num_ngrams, draining>>

PopWriteQ ==
    /\ wpc = "pop"
    /\ IF writeQ.quit
       THEN writeQ' = Released(writeQ) /\ wpc' = "loop" /\ UNCHANGED wnote
       ELSE writeQ' = Popped(writeQ) /\ wpc' = "insert" /\ wnote' = Head(writeQ.items)
    /\ UNCHANGED <<unchangedByWriter, write_buffer, next_ngram, written,
                   write_counter, num_ngrams, draining>>

TryPopWriteQ(whenEmpty) ==
    IF writeQ.items = <<>>
    THEN wpc' = whenEmpty /\ UNCHANGED <<writeQ, wnote>>
    ELSE writeQ' = Popped(writeQ) /\ wpc' = "insert" /\ wnote' = Head(writeQ.items)

PopWriteLockFree ==
    /\ run_lock_free /\ wpc = "take"
    /\ TryPopWriteQ("loop")
    /\ UNCHANGED <<unchangedByWriter, write_buffer, next_ngram, written,
                   write_counter, num_ngrams, draining>>

(* the loop after writerdone, a while in both builds *)
DrainWriteQ ==
    /\ wpc = "drain"
    /\ IsFree(writeQ)
    /\ TryPopWriteQ("finish")
    /\ UNCHANGED <<unchangedByWriter, write_buffer, next_ngram, written,
                   write_counter, num_ngrams, draining>>

(* _write_buffer[ngram_order] = write_data *)
InsertNote ==
    /\ wpc = "insert"
    /\ write_buffer' = write_buffer \cup {wnote}
    /\ wpc' = "flush"
    /\ UNCHANGED <<unchangedByWriter, writeQ, wnote, next_ngram, written,
                   write_counter, num_ngrams, draining>>

(* Mutant of FirstIsDue: the first entry of the buffer, due or not *)
SomethingIsBuffered == write_buffer # {}

(* while (keepwriting): the first key of the map goes to the file when it  *)
(* is the next one due                                                     *)
FirstIsDue == write_buffer # {} /\ Min(write_buffer) = next_ngram

WriteNext ==
    /\ wpc = "flush" /\ FirstIsDue
    /\ written' = Append(written, Min(write_buffer))
    /\ write_buffer' = write_buffer \ {Min(write_buffer)}
    /\ next_ngram' = next_ngram + 1
    /\ UNCHANGED <<unchangedByWriter, writeQ, wpc, wnote, write_counter, num_ngrams, draining>>

StopWriting ==
    /\ wpc = "flush" /\ ~FirstIsDue
    /\ wpc' = "count"
    /\ UNCHANGED <<unchangedByWriter, writeQ, wnote, write_buffer, next_ngram, written,
                   write_counter, num_ngrams, draining>>

(* Mutant of AfterWrite: one try_pop after the loop *)
WriterDrainsOnce ==
    IF Writer \in draining THEN "finish" ELSE IF run_lock_free THEN "take" ELSE "loop"
AfterWrite ==
    IF Writer \in draining THEN "drain" ELSE IF run_lock_free THEN "take" ELSE "loop"

(* Mutant of Counted: ++write_counter is forgotten *)
NotCounted == write_counter
Counted == write_counter + 1

(* ++write_counter, which main compares with compress_counter *)
CountWritten ==
    /\ wpc = "count"
    /\ write_counter' = Counted
    /\ wpc' = AfterWrite
    /\ UNCHANGED <<unchangedByWriter, writeQ, wnote, write_buffer, next_ngram, written,
                   num_ngrams, draining>>

(* the header gets its final values *)
FinishIndex ==
    /\ wpc = "finish"
    /\ num_ngrams' = write_counter
    /\ wpc' = "done"
    /\ UNCHANGED <<unchangedByWriter, writeQ, wnote, write_buffer, next_ngram, written,
                   write_counter, draining>>

WriteThread ==
    \/ CheckWriterDone \/ LockWriteQ \/ SleepWriteQ \/ PopWriteQ \/ PopWriteLockFree
    \/ DrainWriteQ \/ InsertNote \/ WriteNext \/ StopWriting \/ CountWritten
    \/ FinishIndex

-----------------------------------------------------------------------------
SpuriousWakeup ==
    /\ \/ compressQ' \in Spurious(compressQ) /\ UNCHANGED writeQ
       \/ writeQ' \in Spurious(writeQ) /\ UNCHANGED compressQ
    /\ UNCHANGED <<run_lock_free, mainVars, compVars, writeVars, draining>>

(* bgindex has returned from main or left through exit(1) *)
Ended == mpc \in {"exit0", "exit1"}

Next == \/ Main
        \/ \E c \in Compressors : Compressor(c)
        \/ WriteThread
        \/ SpuriousWakeup

Spec == Init /\ [][Next]_vars

(* The scheduler runs every thread that can run again and again, and a     *)
(* mutex that is free again and again is had by each thread that wants it. *)
Fairness == /\ SF_vars(Main)
            /\ \A c \in Compressors : SF_vars(Compressor(c))
            /\ SF_vars(WriteThread)

FairSpec == Spec /\ Fairness

-----------------------------------------------------------------------------
(* Properties *)

MainPCs == {"open", "merge", "throttled", "send", "notify", "quitCompress", "wakeCompress",
            "joinCompress", "quitWriter", "wakeWriter", "joinWriter", "exit0", "exit1"}
CompressorPCs == {"loop", "take", "sleep", "pop", "drain", "compress", "notify", "count", "done"}
WriterPCs == {"unstarted", "loop", "take", "sleep", "pop", "drain", "insert", "flush", "count",
              "finish", "done"}

(* Every variable has its type; the orders in the queues, in the reorder   *)
(* buffer and in the file are orders that main has sent.                   *)
TypeOK ==
    /\ run_lock_free \in BOOLEAN
    /\ mpc \in MainPCs
    /\ sent \in 0 .. NumNgrams
    /\ failed \in BOOLEAN /\ compressdone \in BOOLEAN /\ writerdone \in BOOLEAN
    /\ compressQ \in QueueOf(Orders, Compressors)
    /\ writeQ \in QueueOf(Orders, {Writer})
    /\ cpc \in [Compressors -> CompressorPCs]
    /\ cnote \in [Compressors -> Nat]
    /\ wpc \in WriterPCs
    /\ wnote \in Nat
    /\ draining \subseteq Threads
    /\ write_buffer \subseteq Orders
    /\ next_ngram \in Nat
    /\ written \in Seq(Orders)
    /\ compress_counter \in Nat /\ write_counter \in Nat /\ num_ngrams \in Nat

(* Where the orders that main has sent can be *)
BeingCompressed == {cnote[c] : c \in {d \in Compressors : cpc[d] = "compress"}}
BeingInserted   == IF wpc = "insert" THEN {wnote} ELSE {}
IsWritten       == 0 .. next_ngram - 1

(* What is sent to the compress queue is found again, whatever the threads *)
(* do: an order is queued, held by a compress thread, queued to the writer,*)
(* held by the writer, in its reorder buffer or in the file ...            *)
NothingVanishes ==
    0 .. sent - 1 = Range(compressQ.items) \cup BeingCompressed \cup Range(writeQ.items)
                    \cup BeingInserted \cup write_buffer \cup IsWritten

(* ... and in one of these places only, once: no n-gram is compressed or   *)
(* written twice.                                                          *)
NothingTwice ==
    /\ IsInjective(compressQ.items) /\ IsInjective(writeQ.items)
    /\ \A c, d \in Compressors :
          cpc[c] = "compress" /\ cpc[d] = "compress" /\ cnote[c] = cnote[d] => c = d
    /\ Range(compressQ.items) \cap (BeingCompressed \cup Range(writeQ.items)
                    \cup BeingInserted \cup write_buffer \cup IsWritten) = {}
    /\ BeingCompressed \cap (Range(writeQ.items)
                    \cup BeingInserted \cup write_buffer \cup IsWritten) = {}
    /\ Range(writeQ.items) \cap (BeingInserted \cup write_buffer \cup IsWritten) = {}
    /\ BeingInserted \cap (write_buffer \cup IsWritten) = {}
    /\ write_buffer \cap IsWritten = {}

InOnePlace == NothingVanishes /\ NothingTwice

(* The compress threads finish in any order, and yet the file holds the    *)
(* n-grams in merge order with none left out in between (writer).          *)
WrittenInMergeOrder ==
    /\ Len(written) = next_ngram
    /\ \A i \in 1 .. Len(written) : written[i] = i - 1

(* push notifies outside the lock, and that is enough: all the threads a   *)
(* queue has sleep on it only while it is empty or the notify is about to  *)
(* come (push, wait_and_pop).                                              *)
NobodySleepsOnWork ==
    /\ compressQ.items # <<>> /\ Compressors \subseteq compressQ.waiters => mpc = "notify"
    /\ writeQ.items # <<>> /\ Writer \in writeQ.waiters => \E c \in Compressors : cpc[c] = "notify"

(* When bgindex returns, nothing is left between the compress queue and    *)
(* the file: what the index lacks is what no compress thread took, and that*)
(* is the end of the merge order, so the reorder buffer waits for nothing  *)
(* and the header counts what is in the file (run of both classes).        *)
CutOnlyAtTheEnd ==
    mpc = "exit0" => /\ writeQ.items = <<>> /\ write_buffer = {}
                     /\ num_ngrams = Len(written)
                     /\ Len(written) + Len(compressQ.items) = NumNgrams

(* With the lock-free queues a build that succeeds holds every n-gram, and *)
(* its header says how many (runlockfree drains the compress queue).       *)
LockFreeIsComplete ==
    run_lock_free /\ mpc = "exit0" => Len(written) = NumNgrams /\ num_ngrams = NumNgrams

(* bgindex reports total_unique_ngrams as "%u unique ngrams total", and    *)
(* doc/INDEX_DETAILS.txt says the header field num_ngrams is the "# of     *)
(* unique N-Grams in the index": the two agree when it returns.            *)
ReportedNgramsAreIndexed == mpc = "exit0" => num_ngrams = sent

(* Main never sleeps on the throttle for ever: the writer catches up.      *)
ThrottleEnds == mpc = "throttled" ~> mpc = "send"

(* "waiting for compress & write threads to finish..." comes to an end     *)
(* (bgCompressAndWrite).                                                   *)
BuildEnds == <>Ended

(* It does with the lock-free queues, which have nobody to wake.           *)
Termination == run_lock_free => BuildEnds

(* The pipeline implements IndexBuild, with either kind of queues: the file*)
(* grows by one n-gram at a time in merge order, and with the lock-free    *)
(* ones it is finished only when it is complete, which it becomes.         *)
Build == INSTANCE IndexBuild WITH
            lossless <- run_lock_free,
            index    <- written,
            status   <- IF mpc = "exit1" THEN "failed"
                        ELSE IF wpc = "done" THEN "complete" ELSE "building"

ImplementsIndexBuild == Build!FairSpec
=============================================================================

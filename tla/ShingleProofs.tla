---------------------------- MODULE ShingleProofs ----------------------------
(***************************************************************************)
(* Proofs about Shingle for any number of files of every kind, any set of  *)
(* shingle threads but the empty one (-S 0 shingles nothing), both kinds   *)
(* of queues and any limit.                                                *)
(***************************************************************************)
EXTENDS Shingle, CommonProofs

USE NumFilesAssumption, OptionsAssumption

Shingling == mpc \in {"push", "notify", "quit", "wake", "join"}
Closing   == mpc \in {"names", "nodes", "merge", "exit0", "exit1"}

(* As in IndexPipelineProofs: who has the mutex, and that a thread goes to *)
(* pop only for an item or because of quit.                                *)
Locking ==
    /\ \A s \in Shinglers : /\ spc[s] \in {"sleep", "pop"} => shingleQ.holder = s
                            /\ spc[s] = "pop" => shingleQ.items # <<>> \/ shingleQ.quit
    /\ run_lock_free => IsFree(shingleQ)

(* The threads end only when nothing is queued or will be. *)
Ending ==
    /\ Shingling => (shingledone <=> mpc \notin {"push", "notify"})
    /\ Shingling /\ shingledone => i = NumFiles
    /\ \A s \in Shinglers : /\ s \in draining => shingledone
                            /\ spc[s] \in {"drain", "done"} => s \in draining
                            /\ spc[s] = "done" => shingleQ.items = <<>>
    /\ Closing => \A s \in Shinglers : spc[s] = "done"

(* What has become of a file *)
Untouched(f) ==
    /\ ~fds[f].missing /\ ~fds[f].hit_ngram_limit /\ ~fds[f].have_vals
    /\ id_to_fname[f] = [file |-> f, meta |-> 0]

Marked(f) ==
    /\ fds[f].missing = ~file[f].readable
    /\ fds[f].hit_ngram_limit = Dense(f)
    /\ fds[f].have_vals = Good(f)
    /\ file[f].readable => file[f].mappable

Judged(f) ==
    Marked(f) /\ id_to_fname[f] = [file |-> f, meta |-> IF Good(f) THEN 1 ELSE 0]

(* Where a file is that has not been judged *)
Shingled(s) == spc[s] = "shingle"
Waiting(f) ==
    \/ f >= i
    \/ f \in Range(shingleQ.items)
    \/ \E s \in Shinglers : Shingled(s) /\ snote[s] = f

InHand(s) == spc[s] \in {"shingle", "putname"}

(* A file is queued, or with one thread, or has been judged. *)
Places ==
    /\ Range(shingleQ.items) \subseteq 0 .. i - 1 /\ IsInjective(shingleQ.items)
    /\ \A s \in Shinglers : InHand(s) => /\ snote[s] \in 0 .. i - 1
                                         /\ snote[s] \notin Range(shingleQ.items)
    /\ \A s, t \in Shinglers : InHand(s) /\ InHand(t) /\ snote[s] = snote[t] => s = t

Fates == \A f \in Ids : (Waiting(f) => Untouched(f)) /\ (~Waiting(f) => Judged(f))

ShingleInv == Shingling => Places /\ Fates
-----------------------------------------------------------------------------
(* Types, the mutex and the end of the threads: kept by main ... *)
Basics == TypeOK /\ Locking /\ Ending

LEMMA KindFacts ==
    ASSUME TypeOK, NEW f \in Ids
    PROVE  /\ file[f].readable \in BOOLEAN /\ file[f].mappable \in BOOLEAN
           /\ file[f].mappable => file[f].readable
           /\ file[f].unique \in Nat
  BY DEF TypeOK, Kinds

LEMMA MainBasics ==
    ASSUME Basics, Main, mpc \notin {"names", "nodes"}
    PROVE  Basics'
<1>. USE DEF Basics, TypeOK, Locking, Ending, Shingling, Closing, MainPCs, IsFree,
             input, thread, results, counts
<1>l. Lines = Ids /\ Lines' = Ids
  BY DEF Main, PushFile, NotifyShingler, EndPush, QuitShingle, JoinShinglers, CompactName,
         NamesDone, AssignNode, NodesDone, Lines, Ids
<1>1. CASE PushFile
  <2>1. i \in Ids /\ i + 1 \in 0 .. NumFiles
    BY <1>1 DEF PushFile, Ids
  <2>2. Pushed(shingleQ, i) \in QueueOf(Ids, Shinglers)
        /\ Pushed(shingleQ, i).holder = shingleQ.holder /\ Pushed(shingleQ, i).items # <<>>
    BY <2>1, QueuePush
  <2>. QED  BY <1>1, <1>l, <2>1, <2>2 DEF PushFile
<1>2. CASE NotifyShingler
  <2>1. /\ shingleQ' \in QueueOf(Ids, Shinglers) /\ shingleQ'.holder = shingleQ.holder
        /\ shingleQ'.items = shingleQ.items /\ shingleQ'.quit = shingleQ.quit
    BY <1>2, QueueWake DEF NotifyShingler
  <2>2. TypeOK'  BY <1>l, <1>2, <2>1 DEF NotifyShingler
  <2>3. Locking'  BY <1>2, <2>1 DEF NotifyShingler
  <2>4. Ending'  BY <1>2, <2>1 DEF NotifyShingler
  <2>. QED  BY <2>2, <2>3, <2>4
<1>3. CASE EndPush  BY <1>l, <1>3 DEF EndPush
<1>4. CASE QuitShingle
  <2>1. /\ shingleQ' \in QueueOf(Ids, Shinglers) /\ shingleQ'.holder = shingleQ.holder
        /\ shingleQ'.items = shingleQ.items /\ (shingleQ.quit => shingleQ'.quit)
    BY <1>4, QueueQuit DEF QuitShingle
  <2>2. TypeOK'  BY <1>l, <1>4, <2>1 DEF QuitShingle
  <2>3. Locking'  BY <1>4, <2>1 DEF QuitShingle
  <2>4. Ending'  BY <1>4, <2>1 DEF QuitShingle
  <2>. QED  BY <2>2, <2>3, <2>4
<1>5. CASE JoinShinglers  BY <1>l, <1>5 DEF JoinShinglers
<1>. QED
  BY <1>1, <1>2, <1>3, <1>4, <1>5 DEF Main, CompactName, NamesDone, AssignNode, NodesDone

LEMMA ShingleQSteps ==
    ASSUME TypeOK
    PROVE  /\ Released(shingleQ) \in QueueOf(Ids, Shinglers)
           /\ Released(shingleQ).holder = NoThread
           /\ Released(shingleQ).items = shingleQ.items
           /\ Released(shingleQ).quit = shingleQ.quit
           /\ shingleQ.items # <<>> =>
                /\ Popped(shingleQ) \in QueueOf(Ids, Shinglers)
                /\ Popped(shingleQ).holder = NoThread
                /\ Popped(shingleQ).items = Tail(shingleQ.items)
                /\ Head(shingleQ.items) \in Ids
<1>1. shingleQ \in QueueOf(Ids, Shinglers)  BY DEF TypeOK
<1>2. ASSUME shingleQ.items # <<>>
      PROVE  /\ Popped(shingleQ) \in QueueOf(Ids, Shinglers)
             /\ Popped(shingleQ).holder = NoThread
             /\ Popped(shingleQ).items = Tail(shingleQ.items)
             /\ Head(shingleQ.items) \in Ids
  BY <1>1, <1>2, QueuePop
<1>. QED  BY <1>1, <1>2, QueueRelease

(* ... and by the shingle threads *)
LEMMA ShinglerBasics ==
    ASSUME Basics, ShingleInv, Shingling, NEW s \in Shinglers, Shingler(s)
    PROVE  Basics'
<1>. USE DEF Basics, Shingling, Closing, IsFree, mainVars, input, thread, results, counts, Goto
<1>l. Lines = Ids
  BY DEF Lines
<1>0. /\ shingleQ \in QueueOf(Ids, Shinglers) /\ spc \in [Shinglers -> ShinglerPCs]
      /\ Ids \subseteq Nat /\ mpc # "exit14" /\ id_to_fname \in [Ids -> Names]
  BY <1>l DEF TypeOK, Ids
<1>i. mpc' \in {mpc, "exit14"} => Lines' = Ids
  BY DEF Lines, Ids
<1>1. CASE CheckDone(s)
  <2>1. TypeOK'  BY <1>l, <1>i, <1>1 DEF CheckDone, TypeOK, ShinglerPCs
  <2>2. Locking'  BY <1>0, <1>1 DEF CheckDone, Locking
  <2>3. Ending'  BY <1>0, <1>1 DEF CheckDone, Ending
  <2>. QED  BY <2>1, <2>2, <2>3
<1>2. CASE WaitAndPop(s)
  <2>1. CASE /\ ~run_lock_free /\ spc[s] = "take" /\ CanLock(shingleQ, s)
             /\ shingleQ' = Locked(shingleQ, s) /\ Goto(s, IF MustWait(shingleQ) THEN "sleep" ELSE "pop")
             /\ UNCHANGED snote
    <3>1. /\ shingleQ' \in QueueOf(Ids, Shinglers) /\ shingleQ'.holder = s
          /\ shingleQ'.items = shingleQ.items /\ shingleQ'.quit = shingleQ.quit
      BY <1>0, <2>1, QueueControl
    <3>2. TypeOK'  BY <1>l, <1>i, <1>2, <2>1, <3>1 DEF WaitAndPop, TypeOK, ShinglerPCs
    <3>3. \A t \in Shinglers : spc[t] \notin {"sleep", "pop"}
      BY <2>1, ThreadsAssumption DEF Locking, CanLock
    <3>4. Locking'  BY <1>0, <1>2, <2>1, <3>1, <3>3 DEF WaitAndPop, Locking, MustWait
    <3>5. Ending'  BY <1>0, <1>2, <2>1, <3>1 DEF WaitAndPop, Ending
    <3>. QED  BY <3>2, <3>4, <3>5
  <2>2. CASE spc[s] = "sleep" /\ shingleQ' = Slept(shingleQ, s) /\ Goto(s, "take") /\ UNCHANGED snote
    <3>1. /\ shingleQ' \in QueueOf(Ids, Shinglers) /\ shingleQ'.holder = NoThread
          /\ shingleQ'.items = shingleQ.items /\ shingleQ'.quit = shingleQ.quit
      BY <1>0, <2>2, QueueControl
    <3>2. TypeOK'  BY <1>l, <1>i, <1>2, <2>2, <3>1 DEF WaitAndPop, TypeOK, ShinglerPCs
    <3>3. \A t \in Shinglers \ {s} : spc[t] \notin {"sleep", "pop"}
      BY <2>2 DEF Locking
    <3>4. Locking'  BY <1>0, <1>2, <2>2, <3>1, <3>3 DEF WaitAndPop, Locking
    <3>5. Ending'  BY <1>0, <1>2, <2>2, <3>1 DEF WaitAndPop, Ending
    <3>. QED  BY <3>2, <3>4, <3>5
  <2>3. CASE /\ spc[s] = "pop" /\ shingleQ.quit /\ shingleQ' = Released(shingleQ)
             /\ Goto(s, "loop") /\ UNCHANGED snote
    <3>1. /\ shingleQ' \in QueueOf(Ids, Shinglers) /\ shingleQ'.holder = NoThread
          /\ shingleQ'.items = shingleQ.items /\ shingleQ'.quit = shingleQ.quit
      BY <2>3, ShingleQSteps
    <3>2. TypeOK'  BY <1>l, <1>i, <1>2, <2>3, <3>1 DEF WaitAndPop, TypeOK, ShinglerPCs
    <3>3. \A t \in Shinglers \ {s} : spc[t] \notin {"sleep", "pop"}
      BY <2>3 DEF Locking
    <3>4. Locking'  BY <1>0, <1>2, <2>3, <3>1, <3>3 DEF WaitAndPop, Locking
    <3>5. Ending'  BY <1>0, <1>2, <2>3, <3>1 DEF WaitAndPop, Ending
    <3>. QED  BY <3>2, <3>4, <3>5
  <2>4. CASE /\ spc[s] = "pop" /\ ~shingleQ.quit /\ shingleQ' = Popped(shingleQ)
             /\ snote' = [snote EXCEPT ![s] = Head(shingleQ.items)] /\ Goto(s, "shingle")
    <3>0. shingleQ.items # <<>>
      BY <2>4 DEF Locking
    <3>1. /\ shingleQ' \in QueueOf(Ids, Shinglers) /\ shingleQ'.holder = NoThread
          /\ Head(shingleQ.items) \in Nat
      BY <1>0, <2>4, <3>0, ShingleQSteps
    <3>2. TypeOK'  BY <1>l, <1>i, <1>2, <2>4, <3>1 DEF WaitAndPop, TypeOK, ShinglerPCs
    <3>3. \A t \in Shinglers \ {s} : spc[t] \notin {"sleep", "pop"}
      BY <2>4 DEF Locking
    <3>4. Locking'  BY <1>0, <1>2, <2>4, <3>1, <3>3 DEF WaitAndPop, Locking
    <3>5. Ending'  BY <1>0, <1>2, <2>4, <3>0 DEF WaitAndPop, Ending
    <3>. QED  BY <3>2, <3>4, <3>5
  <2>. QED  BY <1>2, <2>1, <2>2, <2>3, <2>4 DEF WaitAndPop
<1>3. CASE TryPop(s)
  <2>1. /\ IsFree(shingleQ) /\ mpc' = mpc /\ shingledone' = shingledone /\ i' = i
        /\ run_lock_free' = run_lock_free
    BY <1>3 DEF TryPop, Locking
  <2>2. \A t \in Shinglers : spc[t] \notin {"sleep", "pop"}
    BY <2>1, ThreadsAssumption DEF Locking
  <2>3. CASE shingleQ.items = <<>>
    <3>1. TypeOK'  BY <1>l, <1>i, <1>3, <2>3 DEF TryPop, TypeOK, ShinglerPCs
    <3>2. Locking'  BY <1>0, <1>3, <2>1, <2>2, <2>3 DEF TryPop, Locking
    <3>3. Ending'  BY <1>0, <1>3, <2>1, <2>3 DEF TryPop, Ending
    <3>. QED  BY <3>1, <3>2, <3>3
  <2>4. CASE shingleQ.items # <<>>
    <3>1. /\ shingleQ' \in QueueOf(Ids, Shinglers) /\ shingleQ'.holder = NoThread
          /\ Head(shingleQ.items) \in Nat
      BY <1>0, <1>3, <2>4, ShingleQSteps DEF TryPop
    <3>2. TypeOK'  BY <1>l, <1>i, <1>3, <2>4, <3>1 DEF TryPop, TypeOK, ShinglerPCs
    <3>3. Locking'  BY <1>0, <1>3, <2>2, <2>4, <3>1 DEF TryPop, Locking
    <3>4. Ending'  BY <1>0, <1>3, <2>1, <2>4 DEF TryPop, Ending
    <3>. QED  BY <3>2, <3>3, <3>4
  <2>. QED  BY <2>3, <2>4
<1>4. CASE MapFails(s)
  <2>1. TypeOK'  BY <1>l, <1>i, <1>4 DEF MapFails, TypeOK, MainPCs
  <2>2. Locking'  BY <1>4 DEF MapFails, Locking
  <2>3. Ending'  BY <1>4 DEF MapFails, Ending
  <2>. QED  BY <2>1, <2>2, <2>3
<1>5. ASSUME NEW f \in Ids, f = snote[s], spc[s] = "shingle"
      PROVE  Untouched(f)
  BY <1>5 DEF ShingleInv, Fates, Waiting, Shingled
<1>6. spc[s] \in {"shingle", "putname"} => snote[s] \in Ids
  BY DEF ShingleInv, Places, InHand, TypeOK, Ids
<1>7. CASE FindMissing(s) \/ FindDense(s) \/ PutOverflow(s) \/ FindNgrams(s) \/ NextNote(s)
  <2>1. /\ UNCHANGED <<input, mpc, i, shingledone, counts, nodes, shingleQ, snote, draining>>
        /\ \E pc \in {"next", "putname", "putnewline", "loop", "take", "drain"} :
              Goto(s, pc) /\ (pc = "drain" => s \in draining)
    BY <1>7 DEF FindMissing, FindDense, PutOverflow, FindNgrams, NextNote, AfterNote
  <2>2. fds' \in [Ids -> FileData]
    <3>1. CASE PutOverflow(s) \/ NextNote(s)
      BY <3>1 DEF PutOverflow, NextNote, TypeOK
    <3>2. CASE FindMissing(s)
      BY <1>6, <3>2 DEF FindMissing, TypeOK, FileData
    <3>3. CASE FindDense(s)
      BY <1>6, <3>3 DEF FindDense, TypeOK, FileData
    <3>4. CASE FindNgrams(s)
      BY <1>6, <3>4 DEF FindNgrams, TypeOK, FileData
    <3>. QED  BY <1>7, <3>1, <3>2, <3>3, <3>4
  <2>3. id_to_fname' \in [Ids -> Names]
    <3>1. CASE FindNgrams(s)
      <4>1. snote[s] \in Ids /\ id_to_fname[snote[s]] = [file |-> snote[s], meta |-> 0]
        BY <1>5, <1>6, <3>1 DEF FindNgrams, Untouched
      <4>. QED  BY <1>0, <3>1, <4>1 DEF FindNgrams, Names
    <3>2. CASE ~FindNgrams(s)
      BY <1>0, <1>7, <3>2 DEF FindMissing, FindDense, PutOverflow, NextNote
    <3>. QED  BY <3>1, <3>2
  <2>4. overflow' \in Seq(0 .. NumFiles)
    <3>1. NumFiles \in 0 .. NumFiles /\ Ids \subseteq 0 .. NumFiles
      BY DEF Ids
    <3>2. overflow \in Seq(0 .. NumFiles)
      BY DEF TypeOK
    <3>3. CASE PutOverflow(s)
      <4>1. PICK x \in 0 .. NumFiles : overflow' = Append(overflow, x)
        BY <1>6, <3>1, <3>3 DEF PutOverflow, Newline
      <4>. QED  BY <3>2, <4>1
    <3>. QED
      BY <1>7, <3>2, <3>3 DEF FindMissing, FindDense, FindNgrams, NextNote
  <2>5. TypeOK'
    BY <1>l, <1>i, <2>1, <2>2, <2>3, <2>4 DEF TypeOK, ShinglerPCs
  <2>6. Locking'  BY <1>0, <2>1 DEF Locking
  <2>7. Ending'  BY <1>0, <2>1 DEF Ending
  <2>. QED  BY <2>5, <2>6, <2>7
<1>. QED  BY <1>1, <1>2, <1>3, <1>4, <1>7 DEF Shingler

LEMMA WakeupBasics ==
    ASSUME Basics, SpuriousWakeup
    PROVE  Basics'
<1>1. /\ shingleQ' \in QueueOf(Ids, Shinglers) /\ shingleQ'.holder = shingleQ.holder
      /\ shingleQ'.items = shingleQ.items /\ shingleQ'.quit = shingleQ.quit
  BY QueueWake DEF Basics, TypeOK, SpuriousWakeup
<1>. USE DEF Basics, SpuriousWakeup, mainVars, input, thread, results, counts
<1>l. Lines' = Lines  BY DEF Lines, total_files
<1>2. TypeOK'  BY <1>1, <1>l DEF TypeOK
<1>3. Locking'  BY <1>1 DEF Locking, IsFree
<1>4. Ending'  BY <1>1 DEF Ending, Shingling, Closing
<1>. QED  BY <1>2, <1>3, <1>4

-----------------------------------------------------------------------------
(* Each file is shingled by one thread and once *)

(* A step that gives no thread a file and judges none *)
LEMMA NoFileMoves ==
    ASSUME ShingleInv, Shingling, i' = i, shingleQ'.items = shingleQ.items,
           UNCHANGED <<file, fds, id_to_fname>>,
           \A t \in Shinglers : /\ InHand(t)' => InHand(t) /\ snote'[t] = snote[t]
                                /\ Shingled(t)' <=> Shingled(t)
    PROVE  ShingleInv'
<1>1. Places'
  BY DEF ShingleInv, Places
<1>2. \A t \in Shinglers : Shingled(t) => snote'[t] = snote[t]
  BY DEF Shingled, InHand
<1>3. \A f \in Ids : Waiting(f)' <=> Waiting(f)
  BY <1>2 DEF Waiting
<1>4. \A f \in Ids : (Untouched(f)' <=> Untouched(f)) /\ (Judged(f)' <=> Judged(f))
  BY DEF Untouched, Judged, Marked, Dense, Good, Usable, TooDense
<1>. QED  BY <1>1, <1>3, <1>4 DEF ShingleInv, Fates

(* main queues the next one *)
LEMMA PushKeepsFates ==
    ASSUME TypeOK, ShingleInv, PushFile
    PROVE  ShingleInv'
<1>1. /\ shingleQ.items \in Seq(Ids) /\ i \in Ids /\ i' = i + 1 /\ i \in Nat
      /\ shingleQ'.items = Append(shingleQ.items, i)
      /\ UNCHANGED <<file, fds, id_to_fname, spc, snote>> /\ Shingling
  BY DEF TypeOK, QueueOf, PushFile, Pushed, Ids, Shingling, input, thread, results
<1>2. /\ Range(shingleQ'.items) = Range(shingleQ.items) \cup {i}
      /\ i \notin Range(shingleQ.items) /\ IsInjective(shingleQ.items) => IsInjective(shingleQ'.items)
  BY <1>1, AppendInSeq
<1>3. Places'
  BY <1>1, <1>2 DEF ShingleInv, Places, InHand
<1>4. \A f \in Ids : Waiting(f)' <=> Waiting(f)
  BY <1>1, <1>2 DEF Waiting, Shingled, Ids
<1>5. \A f \in Ids : (Untouched(f)' <=> Untouched(f)) /\ (Judged(f)' <=> Judged(f))
  BY <1>1 DEF Untouched, Judged, Marked, Dense, Good, Usable, TooDense
<1>. QED  BY <1>1, <1>3, <1>4, <1>5 DEF ShingleInv, Fates

(* a thread takes the first one *)
LEMMA TakeKeepsFates ==
    ASSUME TypeOK, ShingleInv, Shingling, NEW s \in Shinglers, ~InHand(s),
           shingleQ.items # <<>>, shingleQ' = Popped(shingleQ),
           snote' = [snote EXCEPT ![s] = Head(shingleQ.items)],
           spc' = [spc EXCEPT ![s] = "shingle"],
           UNCHANGED <<i, file, fds, id_to_fname>>
    PROVE  ShingleInv'
<1>. DEFINE h == Head(shingleQ.items)
<1>1. /\ shingleQ.items \in Seq(Ids) /\ shingleQ'.items = Tail(shingleQ.items)
      /\ spc \in [Shinglers -> ShinglerPCs] /\ snote \in [Shinglers -> Nat]
  BY ShingleQSteps DEF TypeOK, QueueOf
<1>2. /\ Range(shingleQ.items) = Range(shingleQ'.items) \cup {h}
      /\ IsInjective(shingleQ.items) => IsInjective(shingleQ'.items) /\ h \notin Range(shingleQ'.items)
  BY <1>1, TailInSeq
<1>. HIDE DEF h
<1>3. /\ snote'[s] = h /\ Shingled(s)' /\ InHand(s)'
      /\ \A t \in Shinglers \ {s} : /\ snote'[t] = snote[t] /\ (InHand(t)' <=> InHand(t))
                                    /\ (Shingled(t)' <=> Shingled(t))
  BY <1>1 DEF h, Shingled, InHand
<1>4. Places'
  BY <1>2, <1>3 DEF ShingleInv, Places
<1>5. ~Shingled(s)
  BY DEF Shingled, InHand
<1>6. \A f \in Ids : Waiting(f)' <=> Waiting(f)
  BY <1>2, <1>3, <1>5 DEF Waiting
<1>7. \A f \in Ids : (Untouched(f)' <=> Untouched(f)) /\ (Judged(f)' <=> Judged(f))
  BY DEF Untouched, Judged, Marked, Dense, Good, Usable, TooDense
<1>. QED  BY <1>4, <1>6, <1>7 DEF ShingleInv, Fates

(* and judges it *)
LEMMA JudgeKeepsFates ==
    ASSUME TypeOK, ShingleInv, Shingling, NEW s \in Shinglers,
           FindMissing(s) \/ FindDense(s) \/ FindNgrams(s)
    PROVE  ShingleInv'
<1>1. /\ spc[s] = "shingle" /\ shingleQ' = shingleQ
      /\ UNCHANGED <<i, file, snote>>
      /\ \E pc \in {"next", "putname"} : spc' = [spc EXCEPT ![s] = pc]
  BY DEF FindMissing, FindDense, FindNgrams, mainVars, input, Goto
<1>p. PICK f0 \in Ids : f0 = snote[s]
  BY <1>1 DEF TypeOK, ShingleInv, Places, InHand, Ids
<1>2. /\ Shingled(s) /\ InHand(s) /\ f0 \in Ids /\ f0 = snote[s] /\ snote[s] = f0
      /\ f0 < i /\ f0 \notin Range(shingleQ.items)
  BY <1>1, <1>p DEF TypeOK, ShingleInv, Places, InHand, Shingled, Ids
<1>3. Waiting(f0) /\ Untouched(f0)
  BY <1>2 DEF Waiting, ShingleInv, Fates
<1>4. /\ ~Shingled(s)' /\ (InHand(s)' => InHand(s))
      /\ \A t \in Shinglers \ {s} :
            (InHand(t)' <=> InHand(t)) /\ (Shingled(t)' <=> Shingled(t))
  BY <1>1, <1>2 DEF TypeOK, InHand, Shingled
<1>a. /\ i' = i /\ snote' = snote /\ shingleQ' = shingleQ
  BY <1>1
<1>b. \A t \in Shinglers : Shingled(t)' => t \in Shinglers \ {s} /\ Shingled(t)
  BY <1>4
<1>c. \A t \in Shinglers : InHand(t)' => InHand(t)
  BY <1>4
<1>5. Places'
  BY <1>a, <1>c DEF ShingleInv, Places
<1>6. ~Waiting(f0)'
  <2>1. \A t \in Shinglers : Shingled(t)' => t # s /\ InHand(t) /\ snote[t] # f0
    BY <1>2, <1>b DEF ShingleInv, Places, Shingled, InHand
  <2>. QED  BY <1>1, <1>2, <2>1 DEF Waiting, TypeOK, Ids
<1>7. \A f \in Ids \ {f0} : Waiting(f)' <=> Waiting(f)
  <2>1. \A t \in Shinglers \ {s} : Shingled(t)' <=> Shingled(t)
    BY <1>4
  <2>. QED  BY <1>2, <1>a, <1>b, <2>1 DEF Waiting
<1>8. \A f \in Ids \ {f0} : fds'[f] = fds[f] /\ id_to_fname'[f] = id_to_fname[f]
  BY <1>2 DEF FindMissing, FindDense, FindNgrams, TypeOK, Lines, Shingling
<1>9. \A f \in Ids \ {f0} : (Untouched(f)' <=> Untouched(f)) /\ (Judged(f)' <=> Judged(f))
  BY <1>1, <1>8 DEF Untouched, Judged, Marked, Dense, Good, Usable, TooDense
<1>10. Judged(f0)'
  <2>0. /\ fds \in [Ids -> FileData] /\ id_to_fname \in [Ids -> Names]
        /\ file[f0].readable \in BOOLEAN /\ file[f0].mappable \in BOOLEAN
        /\ file[f0].mappable => file[f0].readable
    BY <1>2, KindFacts DEF TypeOK, Lines, Shingling
  <2>1. CASE FindMissing(s)
    BY <1>1, <1>2, <1>3, <2>0, <2>1
    DEF FindMissing, FileData, Untouched, Judged, Marked, Dense, Good, Usable, TooDense
  <2>2. CASE FindDense(s)
    BY <1>1, <1>2, <1>3, <2>0, <2>2
    DEF FindDense, FileData, Untouched, Judged, Marked, Dense, Good, Usable, TooDense
  <2>3. CASE FindNgrams(s)
    <3>1. /\ fds'[f0].have_vals = TRUE /\ fds'[f0].missing = fds[f0].missing
          /\ fds'[f0].hit_ngram_limit = fds[f0].hit_ngram_limit
      BY <1>2, <2>0, <2>3 DEF FindNgrams, FileData
    <3>2. id_to_fname[f0] = [file |-> f0, meta |-> 0]
      BY <1>3 DEF Untouched
    <3>3. id_to_fname'[f0] = [file |-> f0, meta |-> 1]
      BY <1>2, <2>0, <2>3, <3>2 DEF FindNgrams, Names
    <3>4. Usable(f0) /\ ~TooDense(f0)
      BY <1>2, <2>3 DEF FindNgrams
    <3>. QED
      BY <1>1, <1>3, <2>0, <3>1, <3>3, <3>4
      DEF FileData, Untouched, Judged, Marked, Dense, Good, Usable, TooDense
  <2>. QED  BY <2>1, <2>2, <2>3
<1>11. ASSUME NEW f \in Ids PROVE (Waiting(f)' => Untouched(f)') /\ (~Waiting(f)' => Judged(f)')
  <2>1. CASE f = f0  BY <1>6, <1>10, <2>1
  <2>2. CASE f # f0  BY <1>7, <1>9, <2>2 DEF ShingleInv, Fates
  <2>. QED  BY <2>1, <2>2
<1>. QED  BY <1>5, <1>11 DEF ShingleInv, Fates, Ids

-----------------------------------------------------------------------------
(* The place of a file among the usable ones *)
Earlier(k) == {f \in Ids : f < k /\ Good(f)}
Place(k)   == Cardinality(Earlier(k))

LEMMA EarlierIsFinite ==
    ASSUME NEW k \in 0 .. NumFiles
    PROVE  IsFiniteSet(Earlier(k)) /\ Place(k) \in Nat /\ Place(k) <= k
<1>. DEFINE last == k - 1
<1>1. 0 \in Int /\ last \in Int /\ k \in Nat
  OBVIOUS
<1>2. IsFiniteSet(0 .. last) /\ Cardinality(0 .. last) = k
  <2>. HIDE DEF last
  <2>1. IsFiniteSet(0 .. last) /\ Cardinality(0 .. last) = IF 0 > last THEN 0 ELSE last - 0 + 1
    BY <1>1, FS_Interval
  <2>. QED  BY <1>1, <2>1 DEF last
<1>3. Earlier(k) \subseteq 0 .. last
  BY DEF Earlier, Ids
<1>. QED  BY <1>2, <1>3, FS_Subset, FS_CardinalityType DEF Place

(* The place of a usable file is before that of any later one. *)
LEMMA PlaceGrows ==
    ASSUME NEW f \in 0 .. NumFiles, NEW g \in 0 .. NumFiles
    PROVE  /\ f <= g => Place(f) <= Place(g)
           /\ f < g /\ Good(f) => Place(f) < Place(g)
<1>0. /\ IsFiniteSet(Earlier(f)) /\ IsFiniteSet(Earlier(g))
      /\ Place(f) \in Nat /\ Place(g) \in Nat
  BY EarlierIsFinite
<1>1. ASSUME f <= g PROVE Place(f) <= Place(g)
  <2>1. Earlier(f) \subseteq Earlier(g)
    BY <1>1 DEF Earlier, Ids
  <2>. QED  BY <1>0, <2>1, FS_Subset DEF Place
<1>2. ASSUME f < g, Good(f) PROVE Place(f) < Place(g)
  <2>1. Earlier(f) \cup {f} \subseteq Earlier(g) /\ f \notin Earlier(f)
    BY <1>2 DEF Earlier, Ids
  <2>2. Cardinality(Earlier(f) \cup {f}) = Place(f) + 1
    BY <1>0, <2>1, FS_AddElement DEF Place
  <2>3. Cardinality(Earlier(f) \cup {f}) <= Place(g)
    BY <1>0, <2>1, FS_Subset DEF Place
  <2>. QED  BY <1>0, <2>2, <2>3
<1>. QED  BY <1>1, <1>2

LEMMA PlaceAfter ==
    ASSUME NEW k \in Ids
    PROVE  /\ Place(0) = 0
           /\ Good(k) => Place(k + 1) = Place(k) + 1
           /\ ~Good(k) => Place(k + 1) = Place(k)
<1>1. Place(0) = 0
  <2>1. Earlier(0) = {}  BY DEF Earlier, Ids
  <2>. QED  BY <2>1, FS_EmptySet DEF Place
<1>2. IsFiniteSet(Earlier(k))
  BY EarlierIsFinite DEF Ids
<1>3. ASSUME Good(k) PROVE Place(k + 1) = Place(k) + 1
  <2>1. Earlier(k + 1) = Earlier(k) \cup {k} /\ k \notin Earlier(k)
    BY <1>3 DEF Earlier, Ids
  <2>. QED  BY <1>2, <2>1, FS_AddElement DEF Place
<1>4. ASSUME ~Good(k) PROVE Place(k + 1) = Place(k)
  <2>1. Earlier(k + 1) = Earlier(k)
    BY <1>4 DEF Earlier, Ids
  <2>. QED  BY <2>1 DEF Place
<1>. QED  BY <1>1, <1>3, <1>4

-----------------------------------------------------------------------------
(* The two loops of main *)
dropped == missing_files + max_ngram_files

Marks == Closing => \A f \in Ids : Marked(f)

Untallied == Shingling => missing_files = 0 /\ max_ngram_files = 0 /\ nodes = <<>>

(* the first one moves the name of a usable file to its place ... *)
NamesInv ==
    mpc = "names" =>
        /\ dropped = i - Place(i) /\ nodes = <<>>
        /\ \A f \in Ids : f >= i =>
              id_to_fname[f] = [file |-> f, meta |-> IF Good(f) THEN 1 ELSE 0]
        /\ \A f \in Ids : f < i /\ Good(f) => id_to_fname[Place(f)] = [file |-> f, meta |-> 1]

(* ... and the second one gives the file the number of that place. *)
NodesInv ==
    mpc \in {"nodes", "merge", "exit0"} =>
        /\ dropped = NumFiles - Place(NumFiles)
        /\ mpc # "nodes" => i = NumFiles
        /\ \A f \in Ids : Good(f) => id_to_fname[Place(f)] = [file |-> f, meta |-> 1]
        /\ Len(nodes) = Place(i)
        /\ \A f \in Ids : f < i /\ Good(f) => nodes[Place(f) + 1] = f /\ fds[f].id = Place(f)
        /\ \A k \in 1 .. Len(nodes) : /\ Good(nodes[k]) /\ nodes[k] < i
                                      /\ Place(nodes[k]) = k - 1

ClosingInv == Marks /\ Untallied /\ NamesInv /\ NodesInv

(* They depend on the files and their marks only. *)
LEMMA ClosingFrame ==
    ASSUME file' = file
    PROVE  /\ \A f : Good(f)' <=> Good(f)
           /\ fds' = fds => \A f : Marked(f)' <=> Marked(f)
           /\ \A k : Place(k)' = Place(k)
<1>1. \A f : (Good(f)' <=> Good(f)) /\ (fds' = fds => (Marked(f)' <=> Marked(f)))
  BY DEF Good, Marked, Dense, Usable, TooDense
<1>2. \A k : Earlier(k)' = Earlier(k)
  BY DEF Earlier, Good, Dense, Usable, TooDense
<1>. QED  BY <1>1, <1>2 DEF Place

(* When the threads are joined all is judged. *)
LEMMA JoinJudges ==
    ASSUME Shinglers # {}, Basics, ShingleInv, ClosingInv, JoinShinglers
    PROVE  ClosingInv'
<1>1. /\ i = NumFiles /\ i' = 0 /\ Shingling /\ mpc' = "names"
      /\ shingleQ.items = <<>> /\ \A s \in Shinglers : spc[s] = "done"
      /\ UNCHANGED <<file, fds, id_to_fname, missing_files, max_ngram_files, nodes>>
  BY DEF JoinShinglers, Basics, Ending, Shingling, input, results, counts
<1>2. \A f \in Ids : ~Waiting(f)
  BY <1>1 DEF Waiting, Shingled, Range, Ids
<1>3. \A f \in Ids : Judged(f)
  BY <1>1, <1>2 DEF ShingleInv, Fates
<1>4. Marks'
  BY <1>1, <1>3, ClosingFrame DEF Marks, Judged
<1>5. NamesInv'
  <2>1. missing_files = 0 /\ max_ngram_files = 0 /\ nodes = <<>>
    BY <1>1 DEF ClosingInv, Untallied
  <2>2. Place(i)' = 0
    <3>1. Earlier(i)' = {}  BY <1>1 DEF Earlier, Ids
    <3>. QED  BY <3>1, FS_EmptySet DEF Place
  <2>3. dropped' = i' - Place(i)'
    BY <1>1, <2>1, <2>2 DEF dropped
  <2>4. \A f \in Ids : id_to_fname'[f] = [file |-> f, meta |-> IF Good(f)' THEN 1 ELSE 0]
    BY <1>1, <1>3, ClosingFrame DEF Judged
  <2>5. \A f \in Ids : ~(f < i')
    BY <1>1 DEF Ids
  <2>. QED  BY <1>1, <2>1, <2>3, <2>4, <2>5 DEF NamesInv
<1>6. Untallied' /\ NodesInv'
  BY <1>1 DEF Untallied, NodesInv, Shingling
<1>. QED  BY <1>4, <1>5, <1>6 DEF ClosingInv

(* The first loop: where a name is written no name that is still needed is. *)
LEMMA CompactKeepsPlaces ==
    ASSUME Basics, ClosingInv, CompactName
    PROVE  Basics' /\ ClosingInv'
<1>0. /\ mpc = "names" /\ mpc' = "names" /\ i' = i + 1 /\ i \in Ids /\ NumFiles \in Nat
      /\ UNCHANGED <<input, shingleQ, shingledone, thread, fds, overflow, nodes>>
      /\ file' = file
  BY DEF CompactName, Basics, TypeOK, Ids, input
<1>p. PICK n \in Ids : n = i
  BY <1>0
<1>1. /\ mpc = "names" /\ mpc' = "names" /\ i = n /\ i' = n + 1 /\ n \in Nat /\ n < NumFiles
      /\ n + 1 \in 0 .. NumFiles /\ n \in 0 .. NumFiles /\ Ids \subseteq Nat
  BY <1>0, <1>p DEF Ids
<1>2. /\ id_to_fname \in [Ids -> Names] /\ fds \in [Ids -> FileData]
      /\ missing_files \in Nat /\ max_ngram_files \in Nat
  BY <1>1 DEF Basics, TypeOK, Lines
<1>3. /\ dropped = n - Place(n) /\ nodes = <<>>
      /\ \A f \in Ids : f >= n =>
            id_to_fname[f] = [file |-> f, meta |-> IF Good(f) THEN 1 ELSE 0]
      /\ \A f \in Ids : f < n /\ Good(f) => id_to_fname[Place(f)] = [file |-> f, meta |-> 1]
      /\ \A f \in Ids : Marked(f)
  BY <1>1 DEF ClosingInv, NamesInv, Marks, Closing
<1>4. /\ Place(n) \in Nat /\ Place(n) <= n /\ Place(n + 1) \in Nat
      /\ \A f \in Ids : Place(f) \in Nat /\ Place(f) <= f
  BY <1>1, EarlierIsFinite DEF Ids
<1>5. \A f \in Ids : f < n /\ Good(f) => Place(f) < Place(n) /\ Place(f) < n
  <2>1. \A f \in Ids : f < n /\ Good(f) => Place(f) < Place(n)
    BY <1>1, PlaceGrows DEF Ids
  <2>. QED  BY <1>1, <1>4, <2>1
<1>6. \A f : (Good(f)' <=> Good(f)) /\ (Marked(f)' <=> Marked(f)) /\ Place(f)' = Place(f)
  BY <1>0, ClosingFrame
<1>7. Blank \in Names
  BY DEF Blank, Names
<1>b. ASSUME ~Good(n)
      PROVE  /\ dropped' = dropped + 1 /\ missing_files' \in Nat /\ max_ngram_files' \in Nat
             /\ id_to_fname' = [id_to_fname EXCEPT ![n] = Blank]
  <2>1. fds[n].missing \/ fds[n].hit_ngram_limit
    BY <1>3, <1>b, <1>p DEF Marked, Good, Dense, Usable
  <2>. QED  BY <1>1, <1>2, <2>1 DEF CompactName, counts, dropped
<1>g. ASSUME Good(n)
      PROVE  /\ missing_files' = missing_files /\ max_ngram_files' = max_ngram_files
             /\ id_to_fname' = IF Place(n) = n THEN id_to_fname
                   ELSE [id_to_fname EXCEPT ![Place(n)] = id_to_fname[n], ![n] = Blank]
  <2>1. ~fds[n].missing /\ ~fds[n].hit_ngram_limit
    BY <1>3, <1>g, <1>p DEF Marked, Good, Dense, Usable
  <2>2. NewId(n) = Place(n)
    BY <1>1, <1>2, <1>3, <1>4 DEF NewId, dropped
  <2>. QED  BY <1>1, <2>1, <2>2 DEF CompactName, counts, MoveName
<1>8. dropped' = (n + 1) - Place(n + 1) /\ missing_files' \in Nat /\ max_ngram_files' \in Nat
  <2>1. CASE Good(n)
    <3>1. Place(n + 1) = Place(n) + 1  BY <2>1, PlaceAfter
    <3>. QED  BY <1>1, <1>2, <1>3, <1>4, <1>g, <2>1, <3>1 DEF dropped
  <2>2. CASE ~Good(n)
    <3>1. Place(n + 1) = Place(n)  BY <2>2, PlaceAfter
    <3>. QED  BY <1>1, <1>2, <1>3, <1>4, <1>b, <2>2, <3>1
  <2>. QED  BY <2>1, <2>2
<1>9. id_to_fname' \in [Ids -> Names]
  BY <1>2, <1>7, <1>b, <1>g
<1>10. ASSUME NEW f \in Ids, f >= n + 1
       PROVE  id_to_fname'[f] = [file |-> f, meta |-> IF Good(f) THEN 1 ELSE 0]
  <2>1. f # n /\ f # Place(n) /\ f >= n
    BY <1>1, <1>4, <1>10
  <2>2. id_to_fname'[f] = id_to_fname[f]
    BY <1>2, <1>b, <1>g, <2>1
  <2>. QED  BY <1>3, <2>1, <2>2
<1>11. ASSUME NEW f \in Ids, f < n + 1, Good(f)
       PROVE  id_to_fname'[Place(f)] = [file |-> f, meta |-> 1]
  <2>1. CASE f = n
    <3>1. id_to_fname[n] = [file |-> n, meta |-> 1]
      BY <1>1, <1>3, <1>11, <2>1
    <3>2. Place(n) \in Ids
      BY <1>1, <1>4 DEF Ids
    <3>. QED  BY <1>2, <1>g, <1>11, <2>1, <3>1, <3>2
  <2>2. CASE f # n
    <3>1. f < n /\ Place(f) # n /\ Place(f) # Place(n) /\ Place(f) \in Ids
      <4>1. f < n  BY <1>1, <1>11, <2>2
      <4>. QED  BY <1>1, <1>4, <1>5, <1>11, <4>1 DEF Ids
    <3>2. id_to_fname'[Place(f)] = id_to_fname[Place(f)]
      BY <1>2, <1>b, <1>g, <3>1
    <3>. QED  BY <1>3, <1>11, <3>1, <3>2
  <2>. QED  BY <2>1, <2>2
<1>12. ClosingInv'
  <2>0. Place(i)' = Place(n + 1)
    BY <1>0, <1>1 DEF Place, Earlier, Good, Dense, Usable, TooDense
  <2>1. NamesInv'
    <3>1. dropped' = i' - Place(i)' /\ nodes' = <<>>
      BY <1>0, <1>1, <1>3, <1>8, <2>0
    <3>2. \A f \in Ids : f >= i' =>
             id_to_fname'[f] = [file |-> f, meta |-> IF Good(f)' THEN 1 ELSE 0]
      BY <1>1, <1>6, <1>10
    <3>3. \A f \in Ids : f < i' /\ Good(f)' =>
             id_to_fname'[Place(f)'] = [file |-> f, meta |-> 1]
      BY <1>1, <1>6, <1>11
    <3>. QED  BY <3>1, <3>2, <3>3 DEF NamesInv, Ids
  <2>2. Marks'  BY <1>3, <1>6 DEF Marks
  <2>. QED  BY <1>1, <2>1, <2>2 DEF ClosingInv, Untallied, NodesInv, Shingling
<1>13. Basics'
  <2>1. Lines' = Ids  BY <1>1 DEF Lines, Ids
  <2>2. missing_files' + max_ngram_files' <= NumFiles
    <3>1. dropped' <= NumFiles  BY <1>1, <1>4, <1>8
    <3>. QED  BY <3>1 DEF dropped
  <2>3. TypeOK'
    BY <1>0, <1>1, <1>8, <1>9, <2>1, <2>2 DEF Basics, TypeOK, MainPCs, input, thread
  <2>4. Locking' /\ Ending'
    BY <1>0, <1>1 DEF Basics, Locking, Ending, IsFree, Shingling, Closing, input, thread
  <2>. QED  BY <2>3, <2>4 DEF Basics
<1>. QED  BY <1>12, <1>13

(* The second loop: the next usable file gets the next number. *)
LEMMA AssignKeepsPlaces ==
    ASSUME Basics, ClosingInv, AssignNode
    PROVE  Basics' /\ ClosingInv'
<1>0. /\ mpc = "nodes" /\ mpc' = "nodes" /\ i' = i + 1 /\ i \in Ids /\ NumFiles \in Nat
      /\ UNCHANGED <<input, shingleQ, shingledone, thread, id_to_fname, overflow, counts>>
      /\ file' = file
  BY DEF AssignNode, Basics, TypeOK, Ids, input
<1>p. PICK n \in Ids : n = i
  BY <1>0
<1>1. /\ mpc = "nodes" /\ mpc' = "nodes" /\ i = n /\ i' = n + 1 /\ n \in Nat /\ n < NumFiles
      /\ n + 1 \in 0 .. NumFiles /\ n \in 0 .. NumFiles /\ Ids \subseteq Nat
  BY <1>0, <1>p DEF Ids
<1>2. fds \in [Ids -> FileData] /\ nodes \in Seq(Ids)
  BY DEF Basics, TypeOK
<1>3. /\ dropped = NumFiles - Place(NumFiles)
      /\ \A f \in Ids : Good(f) => id_to_fname[Place(f)] = [file |-> f, meta |-> 1]
      /\ Len(nodes) = Place(n)
      /\ \A f \in Ids : f < n /\ Good(f) => nodes[Place(f) + 1] = f /\ fds[f].id = Place(f)
      /\ \A k \in 1 .. Len(nodes) : Good(nodes[k]) /\ nodes[k] < n /\ Place(nodes[k]) = k - 1
      /\ \A f \in Ids : Marked(f)
  BY <1>1 DEF ClosingInv, NodesInv, Marks, Closing
<1>4. /\ Place(n) \in Nat /\ Place(n + 1) \in Nat /\ \A f \in Ids : Place(f) \in Nat
      /\ \A f \in Ids : f < n /\ Good(f) => Place(f) < Place(n)
  BY <1>1, EarlierIsFinite, PlaceGrows DEF Ids
<1>6. \A f : (Good(f)' <=> Good(f)) /\ Place(f)' = Place(f)
  BY <1>0, ClosingFrame
<1>b. ASSUME ~Good(n)
      PROVE  nodes' = nodes /\ fds' = fds /\ Place(n + 1) = Place(n)
  <2>1. fds[n].missing \/ fds[n].hit_ngram_limit
    BY <1>3, <1>b, <1>p DEF Marked, Good, Dense, Usable
  <2>. QED  BY <1>1, <1>b, <2>1, PlaceAfter DEF AssignNode
<1>g. ASSUME Good(n)
      PROVE  /\ nodes' = Append(nodes, n) /\ fds' = [fds EXCEPT ![n].id = Place(n)]
             /\ Place(n + 1) = Place(n) + 1
  <2>1. ~fds[n].missing /\ ~fds[n].hit_ngram_limit
    BY <1>3, <1>g, <1>p DEF Marked, Good, Dense, Usable
  <2>. QED  BY <1>1, <1>3, <1>g, <2>1, PlaceAfter DEF AssignNode
<1>7. /\ fds' \in [Ids -> FileData] /\ nodes' \in Seq(Ids)
      /\ \A f \in Ids : /\ fds'[f].missing = fds[f].missing
                        /\ fds'[f].hit_ngram_limit = fds[f].hit_ngram_limit
                        /\ fds'[f].have_vals = fds[f].have_vals
                        /\ f # n => fds'[f].id = fds[f].id
                        /\ f = n /\ Good(n) => fds'[f].id = Place(n)
  <2>1. CASE Good(n)
    <3>1. nodes' = Append(nodes, n) /\ fds' = [fds EXCEPT ![n].id = Place(n)]
      BY <1>g, <2>1
    <3>4. fds' \in [Ids -> FileData]
      BY <1>2, <1>4, <3>1 DEF FileData
    <3>5. nodes' \in Seq(Ids)
      BY <1>2, <3>1
    <3>6. \A f \in Ids : f # n => fds'[f] = fds[f]
      BY <1>2, <3>1
    <3>8. /\ fds'[n].id = Place(n) /\ fds'[n].missing = fds[n].missing
          /\ fds'[n].hit_ngram_limit = fds[n].hit_ngram_limit
          /\ fds'[n].have_vals = fds[n].have_vals
      BY <1>2, <3>1 DEF FileData
    <3>. QED  BY <3>4, <3>5, <3>6, <3>8
  <2>2. CASE ~Good(n)  BY <1>2, <1>b, <2>2
  <2>. QED  BY <2>1, <2>2
<1>8. Len(nodes') = Place(n + 1)
  <2>1. CASE Good(n)  BY <1>2, <1>3, <1>g, <2>1
  <2>2. CASE ~Good(n)  BY <1>3, <1>b, <2>2
  <2>. QED  BY <2>1, <2>2
<1>9. ASSUME NEW f \in Ids, f < n + 1, Good(f)
      PROVE  nodes'[Place(f) + 1] = f /\ fds'[f].id = Place(f)
  <2>1. CASE f = n
    <3>1. nodes'[Len(nodes) + 1] = n  BY <1>2, <1>g, <1>9, <2>1
    <3>. QED  BY <1>3, <1>7, <1>9, <2>1, <3>1
  <2>2. CASE f # n
    <3>1. f < n  BY <1>1, <1>9, <2>2
    <3>2. Place(f) + 1 \in 1 .. Len(nodes)
      BY <1>3, <1>4, <1>9, <3>1
    <3>3. nodes'[Place(f) + 1] = nodes[Place(f) + 1]
      BY <1>2, <1>b, <1>g, <3>2
    <3>. QED  BY <1>3, <1>7, <1>9, <2>2, <3>1, <3>3
  <2>. QED  BY <2>1, <2>2
<1>10. ASSUME NEW k \in 1 .. Len(nodes')
       PROVE  Good(nodes'[k]) /\ nodes'[k] < n + 1 /\ Place(nodes'[k]) = k - 1
  <2>1. CASE k \in 1 .. Len(nodes)
    <3>1. nodes'[k] = nodes[k] /\ nodes[k] \in Ids
      <4>1. nodes[k] \in Ids  BY <1>2, <2>1
      <4>2. CASE Good(n)  BY <1>2, <1>g, <2>1, <4>1, <4>2
      <4>3. CASE ~Good(n)  BY <1>b, <4>1, <4>3
      <4>. QED  BY <4>2, <4>3
    <3>2. PICK x \in Ids : x = nodes[k]
      BY <3>1
    <3>3. Good(x) /\ x < n /\ Place(x) = k - 1
      BY <1>3, <2>1, <3>2
    <3>4. nodes'[k] = x /\ x < n + 1
      BY <1>1, <3>1, <3>2, <3>3
    <3>. QED  BY <3>3, <3>4
  <2>2. CASE k \notin 1 .. Len(nodes)
    <3>1. Good(n)  BY <1>b, <2>2
    <3>2. k = Len(nodes) + 1 /\ nodes'[k] = n
      BY <1>2, <1>g, <2>2, <3>1
    <3>. QED  BY <1>1, <1>3, <1>4, <3>1, <3>2
  <2>. QED  BY <2>1, <2>2
<1>12. ClosingInv'
  <2>0. Place(i)' = Place(n + 1) /\ Place(NumFiles)' = Place(NumFiles) /\ dropped' = dropped
    BY <1>0, <1>1 DEF Place, Earlier, Good, Dense, Usable, TooDense, counts, dropped
  <2>1. NodesInv'
    <3>1. \A f \in Ids : Good(f)' => id_to_fname'[Place(f)'] = [file |-> f, meta |-> 1]
      BY <1>0, <1>3, <1>6
    <3>2. Len(nodes') = Place(i)' /\ dropped' = NumFiles - Place(NumFiles)'
      BY <1>3, <1>8, <2>0
    <3>3. \A f \in Ids : f < i' /\ Good(f)' =>
             nodes'[Place(f)' + 1] = f /\ fds'[f].id = Place(f)'
      BY <1>1, <1>6, <1>9
    <3>4. \A k \in 1 .. Len(nodes') : /\ Good(nodes[k])' /\ nodes'[k] < i'
                                      /\ Place(nodes[k])' = k - 1
      <4>. SUFFICES ASSUME NEW k \in 1 .. Len(nodes')
                    PROVE  Good(nodes[k])' /\ nodes'[k] < i' /\ Place(nodes[k])' = k - 1
        OBVIOUS
      <4>1. PICK x : x = nodes'[k]  OBVIOUS
      <4>2. (Good(nodes[k])' <=> Good(x)') /\ Place(nodes[k])' = Place(x)'
        BY <4>1 DEF Good, Dense, Usable, TooDense, Place, Earlier
      <4>. QED  BY <1>1, <1>6, <1>10, <4>1, <4>2
    <3>. QED  BY <1>1, <3>1, <3>2, <3>3, <3>4 DEF NodesInv, Ids
  <2>2. Marks'
    BY <1>0, <1>3, <1>6, <1>7 DEF Marks, Marked, Dense, Usable, TooDense, Ids
  <2>. QED  BY <1>1, <2>1, <2>2 DEF ClosingInv, Untallied, NamesInv, Shingling
<1>13. Basics'
  <2>1. Lines = Ids /\ Lines' = Ids  BY <1>1 DEF Lines, Ids
  <2>3. TypeOK'
    BY <1>0, <1>1, <1>7, <2>1 DEF Basics, TypeOK, MainPCs, input, thread, counts
  <2>4. Locking' /\ Ending'
    BY <1>0, <1>1 DEF Basics, Locking, Ending, IsFree, Shingling, Closing, input, thread
  <2>. QED  BY <2>3, <2>4 DEF Basics
<1>. QED  BY <1>12, <1>13

(* Between them nothing has a number yet. *)
LEMMA NamesDoneKeepsPlaces ==
    ASSUME Basics, ClosingInv, NamesDone
    PROVE  Basics' /\ ClosingInv'
<1>1. /\ mpc = "names" /\ mpc' = "nodes" /\ i = NumFiles /\ i' = 0
      /\ UNCHANGED <<input, shingleQ, shingledone, thread, results, counts, nodes>>
      /\ UNCHANGED <<file, fds, id_to_fname>>
  BY DEF NamesDone, input, results
<1>2. Place(i)' = 0
  <2>1. Earlier(i)' = {}  BY <1>1 DEF Earlier, Ids
  <2>. QED  BY <2>1, FS_EmptySet DEF Place
<1>3. \A f : (Good(f)' <=> Good(f)) /\ (Marked(f)' <=> Marked(f)) /\ Place(f)' = Place(f)
  BY <1>1, ClosingFrame
<1>4. NodesInv'
  <2>1. /\ dropped = NumFiles - Place(NumFiles) /\ nodes = <<>>
        /\ \A f \in Ids : Good(f) => id_to_fname[Place(f)] = [file |-> f, meta |-> 1]
    BY <1>1 DEF ClosingInv, NamesInv, Ids
  <2>2. Place(NumFiles)' = Place(NumFiles) /\ dropped' = dropped
    BY <1>1 DEF Place, Earlier, Good, Dense, Usable, TooDense, counts, dropped
  <2>3. \A f \in Ids : Good(f)' => id_to_fname'[Place(f)'] = [file |-> f, meta |-> 1]
    BY <1>1, <1>3, <2>1
  <2>4. Len(nodes') = 0 /\ nodes' = <<>>
    BY <1>1, <2>1
  <2>5. (\A f \in Ids : ~(f < i')) /\ 1 .. Len(nodes') = {}
    BY <1>1, <2>4 DEF Ids
  <2>. QED  BY <1>1, <1>2, <2>1, <2>2, <2>3, <2>4, <2>5 DEF NodesInv
<1>5. Marks'
  BY <1>1, <1>3 DEF ClosingInv, Marks, Closing
<1>6. Basics'
  <2>1. Lines = Ids /\ Lines' = Ids  BY <1>1 DEF Lines, Ids
  <2>2. TypeOK'
    BY <1>1, <2>1 DEF Basics, TypeOK, MainPCs, input, thread, results, counts
  <2>3. Locking' /\ Ending'
    BY <1>1 DEF Basics, Locking, Ending, IsFree, Shingling, Closing, input, thread
  <2>. QED  BY <2>2, <2>3 DEF Basics
<1>. QED  BY <1>1, <1>4, <1>5, <1>6 DEF ClosingInv, Untallied, NamesInv, Shingling

(* The names that are kept are those of the usable files. *)
LEMMA NodesDoneKeepsPlaces ==
    ASSUME Basics, ClosingInv, NodesDone
    PROVE  Basics' /\ ClosingInv'
<1>1. /\ mpc = "nodes" /\ mpc' \in {"exit0", "exit1", "merge"} /\ i = NumFiles /\ i' = i
      /\ UNCHANGED <<input, shingleQ, shingledone, thread, fds, overflow, counts, nodes>>
      /\ UNCHANGED <<file, fds, missing_files, max_ngram_files>>
  BY DEF NodesDone, input, counts
<1>2. /\ dropped = NumFiles - Place(NumFiles)
      /\ \A f \in Ids : Good(f) => id_to_fname[Place(f)] = [file |-> f, meta |-> 1]
      /\ Len(nodes) = Place(NumFiles)
      /\ \A f \in Ids : f < i /\ Good(f) => nodes[Place(f) + 1] = f /\ fds[f].id = Place(f)
      /\ \A k \in 1 .. Len(nodes) : Good(nodes[k]) /\ nodes[k] < i /\ Place(nodes[k]) = k - 1
      /\ \A f \in Ids : Marked(f)
  BY <1>1 DEF ClosingInv, NodesInv, Marks, Closing
<1>3. Place(NumFiles) \in Nat /\ Place(NumFiles) <= NumFiles
  BY EarlierIsFinite
<1>4. total_files = Place(NumFiles) /\ total_files' = total_files
  BY <1>1, <1>2, <1>3 DEF dropped, total_files
<1>5. \A f \in Ids : Good(f) => Place(f) \in 0 .. total_files - 1
  BY <1>3, <1>4, EarlierIsFinite, PlaceGrows DEF Ids
<1>6. \A f : (Good(f)' <=> Good(f)) /\ (Marked(f)' <=> Marked(f)) /\ Place(f)' = Place(f)
  BY <1>1, ClosingFrame
<1>7. id_to_fname \in [Ids -> Names] /\ 0 .. total_files - 1 \subseteq Ids
  BY <1>1, <1>3, <1>4 DEF Basics, TypeOK, Lines, Ids
<1>8. CASE mpc' = "exit1"
  <2>1. id_to_fname' = id_to_fname /\ Lines' = Ids
    BY <1>1, <1>8 DEF NodesDone, Lines, Ids
  <2>2. TypeOK'
    BY <1>1, <1>7, <1>8, <2>1 DEF Basics, TypeOK, MainPCs, input, thread
  <2>3. Locking' /\ Ending'
    BY <1>1, <1>8 DEF Basics, Locking, Ending, IsFree, Shingling, Closing, input, thread
  <2>4. Marks'  BY <1>2, <1>6 DEF Marks
  <2>. QED
    BY <1>8, <2>2, <2>3, <2>4 DEF Basics, ClosingInv, Untallied, NamesInv, NodesInv, Shingling
<1>9. CASE mpc' \in {"exit0", "merge"}
  <2>1. /\ id_to_fname' = [f \in 0 .. total_files - 1 |-> id_to_fname[f]]
        /\ Lines' = 0 .. total_files - 1
    BY <1>1, <1>4, <1>9 DEF NodesDone, Lines
  <2>2. id_to_fname' \in [Lines' -> Names]
    BY <1>7, <2>1
  <2>3. TypeOK'
    BY <1>1, <1>9, <2>2 DEF Basics, TypeOK, MainPCs, input, thread
  <2>4. Locking' /\ Ending'
    BY <1>1, <1>9 DEF Basics, Locking, Ending, IsFree, Shingling, Closing, input, thread
  <2>5. Marks'  BY <1>2, <1>6 DEF Marks
  <2>6. NodesInv'
    <3>1. \A f \in Ids : Good(f)' => id_to_fname'[Place(f)'] = [file |-> f, meta |-> 1]
      BY <1>2, <1>5, <1>6, <2>1
    <3>2. /\ Place(NumFiles)' = Place(NumFiles) /\ Place(i)' = Place(NumFiles)
          /\ dropped' = dropped /\ nodes' = nodes /\ fds' = fds
      BY <1>1 DEF Place, Earlier, Good, Dense, Usable, TooDense, dropped
    <3>3. \A f \in Ids : f < i' /\ Good(f)' =>
             nodes'[Place(f)' + 1] = f /\ fds'[f].id = Place(f)'
      BY <1>1, <1>2, <1>6
    <3>4. \A k \in 1 .. Len(nodes') : /\ Good(nodes[k])' /\ nodes'[k] < i'
                                      /\ Place(nodes[k])' = k - 1
      <4>. SUFFICES ASSUME NEW k \in 1 .. Len(nodes')
                    PROVE  Good(nodes[k])' /\ nodes'[k] < i' /\ Place(nodes[k])' = k - 1
        OBVIOUS
      <4>1. PICK x : x = nodes[k]  OBVIOUS
      <4>2. (Good(nodes[k])' <=> Good(x)') /\ Place(nodes[k])' = Place(x)'
        BY <1>1, <4>1 DEF Good, Dense, Usable, TooDense, Place, Earlier
      <4>3. Good(x) /\ x < i /\ Place(x) = k - 1
        BY <1>1, <1>2, <4>1
      <4>. QED  BY <1>1, <1>6, <4>1, <4>2, <4>3
    <3>. QED  BY <1>1, <1>2, <3>1, <3>2, <3>3, <3>4 DEF NodesInv, Ids
  <2>. QED
    BY <1>9, <2>3, <2>4, <2>5, <2>6 DEF Basics, ClosingInv, Untallied, NamesInv, Shingling
<1>. QED  BY <1>1, <1>8, <1>9

-----------------------------------------------------------------------------
(* The other steps do not touch what the loops are about. *)
LEMMA ShinglingKeepsClosing ==
    ASSUME ClosingInv, Shingling, mpc' \in {"push", "notify", "quit", "wake", "join", "exit14"},
           UNCHANGED <<missing_files, max_ngram_files, nodes>>
    PROVE  ClosingInv'
  BY DEF ClosingInv, Marks, Untallied, NamesInv, NodesInv, Shingling, Closing

LEMMA ClosingUnchanged ==
    ASSUME ClosingInv, UNCHANGED <<file, mpc, i, fds, id_to_fname, missing_files, max_ngram_files, nodes>>
    PROVE  ClosingInv'
<1>1. \A f : (Good(f)' <=> Good(f)) /\ (Marked(f)' <=> Marked(f)) /\ Place(f)' = Place(f)
  BY ClosingFrame
<1>2. /\ Place(NumFiles)' = Place(NumFiles) /\ Place(i)' = Place(i) /\ dropped' = dropped
      /\ \A k : (Good(nodes[k])' <=> Good(nodes[k])) /\ Place(nodes[k])' = Place(nodes[k])
  BY DEF Place, Earlier, Good, Dense, Usable, TooDense, dropped
<1>3. Marks' /\ Untallied'
  BY <1>1 DEF ClosingInv, Marks, Untallied, Closing, Shingling
<1>4. NamesInv'  BY <1>1, <1>2 DEF ClosingInv, NamesInv
<1>5. NodesInv'  BY <1>1, <1>2 DEF ClosingInv, NodesInv
<1>. QED  BY <1>3, <1>4, <1>5 DEF ClosingInv

LEMMA ThreadsAreDone ==
    ASSUME Basics, mpc \in {"names", "nodes"}, NEW s \in Shinglers
    PROVE  ~Shingler(s)
  BY DEF Basics, Ending, Closing, Shingler, CheckDone, WaitAndPop, TryPop, FindMissing, MapFails,
         FindDense, PutOverflow, FindNgrams, NextNote

LEMMA MainKeepsAll ==
    ASSUME Shinglers # {}, Basics, ShingleInv, ClosingInv, Main
    PROVE  Basics' /\ ShingleInv' /\ ClosingInv'
<1>1. CASE PushFile
  <2>1. ShingleInv'  BY <1>1, PushKeepsFates DEF Basics
  <2>2. ClosingInv'
    BY <1>1, ShinglingKeepsClosing DEF PushFile, Shingling, counts
  <2>. QED  BY <1>1, <2>1, <2>2, MainBasics DEF PushFile
<1>2. CASE NotifyShingler \/ EndPush \/ QuitShingle
  <2>1. /\ Shingling /\ Shingling' /\ i' = i
        /\ UNCHANGED <<file, fds, id_to_fname, spc, snote, missing_files, max_ngram_files, nodes>>
    BY <1>2 DEF NotifyShingler, EndPush, QuitShingle, Shingling, input, thread, results, counts
  <2>2. shingleQ'.items = shingleQ.items
    <3>1. shingleQ \in QueueOf(Ids, Shinglers)  BY DEF Basics, TypeOK
    <3>2. CASE NotifyShingler  BY <3>1, <3>2, QueueWake DEF NotifyShingler
    <3>3. CASE EndPush  BY <3>3 DEF EndPush
    <3>4. CASE QuitShingle  BY <3>1, <3>4, QueueQuit DEF QuitShingle
    <3>. QED  BY <1>2, <3>2, <3>3, <3>4
  <2>3. \A t \in Shinglers : (InHand(t)' <=> InHand(t)) /\ (Shingled(t)' <=> Shingled(t))
    BY <2>1 DEF InHand, Shingled
  <2>4. ShingleInv'  BY <2>1, <2>2, <2>3, NoFileMoves
  <2>5. ClosingInv'  BY <2>1, ShinglingKeepsClosing DEF Shingling
  <2>6. Basics'
    BY <1>2, <2>1, MainBasics DEF Shingling
  <2>. QED  BY <2>4, <2>5, <2>6
<1>3. CASE JoinShinglers
  <2>1. ShingleInv'  BY <1>3 DEF JoinShinglers, ShingleInv, Shingling
  <2>. QED  BY <1>3, <2>1, MainBasics, JoinJudges DEF JoinShinglers
<1>4. CASE CompactName \/ NamesDone \/ AssignNode \/ NodesDone
  <2>1. ShingleInv'
    BY <1>4 DEF CompactName, NamesDone, AssignNode, NodesDone, ShingleInv, Shingling
  <2>. QED
    BY <1>4, <2>1, CompactKeepsPlaces, NamesDoneKeepsPlaces, AssignKeepsPlaces,
       NodesDoneKeepsPlaces
<1>. QED  BY <1>1, <1>2, <1>3, <1>4 DEF Main

LEMMA ShinglerKeepsAll ==
    ASSUME Basics, ShingleInv, ClosingInv, ~Ended, NEW s \in Shinglers, Shingler(s)
    PROVE  Basics' /\ ShingleInv' /\ ClosingInv'
<1>0. Shingling /\ TypeOK /\ mpc # "exit14"
  BY ThreadsAreDone DEF Basics, TypeOK, MainPCs, Ended, Shingling
<1>1. Basics'
  BY <1>0, ShinglerBasics
<1>2. ClosingInv'
  <2>1. mpc' \in {mpc, "exit14"} /\ UNCHANGED <<missing_files, max_ngram_files, nodes>>
    BY DEF Shingler, CheckDone, WaitAndPop, TryPop, FindMissing, MapFails, FindDense,
           PutOverflow, FindNgrams, NextNote, mainVars, counts
  <2>. QED  BY <1>0, <2>1, ShinglingKeepsClosing DEF Shingling
<1>3. ASSUME UNCHANGED <<i, file, fds, id_to_fname, snote>>, shingleQ'.items = shingleQ.items,
             NEW pc \in ShinglerPCs \ {"shingle", "putname"},
             spc' = [spc EXCEPT ![s] = pc], spc[s] # "shingle"
      PROVE  ShingleInv'
  <2>1. \A t \in Shinglers : (InHand(t)' => InHand(t)) /\ (Shingled(t)' <=> Shingled(t))
    BY <1>0, <1>3 DEF TypeOK, InHand, Shingled
  <2>. QED  BY <1>0, <1>3, <2>1, NoFileMoves
<1>4. CASE CheckDone(s) \/ PutOverflow(s) \/ NextNote(s)
  <2>1. PICK pc \in {"drain", "take", "putnewline", "next", "loop"} :
            spc' = [spc EXCEPT ![s] = pc]
    BY <1>4 DEF CheckDone, PutOverflow, NextNote, AfterNote, Goto
  <2>2. /\ UNCHANGED <<i, file, fds, id_to_fname, snote>> /\ shingleQ' = shingleQ
        /\ spc[s] # "shingle"
    BY <1>4 DEF CheckDone, PutOverflow, NextNote, mainVars, input, results
  <2>. QED  BY <1>1, <1>2, <1>3, <2>1, <2>2 DEF ShinglerPCs
<1>5. CASE WaitAndPop(s)
  <2>0. UNCHANGED <<i, file, fds, id_to_fname>>
    BY <1>5 DEF WaitAndPop, mainVars, input, results
  <2>1. CASE spc[s] = "pop" /\ ~shingleQ.quit
    <3>1. shingleQ.items # <<>>
      BY <2>1 DEF Basics, Locking
    <3>2. ShingleInv'
      BY <1>0, <1>5, <2>0, <2>1, <3>1, TakeKeepsFates DEF WaitAndPop, InHand, Goto
    <3>. QED  BY <1>1, <1>2, <3>2
  <2>2. CASE ~(spc[s] = "pop" /\ ~shingleQ.quit)
    <3>1. PICK pc \in {"sleep", "pop", "take", "loop"} : spc' = [spc EXCEPT ![s] = pc]
      BY <1>5, <2>2 DEF WaitAndPop, Goto
    <3>2. shingleQ'.items = shingleQ.items /\ snote' = snote /\ spc[s] # "shingle"
      BY <1>0, <1>5, <2>2, QueueControl, ShingleQSteps DEF WaitAndPop, TypeOK
    <3>. QED  BY <1>1, <1>2, <1>3, <2>0, <3>1, <3>2 DEF ShinglerPCs
  <2>. QED  BY <2>1, <2>2
<1>6. CASE TryPop(s)
  <2>0. UNCHANGED <<i, file, fds, id_to_fname>> /\ spc[s] \in {"take", "drain"}
    BY <1>6 DEF TryPop, mainVars, input, results
  <2>1. CASE shingleQ.items = <<>>
    <3>1. PICK pc \in {"done", "loop"} : spc' = [spc EXCEPT ![s] = pc]
      BY <1>6, <2>1 DEF TryPop, Goto
    <3>. QED  BY <1>1, <1>2, <1>3, <1>6, <2>0, <2>1, <3>1 DEF TryPop, ShinglerPCs
  <2>2. CASE shingleQ.items # <<>>
    <3>1. ShingleInv'
      BY <1>0, <1>6, <2>0, <2>2, TakeKeepsFates DEF TryPop, InHand, Goto
    <3>. QED  BY <1>1, <1>2, <3>1
  <2>. QED  BY <2>1, <2>2
<1>7. CASE MapFails(s)
  <2>1. ShingleInv'  BY <1>7 DEF MapFails, ShingleInv, Shingling
  <2>. QED  BY <1>1, <1>2, <2>1
<1>8. CASE FindMissing(s) \/ FindDense(s) \/ FindNgrams(s)
  BY <1>0, <1>1, <1>2, <1>8, JudgeKeepsFates
<1>. QED  BY <1>4, <1>5, <1>6, <1>7, <1>8 DEF Shingler

LEMMA WakeupKeepsAll ==
    ASSUME Basics, ShingleInv, ClosingInv, SpuriousWakeup
    PROVE  Basics' /\ ShingleInv' /\ ClosingInv'
<1>1. /\ UNCHANGED <<file, mpc, i, fds, id_to_fname, spc, snote, nodes>>
      /\ UNCHANGED <<missing_files, max_ngram_files>>
      /\ shingleQ'.items = shingleQ.items
  BY QueueWake DEF SpuriousWakeup, Basics, TypeOK, mainVars, input, counts, thread, results
<1>2. ClosingInv'  BY <1>1, ClosingUnchanged
<1>3. ShingleInv'
  <2>1. \A t \in Shinglers : (InHand(t)' <=> InHand(t)) /\ (Shingled(t)' <=> Shingled(t))
    BY <1>1 DEF InHand, Shingled
  <2>2. CASE Shingling  BY <1>1, <2>1, <2>2, NoFileMoves
  <2>3. CASE ~Shingling  BY <1>1, <2>3 DEF ShingleInv, Shingling
  <2>. QED  BY <2>2, <2>3
<1>. QED  BY <1>2, <1>3, WakeupBasics

-----------------------------------------------------------------------------
(* The invariant *)
Inv == Basics /\ ShingleInv /\ ClosingInv

LEMMA Starts == Init => Inv
<1>. SUFFICES ASSUME Init PROVE Inv
  OBVIOUS
<1>1. /\ mpc = "push" /\ i = 0 /\ shingleQ = EmptyQueue /\ shingledone = FALSE
      /\ spc = [s \in Shinglers |-> "loop"] /\ snote = [s \in Shinglers |-> 0]
      /\ draining = {} /\ nodes = <<>> /\ missing_files = 0 /\ max_ngram_files = 0
      /\ fds = [f \in Ids |-> [id |-> f, missing |-> FALSE, hit_ngram_limit |-> FALSE,
                               have_vals |-> FALSE]]
      /\ id_to_fname = [f \in Ids |-> [file |-> f, meta |-> 0]]
  BY DEF Init
<1>2. TypeOK
  <2>1. Lines = Ids /\ Ids \subseteq 0 .. NumFiles /\ Ids \subseteq Nat /\ 0 \in 0 .. NumFiles
    BY <1>1 DEF Lines, Ids
  <2>2. EmptyQueue \in QueueOf(Ids, Shinglers)
    BY DEF EmptyQueue, QueueOf
  <2>3. fds \in [Ids -> FileData] /\ id_to_fname \in [Ids -> Names]
    BY <1>1, <2>1 DEF FileData, Names
  <2>4. /\ file \in [Ids -> Kinds] /\ run_lock_free \in BOOLEAN
        /\ overflow \in Seq(0 .. NumFiles) /\ nodes \in Seq(Ids)
    <3>1. overflow = <<>>  BY DEF Init
    <3>. QED  BY <1>1, <3>1 DEF Init
  <2>5. spc \in [Shinglers -> ShinglerPCs] /\ snote \in [Shinglers -> Nat]
    BY <1>1 DEF ShinglerPCs
  <2>6. missing_files + max_ngram_files <= NumFiles /\ mpc \in MainPCs /\ i \in 0 .. NumFiles
    BY <1>1, <2>1 DEF MainPCs
  <2>. QED  BY <1>1, <2>1, <2>2, <2>3, <2>4, <2>5, <2>6 DEF TypeOK
<1>3. Locking /\ Ending
  BY <1>1 DEF Locking, Ending, IsFree, EmptyQueue, Shingling, Closing
<1>4. ShingleInv
  <2>1. Range(shingleQ.items) = {} /\ IsInjective(shingleQ.items)
    BY <1>1 DEF EmptyQueue, Range, IsInjective
  <2>2. \A s \in Shinglers : ~InHand(s)
    BY <1>1 DEF InHand
  <2>3. \A f \in Ids : Waiting(f) /\ Untouched(f)
    BY <1>1 DEF Waiting, Untouched, Ids
  <2>. QED  BY <2>1, <2>2, <2>3 DEF ShingleInv, Places, Fates
<1>5. ClosingInv
  BY <1>1 DEF ClosingInv, Marks, Untallied, NamesInv, NodesInv, Closing
<1>. QED  BY <1>2, <1>3, <1>4, <1>5 DEF Inv, Basics

LEMMA Steps ==
    ASSUME Shinglers # {}, Inv, [Next]_vars
    PROVE  Inv'
<1>1. CASE UNCHANGED vars
  <2>1. /\ UNCHANGED <<file, run_lock_free, mpc, i, shingleQ, shingledone, spc, snote, draining>>
        /\ UNCHANGED <<fds, id_to_fname, overflow, missing_files, max_ngram_files, nodes>>
    BY <1>1 DEF vars, input, thread, results, counts
  <2>2. Lines' = Lines  BY <2>1 DEF Lines, total_files
  <2>3. TypeOK'  BY <2>1, <2>2 DEF Inv, Basics, TypeOK
  <2>4. Locking' /\ Ending'
    BY <2>1 DEF Inv, Basics, Locking, Ending, IsFree, Shingling, Closing
  <2>5. ClosingInv'  BY <2>1, ClosingUnchanged DEF Inv
  <2>6. CASE Shingling
    <3>1. \A t \in Shinglers : (InHand(t)' <=> InHand(t)) /\ (Shingled(t)' <=> Shingled(t))
      BY <2>1 DEF InHand, Shingled
    <3>2. ShingleInv'  BY <2>1, <2>6, <3>1, NoFileMoves DEF Inv
    <3>. QED  BY <2>3, <2>4, <2>5, <3>2 DEF Inv, Basics
  <2>7. CASE ~Shingling
    BY <2>1, <2>3, <2>4, <2>5, <2>7 DEF Inv, Basics, ShingleInv, Shingling
  <2>. QED  BY <2>6, <2>7
<1>2. CASE Next
  BY <1>2, MainKeepsAll, ShinglerKeepsAll, WakeupKeepsAll DEF Inv, Next
<1>. QED  BY <1>1, <1>2

LEMMA Invariance ==
    ASSUME Shinglers # {}
    PROVE  Spec => []Inv
<1>1. Inv /\ [Next]_vars => Inv'
  BY Steps
<1>. QED  BY <1>1, Starts, PTL DEF Spec

(* Every variable keeps its type: main's two loops stay inside of          *)
(* id_to_fname, and no name gets its metadata twice.                       *)
THEOREM TypeCorrect ==
    ASSUME Shinglers # {}
    PROVE  Spec => []TypeOK
<1>1. Inv => TypeOK  BY DEF Inv, Basics
<1>. QED  BY <1>1, Invariance, PTL

(* When the shingle threads are joined, each file carries the one mark it  *)
(* deserves, and a usable one its metadata, once.                          *)
THEOREM EveryFileIsJudged ==
    ASSUME Shinglers # {}
    PROVE  Spec => []EachFileHasItsFate
<1>1. Inv => EachFileHasItsFate
  <2>. SUFFICES ASSUME Inv, mpc = "names", i = 0, NEW f \in Ids
                PROVE  Marked(f) /\ id_to_fname[f] = [file |-> f, meta |-> IF Good(f) THEN 1 ELSE 0]
    BY DEF EachFileHasItsFate, Marked
  <2>1. f >= i  BY DEF Ids
  <2>. QED  BY <2>1 DEF Inv, ClosingInv, Marks, Closing, NamesInv
<1>. QED  BY <1>1, Invariance, PTL

(* The number under which the merge sees a file is the line at which the   *)
(* index prints its name, and no usable file is missing.                   *)
THEOREM NumbersAreLines ==
    ASSUME Shinglers # {}
    PROVE  Spec => []IdsMatchNames
<1>1. Inv => IdsMatchNames
  <2>. SUFFICES ASSUME Inv, mpc = "merge"
                PROVE  IdsMatchNames
    BY DEF IdsMatchNames
  <2>1. /\ dropped = NumFiles - Place(NumFiles) /\ i = NumFiles
        /\ \A f \in Ids : Good(f) => id_to_fname[Place(f)] = [file |-> f, meta |-> 1]
        /\ Len(nodes) = Place(NumFiles)
        /\ \A f \in Ids : f < i /\ Good(f) => nodes[Place(f) + 1] = f /\ fds[f].id = Place(f)
        /\ \A k \in 1 .. Len(nodes) : Good(nodes[k]) /\ nodes[k] < i /\ Place(nodes[k]) = k - 1
    BY DEF Inv, ClosingInv, NodesInv
  <2>2. /\ nodes \in Seq(Ids) /\ Ids \subseteq Nat /\ Len(nodes) \in Nat
        /\ id_to_fname \in [0 .. total_files - 1 -> Names]
        /\ Place(NumFiles) \in Nat /\ Place(NumFiles) <= NumFiles
        /\ \A f \in Ids : Place(f) \in Nat
    BY EarlierIsFinite DEF Inv, Basics, TypeOK, Lines, Ids
  <2>n. \A k \in 1 .. Len(nodes) : nodes[k] \in Ids
    <3>1. nodes \in Seq(Ids)  BY <2>2
    <3>. QED  BY <3>1
  <2>3. total_files = Len(nodes)
    BY <2>1, <2>2 DEF dropped, total_files
  <2>4. DOMAIN id_to_fname = 0 .. Len(nodes) - 1
    BY <2>2, <2>3
  <2>5. ASSUME NEW k \in 0 .. Len(nodes) - 1
        PROVE  id_to_fname[k] = [file |-> nodes[k + 1], meta |-> 1] /\ fds[nodes[k + 1]].id = k
    <3>1. k + 1 \in 1 .. Len(nodes) /\ (k + 1) - 1 = k
      BY <2>2
    <3>2. PICK f \in Ids : f = nodes[k + 1]
      BY <2>n, <3>1
    <3>3. Good(f) /\ f < i /\ Place(f) = k
      BY <2>1, <3>1, <3>2
    <3>. QED  BY <2>1, <3>2, <3>3
  <2>6. Range(nodes) = {f \in Ids : Good(f)}
    <3>1. ASSUME NEW k \in 1 .. Len(nodes) PROVE nodes[k] \in {f \in Ids : Good(f)}
      <4>1. PICK f \in Ids : f = nodes[k]  BY <2>n
      <4>2. Good(f)  BY <2>1, <4>1
      <4>. QED  BY <4>1, <4>2
    <3>2. ASSUME NEW f \in Ids, Good(f) PROVE \E k \in 1 .. Len(nodes) : nodes[k] = f
      <4>1. Place(f) < Place(NumFiles)
        BY <3>2, PlaceGrows DEF Ids
      <4>2. Place(f) + 1 \in 1 .. Len(nodes)
        BY <2>1, <2>2, <4>1
      <4>3. nodes[Place(f) + 1] = f
        BY <2>1, <3>2 DEF Ids
      <4>. QED  BY <4>2, <4>3
    <3>3. DOMAIN nodes = 1 .. Len(nodes)
      BY <2>2
    <3>. QED  BY <3>1, <3>2, <3>3 DEF Range
  <2>7. ASSUME NEW k \in 2 .. Len(nodes) PROVE nodes[k - 1] < nodes[k]
    <3>1. k \in 1 .. Len(nodes) /\ k - 1 \in 1 .. Len(nodes)
      BY <2>2
    <3>2. PICK f \in Ids, g \in Ids : f = nodes[k - 1] /\ g = nodes[k]
      BY <2>n, <3>1
    <3>3. Place(f) = (k - 1) - 1 /\ Place(g) = k - 1
      BY <2>1, <3>1, <3>2
    <3>4. ~(g <= f)
      <4>1. g <= f => Place(g) <= Place(f)
        BY PlaceGrows DEF Ids
      <4>. QED  BY <3>1, <3>3, <4>1
    <3>. QED  BY <2>2, <3>2, <3>4
  <2>. QED  BY <2>4, <2>5, <2>6, <2>7 DEF IdsMatchNames
<1>. QED  BY <1>1, Invariance, PTL

-----------------------------------------------------------------------------
(* The overflow file: a file at the limit or above is named there once its *)
(* thread is past the first fputs, and until then not.                     *)
Naming(f)   == \E s \in Shinglers : spc[s] = "putname" /\ snote[s] = f

Overflows ==
    Overflow =>
        /\ \A f \in Ids : /\ IsFiniteSet(Named(f))
                          /\ Cardinality(Named(f)) =
                                IF fds[f].hit_ngram_limit /\ ~Naming(f) THEN 1 ELSE 0
        /\ \A s \in Shinglers : spc[s] = "putname" => fds[snote[s]].hit_ngram_limit

LEMMA AppendLine ==
    ASSUME overflow \in Seq(0 .. NumFiles), NEW x \in 0 .. NumFiles,
           overflow' = Append(overflow, x)
    PROVE  /\ \A f \in Ids \ {x} : Named(f)' = Named(f)
           /\ IsFiniteSet(Named(x)) =>
                 /\ IsFiniteSet(Named(x)')
                 /\ Cardinality(Named(x)') = Cardinality(Named(x)) + 1
<1>. DEFINE n == Len(overflow) + 1
<1>1. /\ DOMAIN overflow = 1 .. Len(overflow) /\ Len(overflow) \in Nat
      /\ DOMAIN overflow' = 1 .. n /\ overflow'[n] = x
      /\ \A k \in 1 .. Len(overflow) : overflow'[k] = overflow[k]
  OBVIOUS
<1>2. \A f \in Ids \ {x} : Named(f)' = Named(f)
  BY <1>1 DEF Named
<1>3. Named(x)' = Named(x) \cup {n} /\ n \notin Named(x)
  BY <1>1 DEF Named
<1>. QED  BY <1>2, <1>3, FS_AddElement

(* A step that marks no file and names none *)
LEMMA NoNameIsPut ==
    ASSUME Overflows, overflow' = overflow,
           \A f \in Ids : fds'[f].hit_ngram_limit = fds[f].hit_ngram_limit,
           \A t \in Shinglers : (spc'[t] = "putname" <=> spc[t] = "putname")
                                /\ (spc[t] = "putname" => snote'[t] = snote[t] /\ snote[t] \in Ids)
    PROVE  Overflows'
<1>1. \A f \in Ids : Named(f)' = Named(f) /\ (Naming(f)' <=> Naming(f))
  BY DEF Named, Naming
<1>2. \A t \in Shinglers : spc'[t] = "putname" =>
           snote'[t] \in Ids /\ snote'[t] = snote[t] /\ spc[t] = "putname"
  OBVIOUS
<1>3. ASSUME Overflow, NEW t \in Shinglers, spc'[t] = "putname"
      PROVE  fds'[snote'[t]].hit_ngram_limit
  <2>1. fds[snote[t]].hit_ngram_limit /\ snote'[t] = snote[t] /\ snote[t] \in Ids
    BY <1>2, <1>3 DEF Overflows
  <2>2. PICK f \in Ids : f = snote[t]
    BY <2>1
  <2>. QED  BY <2>1, <2>2
<1>4. ASSUME Overflow, NEW f \in Ids
      PROVE  /\ IsFiniteSet(Named(f)')
             /\ Cardinality(Named(f)') =
                   IF fds'[f].hit_ngram_limit /\ ~Naming(f)' THEN 1 ELSE 0
  BY <1>1, <1>4 DEF Overflows
<1>. QED  BY <1>3, <1>4 DEF Overflows

(* A file above the limit is marked; with -O its name is due. *)
LEMMA DenseIsDue ==
    ASSUME TypeOK, ShingleInv, Shingling, Overflows, NEW s \in Shinglers, FindDense(s)
    PROVE  Overflows'
<1>. SUFFICES ASSUME Overflow PROVE Overflows'
  BY DEF Overflows
<1>1. PICK f0 \in Ids : f0 = snote[s] /\ Untouched(f0)
  BY DEF TypeOK, ShingleInv, Places, Fates, Waiting, Shingled, InHand, FindDense, Ids
<1>2. /\ spc \in [Shinglers -> ShinglerPCs] /\ fds \in [Ids -> FileData]
      /\ spc' = [spc EXCEPT ![s] = "putname"] /\ spc[s] = "shingle"
      /\ fds' = [fds EXCEPT ![f0].hit_ngram_limit = TRUE]
      /\ overflow' = overflow /\ snote' = snote
  BY <1>1 DEF TypeOK, FindDense, Goto
<1>3. /\ fds'[f0].hit_ngram_limit = TRUE /\ ~fds[f0].hit_ngram_limit
      /\ \A f \in Ids \ {f0} : fds'[f].hit_ngram_limit = fds[f].hit_ngram_limit
  BY <1>1, <1>2 DEF Untouched, FileData
<1>4. Naming(f0)' /\ \A f \in Ids \ {f0} : Naming(f)' <=> Naming(f)
  BY <1>1, <1>2 DEF Naming
<1>5. \A f \in Ids : Named(f)' = Named(f)
  BY <1>2 DEF Named
<1>6. ASSUME NEW f \in Ids
      PROVE  /\ IsFiniteSet(Named(f)')
             /\ Cardinality(Named(f)') =
                   IF fds'[f].hit_ngram_limit /\ ~Naming(f)' THEN 1 ELSE 0
  BY <1>3, <1>4, <1>5 DEF Overflows
<1>7. ASSUME NEW t \in Shinglers, spc'[t] = "putname"
      PROVE  fds'[snote'[t]].hit_ngram_limit
  <2>1. CASE t = s  BY <1>1, <1>2, <1>3, <2>1
  <2>2. CASE t # s
    <3>1. spc[t] = "putname" /\ fds[snote[t]].hit_ngram_limit
      BY <1>2, <1>7, <2>2 DEF Overflows
    <3>2. PICK f \in Ids : f = snote[t]
      BY <3>1 DEF TypeOK, ShingleInv, Places, InHand, Ids
    <3>. QED  BY <1>2, <1>3, <3>1, <3>2
  <2>. QED  BY <2>1, <2>2
<1>. QED  BY <1>6, <1>7 DEF Overflows

(* The two calls of fputs *)
LEMMA NameIsPut ==
    ASSUME TypeOK, ShingleInv, Shingling, Overflows, NEW s \in Shinglers, PutOverflow(s)
    PROVE  Overflows'
<1>. SUFFICES ASSUME Overflow PROVE Overflows'
  BY DEF Overflows
<1>0. /\ spc \in [Shinglers -> ShinglerPCs] /\ overflow \in Seq(0 .. NumFiles)
      /\ snote' = snote /\ fds' = fds
  BY DEF TypeOK, PutOverflow
<1>1. \A t \in Shinglers : InHand(t) => snote[t] \in Ids
  BY DEF TypeOK, ShingleInv, Places, Ids
<1>2. \A t \in Shinglers : spc[t] = "putname" => fds[snote[t]].hit_ngram_limit
  BY DEF Overflows
<1>3. CASE spc[s] = "putname" /\ overflow' = Append(overflow, snote[s]) /\ Goto(s, "putnewline")
  <2>1. PICK f0 \in Ids : f0 = snote[s]
    BY <1>1, <1>3 DEF InHand
  <2>2. f0 \in 0 .. NumFiles  BY DEF Ids
  <2>3. /\ spc' = [spc EXCEPT ![s] = "putnewline"]
        /\ \A t \in Shinglers : spc'[t] = "putname" <=> t # s /\ spc[t] = "putname"
    BY <1>0, <1>3 DEF Goto
  <2>4. \A t \in Shinglers : t # s /\ spc[t] = "putname" => snote[t] # f0
    BY <1>3, <2>1 DEF ShingleInv, Places, InHand
  <2>5. Naming(f0) /\ ~Naming(f0)' /\ \A f \in Ids \ {f0} : Naming(f)' <=> Naming(f)
    BY <1>0, <1>3, <2>1, <2>3, <2>4 DEF Naming
  <2>6. IsFiniteSet(Named(f0)) /\ Cardinality(Named(f0)) = 0
    BY <2>5 DEF Overflows
  <2>7. /\ \A f \in Ids \ {f0} : Named(f)' = Named(f)
        /\ IsFiniteSet(Named(f0)') /\ Cardinality(Named(f0)') = 1
    BY <1>0, <1>3, <2>1, <2>2, <2>6, AppendLine
  <2>8. fds[f0].hit_ngram_limit
    BY <1>2, <1>3, <2>1
  <2>9. ASSUME NEW f \in Ids
        PROVE  /\ IsFiniteSet(Named(f)')
               /\ Cardinality(Named(f)') =
                     IF fds'[f].hit_ngram_limit /\ ~Naming(f)' THEN 1 ELSE 0
    <3>1. CASE f = f0  BY <1>0, <2>5, <2>7, <2>8, <3>1
    <3>2. CASE f # f0  BY <1>0, <2>5, <2>7, <3>2 DEF Overflows
    <3>. QED  BY <3>1, <3>2
  <2>. QED  BY <1>0, <1>2, <2>3, <2>9 DEF Overflows
<1>4. CASE spc[s] = "putnewline" /\ overflow' = Append(overflow, Newline) /\ Goto(s, "next")
  <2>1. NumFiles \in 0 .. NumFiles /\ NumFiles \notin Ids
    BY DEF Ids
  <2>2. \A f \in Ids : Named(f)' = Named(f)
    BY <1>0, <1>4, <2>1, AppendLine DEF Newline
  <2>3. \A t \in Shinglers : spc'[t] = "putname" <=> spc[t] = "putname"
    BY <1>0, <1>4 DEF Goto
  <2>4. \A f \in Ids : Naming(f)' <=> Naming(f)
    BY <1>0, <2>3 DEF Naming
  <2>5. ASSUME NEW f \in Ids
        PROVE  /\ IsFiniteSet(Named(f)')
               /\ Cardinality(Named(f)') =
                     IF fds'[f].hit_ngram_limit /\ ~Naming(f)' THEN 1 ELSE 0
    BY <1>0, <2>2, <2>4 DEF Overflows
  <2>. QED  BY <1>0, <1>2, <2>3, <2>5 DEF Overflows
<1>. QED  BY <1>3, <1>4 DEF PutOverflow

LEMMA OverflowSteps ==
    ASSUME Shinglers # {}, Inv, Overflows, [Next]_vars
    PROVE  Overflows'
<1>1. ASSUME NEW t \in Shinglers, spc[t] = "putname"
      PROVE  Shingling \/ mpc = "exit14"
  BY <1>1 DEF Inv, Basics, TypeOK, MainPCs, Ending, Closing, Shingling
<1>2. CASE Shingling \/ \A t \in Shinglers : spc[t] # "putname"
  <2>1. \A t \in Shinglers : spc[t] = "putname" => snote[t] \in Ids
    BY <1>2 DEF Inv, Basics, TypeOK, ShingleInv, Places, InHand, Ids
  <2>2. CASE UNCHANGED vars \/ (Main /\ ~AssignNode) \/ SpuriousWakeup
    <3>1. UNCHANGED <<fds, spc, snote, overflow>>
      BY <2>2 DEF vars, Main, PushFile, NotifyShingler, EndPush, QuitShingle, JoinShinglers,
                  CompactName, NamesDone, NodesDone, SpuriousWakeup, thread, results
    <3>. QED  BY <2>1, <3>1, NoNameIsPut
  <2>3. CASE AssignNode
    <3>1. UNCHANGED <<spc, snote, overflow>> /\ fds \in [Ids -> FileData] /\ i \in Ids
      BY <2>3 DEF AssignNode, thread, Inv, Basics, TypeOK, Ids
    <3>2. \A f \in Ids : fds'[f].hit_ngram_limit = fds[f].hit_ngram_limit
      BY <2>3, <3>1 DEF AssignNode, FileData
    <3>. QED  BY <2>1, <3>1, <3>2, NoNameIsPut
  <2>4. ASSUME NEW s \in Shinglers, Shingler(s), ~Ended
        PROVE  Overflows'
    <3>1. Shingling
      BY <2>4, ThreadsAreDone DEF Inv, Basics, TypeOK, MainPCs, Ended, Shingling
    <3>2. spc \in [Shinglers -> ShinglerPCs] /\ fds \in [Ids -> FileData]
      BY DEF Inv, Basics, TypeOK
    <3>3. CASE CheckDone(s) \/ WaitAndPop(s) \/ TryPop(s) \/ MapFails(s) \/ NextNote(s)
      <4>1. /\ UNCHANGED <<fds, overflow>>
            /\ spc[s] # "putname" /\ \A t \in Shinglers \ {s} : spc'[t] = spc[t] /\ snote'[t] = snote[t]
        BY <3>2, <3>3
        DEF CheckDone, WaitAndPop, TryPop, MapFails, NextNote, Goto, results, thread,
            Inv, Basics, TypeOK
      <4>2. spc'[s] # "putname"
        BY <3>2, <3>3
        DEF CheckDone, WaitAndPop, TryPop, MapFails, NextNote, AfterNote, Goto, thread
      <4>. QED  BY <2>1, <4>1, <4>2, NoNameIsPut
    <3>4. CASE FindMissing(s) \/ FindNgrams(s)
      <4>0. snote[s] \in Ids
        BY <3>1, <3>4 DEF FindMissing, FindNgrams, Inv, Basics, TypeOK, ShingleInv, Places, InHand, Ids
      <4>1. \A f \in Ids : fds'[f].hit_ngram_limit = fds[f].hit_ngram_limit
        BY <3>2, <3>4, <4>0 DEF FindMissing, FindNgrams, FileData
      <4>2. /\ UNCHANGED <<snote, overflow>> /\ spc[s] # "putname" /\ spc'[s] # "putname"
            /\ \A t \in Shinglers \ {s} : spc'[t] = spc[t]
        BY <3>2, <3>4 DEF FindMissing, FindNgrams, Goto
      <4>. QED  BY <2>1, <4>1, <4>2, NoNameIsPut
    <3>5. CASE FindDense(s)
      BY <3>1, <3>5, DenseIsDue DEF Inv, Basics
    <3>6. CASE PutOverflow(s)
      BY <3>1, <3>6, NameIsPut DEF Inv, Basics
    <3>. QED  BY <2>4, <3>3, <3>4, <3>5, <3>6 DEF Shingler
  <2>. QED  BY <2>2, <2>3, <2>4 DEF Next
<1>3. CASE mpc = "exit14"
  <2>1. UNCHANGED <<fds, spc, snote, overflow>>
    BY <1>3 DEF Next, Ended, vars, thread, results
  <2>. QED  BY <2>1 DEF Overflows, Named, Naming
<1>. QED  BY <1>1, <1>2, <1>3

(* The newlines of the overflow file: one is due from each thread between  *)
(* the two calls of fputs, and no other.                                   *)
Printing == {s \in Shinglers : spc[s] = "putnewline"}

LinesInv ==
    /\ \A k \in 0 .. Len(overflow) : LinesOpen(k) \in 0 .. Cardinality(Shinglers)
    /\ LinesOpen(Len(overflow)) = Cardinality(Printing)

LEMMA PrintingIsFinite ==
    /\ IsFiniteSet(Printing) /\ Cardinality(Printing) \in Nat
    /\ Cardinality(Shinglers) \in Nat /\ Cardinality(Printing) <= Cardinality(Shinglers)
<1>1. Printing \in SUBSET Shinglers /\ IsFiniteSet(Shinglers)
  BY ThreadsAssumption DEF Printing
<1>2. IsFiniteSet(Printing) /\ Cardinality(Printing) <= Cardinality(Shinglers)
  BY <1>1, FS_Subset
<1>. QED  BY <1>1, <1>2, FS_CardinalityType

LEMMA TokensAreFinite ==
    ASSUME NEW k \in Nat
    PROVE  /\ IsFiniteSet(NamesIn(k)) /\ IsFiniteSet(NewlinesIn(k))
           /\ Cardinality(NamesIn(k)) \in Nat /\ Cardinality(NewlinesIn(k)) \in Nat
<1>1. IsFiniteSet(1 .. k)
  BY FS_Interval
<1>2. NamesIn(k) \in SUBSET (1 .. k) /\ NewlinesIn(k) \in SUBSET (1 .. k)
  BY DEF NamesIn, NewlinesIn
<1>3. IsFiniteSet(NamesIn(k)) /\ IsFiniteSet(NewlinesIn(k))
  BY <1>1, <1>2, FS_Subset
<1>. QED  BY <1>3, FS_CardinalityType

LEMMA AppendToken ==
    ASSUME overflow \in Seq(0 .. NumFiles), NEW x \in 0 .. NumFiles,
           overflow' = Append(overflow, x)
    PROVE  /\ Len(overflow') = Len(overflow) + 1
           /\ \A k \in 0 .. Len(overflow) : LinesOpen(k)' = LinesOpen(k)
           /\ LinesOpen(Len(overflow))' = IF x = Newline THEN LinesOpen(Len(overflow)) - 1
                                                         ELSE LinesOpen(Len(overflow)) + 1
<1>n. PICK n \in Nat : n = Len(overflow)
  OBVIOUS
<1>m. PICK m \in Nat : m = n + 1
  OBVIOUS
<1>1. /\ n \in Nat /\ m = n + 1 /\ Len(overflow') = m /\ overflow'[m] = x
      /\ \A j \in 1 .. n : overflow'[j] = overflow[j]
  BY <1>n, <1>m
<1>2. ASSUME NEW k \in 0 .. n
      PROVE  LinesOpen(k)' = LinesOpen(k)
  <2>1. \A j \in 1 .. k : overflow'[j] = overflow[j]
    BY <1>1
  <2>2. NamesIn(k)' = NamesIn(k) /\ NewlinesIn(k)' = NewlinesIn(k)
    BY <2>1 DEF NamesIn, NewlinesIn, Newline
  <2>. QED  BY <2>2 DEF LinesOpen
<1>3. /\ IsFiniteSet(NamesIn(n)) /\ IsFiniteSet(NewlinesIn(n))
      /\ Cardinality(NamesIn(n)) \in Nat /\ Cardinality(NewlinesIn(n)) \in Nat
  BY <1>1, TokensAreFinite
<1>4. m \notin NamesIn(n) /\ m \notin NewlinesIn(n)
  BY <1>1 DEF NamesIn, NewlinesIn
<1>5. \A j : j \in 1 .. m <=> j \in 1 .. n \/ j = m
  BY <1>1
<1>6. CASE x = Newline
  <2>1. NewlinesIn(m)' = NewlinesIn(n) \cup {m}
    BY <1>1, <1>5, <1>6 DEF NewlinesIn, Newline
  <2>2. NamesIn(m)' = NamesIn(n)
    BY <1>1, <1>5, <1>6 DEF NamesIn, Newline
  <2>3. Cardinality(NewlinesIn(m)') = Cardinality(NewlinesIn(n)) + 1
    BY <1>3, <1>4, <2>1, FS_AddElement
  <2>4. LinesOpen(m)' = LinesOpen(n) - 1
    BY <1>3, <2>2, <2>3 DEF LinesOpen
  <2>. QED  BY <1>1, <1>2, <1>6, <1>n, <1>m, <2>4
<1>7. CASE x # Newline
  <2>1. NamesIn(m)' = NamesIn(n) \cup {m}
    BY <1>1, <1>5, <1>7 DEF NamesIn, Newline
  <2>2. NewlinesIn(m)' = NewlinesIn(n)
    BY <1>1, <1>5, <1>7 DEF NewlinesIn, Newline
  <2>3. Cardinality(NamesIn(m)') = Cardinality(NamesIn(n)) + 1
    BY <1>3, <1>4, <2>1, FS_AddElement
  <2>4. LinesOpen(m)' = LinesOpen(n) + 1
    BY <1>3, <2>2, <2>3 DEF LinesOpen
  <2>. QED  BY <1>1, <1>2, <1>7, <1>n, <1>m, <2>4
<1>. QED  BY <1>6, <1>7

(* A step of one thread that is not a call of fputs *)
LEMMA NoTokenIsPut ==
    ASSUME LinesInv, overflow' = overflow,
           \A t \in Shinglers : spc'[t] = "putnewline" <=> spc[t] = "putnewline"
    PROVE  LinesInv'
<1>1. Printing' = Printing
  BY DEF Printing
<1>2. \A k : LinesOpen(k)' = LinesOpen(k)
  BY DEF LinesOpen, NamesIn, NewlinesIn
<1>. QED  BY <1>1, <1>2 DEF LinesInv

LEMMA TokenIsPut ==
    ASSUME TypeOK, ShingleInv, Shingling, LinesInv, NEW s \in Shinglers, PutOverflow(s)
    PROVE  LinesInv'
<1>n. PICK n \in Nat : n = Len(overflow)
  BY DEF TypeOK
<1>0. /\ spc \in [Shinglers -> ShinglerPCs] /\ overflow \in Seq(0 .. NumFiles)
      /\ n = Len(overflow) /\ NumFiles \notin Ids /\ NumFiles \in 0 .. NumFiles
  BY <1>n DEF TypeOK, Ids
<1>1. /\ IsFiniteSet(Printing) /\ Cardinality(Printing) \in Nat
      /\ Cardinality(Shinglers) \in Nat
  BY PrintingIsFinite
<1>2. ASSUME NEW x \in 0 .. NumFiles, overflow' = Append(overflow, x),
             LinesOpen(n + 1)' = Cardinality(Printing'),
             Cardinality(Printing') \in 0 .. Cardinality(Shinglers)
      PROVE  LinesInv'
  <2>1. /\ Len(overflow') = n + 1
        /\ \A k \in 0 .. n : LinesOpen(k)' = LinesOpen(k)
    BY <1>0, <1>2, AppendToken
  <2>2. ASSUME NEW k \in 0 .. n + 1
        PROVE  LinesOpen(k)' \in 0 .. Cardinality(Shinglers)
    <3>1. CASE k = n + 1  BY <1>2, <3>1
    <3>2. CASE k # n + 1
      <4>1. k \in 0 .. n  BY <1>0, <3>2
      <4>. QED  BY <1>0, <2>1, <4>1 DEF LinesInv
    <3>. QED  BY <3>1, <3>2
  <2>. QED  BY <1>2, <2>1, <2>2 DEF LinesInv
<1>3. CASE spc[s] = "putname" /\ overflow' = Append(overflow, snote[s]) /\ Goto(s, "putnewline")
  <2>1. PICK x \in Ids : x = snote[s]
    BY <1>3 DEF TypeOK, ShingleInv, Places, InHand, Ids
  <2>2. x \in 0 .. NumFiles /\ x # Newline  BY <1>0 DEF Ids, Newline
  <2>3. Printing' = Printing \cup {s} /\ s \notin Printing
    BY <1>0, <1>3 DEF Printing, Goto
  <2>4. Cardinality(Printing') = Cardinality(Printing) + 1
    BY <1>1, <2>3, FS_AddElement
  <2>5. Cardinality(Printing') <= Cardinality(Shinglers)
    <3>1. Printing' \in SUBSET Shinglers  BY DEF Printing
    <3>. QED  BY <3>1, ThreadsAssumption, FS_Subset
  <2>6. LinesOpen(n + 1)' = Cardinality(Printing) + 1
    <3>1. LinesOpen(n) = Cardinality(Printing)  BY <1>0 DEF LinesInv
    <3>2. Len(overflow') = n + 1 /\ LinesOpen(Len(overflow))' = LinesOpen(n) + 1
      BY <1>0, <1>3, <2>1, <2>2, AppendToken
    <3>. QED  BY <3>1, <3>2
  <2>. QED  BY <1>1, <1>2, <1>3, <2>1, <2>2, <2>4, <2>5, <2>6
<1>4. CASE spc[s] = "putnewline" /\ overflow' = Append(overflow, Newline) /\ Goto(s, "next")
  <2>1. Printing' = Printing \ {s} /\ s \in Printing
    BY <1>0, <1>4 DEF Printing, Goto
  <2>2. Cardinality(Printing') = Cardinality(Printing) - 1 /\ IsFiniteSet(Printing')
    BY <1>1, <2>1, FS_RemoveElement
  <2>3. Cardinality(Printing') \in Nat
    BY <2>2, FS_CardinalityType
  <2>4. Cardinality(Printing') <= Cardinality(Shinglers)
    BY <1>1, <2>2, PrintingIsFinite
  <2>5. LinesOpen(n + 1)' = Cardinality(Printing) - 1
    <3>1. LinesOpen(n) = Cardinality(Printing)  BY <1>0 DEF LinesInv
    <3>2. Len(overflow') = n + 1 /\ LinesOpen(Len(overflow))' = LinesOpen(n) - 1
      BY <1>0, <1>4, AppendToken DEF Newline
    <3>. QED  BY <3>1, <3>2
  <2>. QED  BY <1>0, <1>1, <1>2, <1>4, <2>2, <2>3, <2>4, <2>5 DEF Newline
<1>. QED  BY <1>3, <1>4 DEF PutOverflow

LEMMA LinesSteps ==
    ASSUME Inv, LinesInv, [Next]_vars
    PROVE  LinesInv'
<1>1. CASE UNCHANGED vars \/ Main \/ SpuriousWakeup
  <2>1. UNCHANGED <<spc, overflow>>
    BY <1>1 DEF vars, Main, PushFile, NotifyShingler, EndPush, QuitShingle, JoinShinglers,
                CompactName, NamesDone, AssignNode, NodesDone, SpuriousWakeup, thread, results
  <2>. QED  BY <2>1, NoTokenIsPut
<1>2. ASSUME NEW s \in Shinglers, Shingler(s), ~Ended
      PROVE  LinesInv'
  <2>1. Shingling
    BY <1>2, ThreadsAreDone DEF Inv, Basics, TypeOK, MainPCs, Ended, Shingling
  <2>2. spc \in [Shinglers -> ShinglerPCs]
    BY DEF Inv, Basics, TypeOK
  <2>3. CASE PutOverflow(s)
    BY <2>1, <2>3, TokenIsPut DEF Inv, Basics
  <2>4. CASE ~PutOverflow(s)
    <3>1. /\ overflow' = overflow /\ spc[s] # "putnewline"
          /\ \A t \in Shinglers \ {s} : spc'[t] = spc[t]
      BY <1>2, <2>2, <2>4
      DEF Shingler, CheckDone, WaitAndPop, TryPop, FindMissing, MapFails, FindDense, FindNgrams,
          NextNote, Goto, results, thread
    <3>2. spc'[s] # "putnewline"
      BY <1>2, <2>2, <2>4
      DEF Shingler, CheckDone, WaitAndPop, TryPop, FindMissing, MapFails, FindDense, FindNgrams,
          NextNote, AfterNote, Goto, thread
    <3>. QED  BY <3>1, <3>2, NoTokenIsPut
  <2>. QED  BY <2>3, <2>4
<1>. QED  BY <1>1, <1>2 DEF Next

(* When the threads are joined each file that reached the maximum is named *)
(* once in the overflow file, no other is, every name has its newline, and *)
(* no line has more names than there are threads: with one thread each     *)
(* line is one name.                                                       *)
THEOREM OverflowStaysIntact ==
    ASSUME Shinglers # {}
    PROVE  Spec => []OverflowIsIntact
<1>1. Init => Overflows /\ LinesInv
  <2>. SUFFICES ASSUME Init PROVE Overflows /\ LinesInv
    OBVIOUS
  <2>1. /\ overflow = <<>> /\ \A s \in Shinglers : spc[s] \notin {"putname", "putnewline"}
        /\ \A f \in Ids : fds[f].hit_ngram_limit = FALSE
    BY DEF Init
  <2>2. \A f \in Ids : Named(f) = {}
    BY <2>1 DEF Named
  <2>3. Printing = {} /\ NamesIn(0) = {} /\ NewlinesIn(0) = {}
    BY <2>1 DEF Printing, NamesIn, NewlinesIn
  <2>4. Cardinality(Printing) = 0 /\ LinesOpen(0) = 0
    BY <2>3, FS_EmptySet DEF LinesOpen
  <2>5. Overflows
    BY <2>1, <2>2, FS_EmptySet DEF Overflows
  <2>6. LinesInv
    BY <2>1, <2>4, PrintingIsFinite DEF LinesInv
  <2>. QED  BY <2>5, <2>6
<1>2. Inv /\ Overflows /\ LinesInv /\ [Next]_vars => Overflows' /\ LinesInv'
  BY OverflowSteps, LinesSteps
<1>3. Inv /\ Overflows /\ LinesInv => OverflowIsIntact
  <2>. SUFFICES ASSUME Inv, Overflows, LinesInv, mpc = "names", Overflow
                PROVE  OverflowIsIntact
    BY DEF OverflowIsIntact
  <2>1. ASSUME NEW f \in Ids
        PROVE  Cardinality(Named(f)) = IF Dense(f) THEN 1 ELSE 0
    <3>1. fds[f].hit_ngram_limit = Dense(f)
      BY DEF Inv, ClosingInv, Marks, Closing, Marked
    <3>2. ~Naming(f)
      BY DEF Inv, Basics, Ending, Closing, Naming
    <3>. QED  BY <3>1, <3>2 DEF Overflows
  <2>2. Printing = {}
    BY DEF Inv, Basics, Ending, Closing, Printing
  <2>3. LinesOpen(Len(overflow)) = 0
    BY <2>2, FS_EmptySet DEF LinesInv
  <2>. QED  BY <2>1, <2>3 DEF OverflowIsIntact, LinesInv
<1>. QED  BY <1>1, <1>2, <1>3, Invariance, PTL DEF Spec
=============================================================================

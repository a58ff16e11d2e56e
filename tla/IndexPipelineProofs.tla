------------------------ MODULE IndexPipelineProofs --------------------------
(***************************************************************************)
(* Proofs about IndexPipeline for any number of n-grams, any set of        *)
(* compress threads, any throttle and both kinds of queues.                *)
(***************************************************************************)
EXTENDS IndexPipeline, CommonProofs

USE NumNgramsAssumption, BacklogAssumption

(* A thread has a queue's mutex exactly while it is inside wait_and_pop    *)
(* past the lock, and it goes to pop only for an item or because of quit.  *)
Locking ==
    /\ \A c \in Compressors :
          /\ cpc[c] \in {"sleep", "pop"} <=> compressQ.holder = c
          /\ cpc[c] = "pop" => compressQ.items # <<>> \/ compressQ.quit
    /\ wpc \in {"sleep", "pop"} <=> writeQ.holder = Writer
    /\ wpc = "pop" => writeQ.items # <<>> \/ writeQ.quit
    /\ run_lock_free => IsFree(compressQ) /\ IsFree(writeQ)

(* Main sends no more than the merge produces, and starts the writer once. *)
SendBound == /\ mpc \in {"throttled", "send"} => sent < NumNgrams
             /\ mpc = "open" => wpc = "unstarted" /\ sent = 0

IInv == TypeOK /\ Locking /\ SendBound /\ InOnePlace /\ WrittenInMergeOrder

-----------------------------------------------------------------------------
(* writer writes the smallest key of the reorder buffer and takes it out. *)
LEMMA DueIsFirst ==
    ASSUME TypeOK, FirstIsDue
    PROVE  Min(write_buffer) = next_ngram /\ next_ngram \in write_buffer
<1>. DEFINE R == OpToRel(<, Nat)
<1>1. write_buffer \subseteq Nat /\ write_buffer # {}
  BY DEF TypeOK, Orders, FirstIsDue
<1>2. PICK m \in write_buffer : \A y \in write_buffer : <<y, m>> \notin R
  <2>. HIDE DEF R
  <2>1. IsWellFoundedOn(R, Nat)
    BY NatLessThanWellFounded DEF R
  <2>. QED  BY <1>1, <2>1, WFMin
<1>3. R = {p \in Nat \X Nat : p[1] < p[2]}
  BY DEF OpToRel
<1>4. \A y \in write_buffer : m <= y
  <2>. HIDE DEF R
  <2>1. ASSUME NEW y \in write_buffer, y < m PROVE FALSE
    <3>1. <<y, m>> \in Nat \X Nat /\ <<y, m>>[1] < <<y, m>>[2]
      BY <1>1, <2>1
    <3>. QED  BY <1>2, <1>3, <3>1
  <2>. QED  BY <1>1, <2>1
<1>. QED  BY <1>1, <1>4 DEF FirstIsDue, Min

(* What the places say of the notes the threads hold. *)
LEMMA HeldAreSent ==
    ASSUME IInv
    PROVE  /\ \A c \in Compressors : cpc[c] = "compress" => cnote[c] \in 0 .. sent - 1
           /\ wpc = "insert" => wnote \in 0 .. sent - 1
           /\ sent \in Nat /\ 0 .. sent - 1 \subseteq Orders
<1>1. sent \in Nat /\ 0 .. sent - 1 \subseteq Orders
  BY DEF IInv, TypeOK, Orders
<1>2. BeingCompressed \subseteq 0 .. sent - 1 /\ BeingInserted \subseteq 0 .. sent - 1
  <2>. HIDE DEF BeingCompressed, BeingInserted
  <2>. QED  BY DEF IInv, InOnePlace, NothingVanishes
<1>3. \A c \in Compressors : cpc[c] = "compress" => cnote[c] \in 0 .. sent - 1
  BY <1>2 DEF BeingCompressed
<1>4. wpc = "insert" => wnote \in 0 .. sent - 1
  BY <1>2 DEF BeingInserted
<1>. QED  BY <1>1, <1>3, <1>4

(* A queue whose holder is nobody has no thread inside wait_and_pop. *)
USE DEF IsFree, CanLock, MustWait

(* Types, mutexes and the bound on what main sends are kept by main ... *)
LEMMA MainTypes ==
    ASSUME IInv, Main
    PROVE  TypeOK' /\ Locking' /\ SendBound'
<1>. USE DEF IInv, TypeOK, Locking, SendBound, MainPCs,
             mainVars, compVars, writeVars, unchangedByMain
<1>1. CASE OpenIndex  BY <1>1 DEF OpenIndex, WriterPCs
<1>2. CASE OpenFails  BY <1>2 DEF OpenFails
<1>3. CASE CheckBacklog  BY <1>3 DEF CheckBacklog
<1>4. CASE CaughtUp  BY <1>4 DEF CaughtUp
<1>5. CASE SendNgram
  <2>1. sent \in Orders /\ sent + 1 \in 0 .. NumNgrams
    BY <1>5 DEF SendNgram, Orders
  <2>. QED  BY <1>5, <2>1, QueuePush DEF SendNgram
<1>6. CASE NotifyCompressor  BY <1>6, QueueWake DEF NotifyCompressor
<1>7. CASE EndMerge  BY <1>7 DEF EndMerge
<1>8. CASE QuitCompress
  <2>1. TypeOK'  BY <1>8, QueueQuit DEF QuitCompress
  <2>2. Locking'  BY <1>8, QueueQuit DEF QuitCompress
  <2>3. SendBound'  BY <1>8 DEF QuitCompress
  <2>. QED  BY <2>1, <2>2, <2>3
<1>9. CASE WakeCompress
  <2>1. TypeOK'  BY <1>9, QueueQuit DEF WakeCompress
  <2>2. Locking'  BY <1>9, QueueQuit DEF WakeCompress
  <2>3. SendBound'  BY <1>9 DEF WakeCompress
  <2>. QED  BY <2>1, <2>2, <2>3
<1>10. CASE JoinCompress  BY <1>10 DEF JoinCompress
<1>11. CASE QuitWriter
  <2>1. TypeOK'  BY <1>11, QueueQuit DEF QuitWriter
  <2>2. Locking'  BY <1>11, QueueQuit DEF QuitWriter
  <2>3. SendBound'  BY <1>11 DEF QuitWriter
  <2>. QED  BY <2>1, <2>2, <2>3
<1>12. CASE WakeWriter
  <2>1. TypeOK'  BY <1>12, QueueQuit DEF WakeWriter
  <2>2. Locking'  BY <1>12, QueueQuit DEF WakeWriter
  <2>3. SendBound'  BY <1>12 DEF WakeWriter
  <2>. QED  BY <2>1, <2>2, <2>3
<1>13. CASE JoinWriter  BY <1>13 DEF JoinWriter
<1>. QED
  BY <1>1, <1>2, <1>3, <1>4, <1>5, <1>6, <1>7, <1>8, <1>9, <1>10, <1>11, <1>12, <1>13 DEF Main

(* ... by the compress threads ... *)
LEMMA CompressorTypes ==
    ASSUME IInv, NEW c \in Compressors, Compressor(c)
    PROVE  TypeOK' /\ Locking' /\ SendBound'
<1>. USE ThreadsAssumption
     DEF IInv, TypeOK, Locking, SendBound, CompressorPCs,
         mainVars, writeVars, unchangedByCompressor
<1>1. CASE CheckDone(c)  BY <1>1 DEF CheckDone, Threads
<1>2. CASE LockCompressQ(c)
  <2>1. TypeOK'  BY <1>2, QueueControl DEF LockCompressQ
  <2>2. Locking'  BY <1>2, QueueControl DEF LockCompressQ
  <2>3. SendBound'  BY <1>2 DEF LockCompressQ
  <2>. QED  BY <2>1, <2>2, <2>3
<1>3. CASE SleepCompressQ(c)
  <2>1. TypeOK'  BY <1>3, QueueControl DEF SleepCompressQ
  <2>2. Locking'  BY <1>3, QueueControl DEF SleepCompressQ
  <2>3. SendBound'  BY <1>3 DEF SleepCompressQ
  <2>. QED  BY <2>1, <2>2, <2>3
<1>4. CASE PopCompressQ(c)
  <2>0. compressQ.holder = c /\ (~compressQ.quit => compressQ.items # <<>>)
    BY <1>4 DEF PopCompressQ
  <2>a. CASE compressQ.quit
    <3>1. TypeOK'  BY <1>4, <2>0, <2>a, QueueRelease DEF PopCompressQ
    <3>2. Locking'  BY <1>4, <2>0, <2>a, QueueRelease DEF PopCompressQ
    <3>3. SendBound'  BY <1>4, <2>a DEF PopCompressQ
    <3>. QED  BY <3>1, <3>2, <3>3
  <2>b. CASE ~compressQ.quit
    <3>0. compressQ \in QueueOf(Orders, Compressors)  OBVIOUS
    <3>p. Popped(compressQ) \in QueueOf(Orders, Compressors) /\ Head(compressQ.items) \in Orders
      <4>. HIDE DEF IInv, TypeOK, Locking, SendBound
      <4>. QED  BY <2>0, <2>b, <3>0, QueuePop
    <3>n. Head(compressQ.items) \in Nat
      BY <3>p DEF Orders
    <3>1. TypeOK'  BY <1>4, <2>b, <3>p, <3>n DEF PopCompressQ
    <3>2. Locking'  BY <1>4, <2>0, <2>b, QueuePop DEF PopCompressQ
    <3>3. SendBound'  BY <1>4, <2>b DEF PopCompressQ
    <3>. QED  BY <3>1, <3>2, <3>3
  <2>. QED  BY <2>a, <2>b
<1>5. CASE PopLockFree(c)
  <2>1. TypeOK'
    <3>1. CASE compressQ.items = <<>>  BY <1>5, <3>1 DEF PopLockFree, TryPop
    <3>2. CASE compressQ.items # <<>>
      <4>1. compressQ \in QueueOf(Orders, Compressors)  OBVIOUS
      <4>2. Popped(compressQ) \in QueueOf(Orders, Compressors) /\ Head(compressQ.items) \in Orders
        <5>. HIDE DEF IInv, TypeOK, Locking, SendBound
        <5>. QED  BY <3>2, <4>1, QueuePop
      <4>3. Head(compressQ.items) \in Nat
        BY <4>2 DEF Orders
      <4>. QED  BY <1>5, <3>2, <4>2, <4>3 DEF PopLockFree, TryPop
    <3>. QED  BY <3>1, <3>2
  <2>2. Locking'
    <3>1. IsFree(compressQ)  BY <1>5 DEF PopLockFree
    <3>2. /\ IsFree(compressQ)' /\ writeQ' = writeQ /\ wpc' = wpc
          /\ run_lock_free' = run_lock_free
      BY <1>5, <3>1, QueuePop DEF PopLockFree, TryPop
    <3>3. \A d \in Compressors : cpc'[d] \in {"sleep", "pop"} => cpc[d] \in {"sleep", "pop"}
      BY <1>5 DEF PopLockFree, TryPop
    <3>4. \A d \in Compressors : d # NoThread /\ cpc[d] \notin {"sleep", "pop"}
      BY <3>1
    <3>. QED  BY <3>1, <3>2, <3>3, <3>4
  <2>3. SendBound'  BY <1>5 DEF PopLockFree, TryPop, Orders
  <2>. QED  BY <2>1, <2>2, <2>3
<1>6. CASE DrainCompressQ(c)
  <2>1. TypeOK'
    <3>1. CASE compressQ.items = <<>>  BY <1>6, <3>1 DEF DrainCompressQ, TryPop
    <3>2. CASE compressQ.items # <<>>
      <4>1. compressQ \in QueueOf(Orders, Compressors)  OBVIOUS
      <4>2. Popped(compressQ) \in QueueOf(Orders, Compressors) /\ Head(compressQ.items) \in Orders
        <5>. HIDE DEF IInv, TypeOK, Locking, SendBound
        <5>. QED  BY <3>2, <4>1, QueuePop
      <4>3. Head(compressQ.items) \in Nat
        BY <4>2 DEF Orders
      <4>. QED  BY <1>6, <3>2, <4>2, <4>3 DEF DrainCompressQ, TryPop
    <3>. QED  BY <3>1, <3>2
  <2>2. Locking'
    <3>1. /\ IsFree(compressQ) /\ IsFree(compressQ)' /\ writeQ' = writeQ /\ wpc' = wpc
          /\ run_lock_free' = run_lock_free
      BY <1>6, QueuePop DEF DrainCompressQ, TryPop
    <3>2. \A d \in Compressors : cpc'[d] \in {"sleep", "pop"} => cpc[d] \in {"sleep", "pop"}
      BY <1>6 DEF DrainCompressQ, TryPop
    <3>3. \A d \in Compressors : d # NoThread /\ cpc[d] \notin {"sleep", "pop"}
      BY <3>1
    <3>. QED  BY <3>1, <3>2, <3>3
  <2>3. SendBound'  BY <1>6 DEF DrainCompressQ, TryPop, Orders
  <2>. QED  BY <2>1, <2>2, <2>3
<1>7. CASE Compress(c)
  <2>1. cnote[c] \in Orders
    BY <1>7, HeldAreSent DEF Compress
  <2>. QED  BY <1>7, <2>1, QueuePush DEF Compress
<1>8. CASE NotifyWriter(c)  BY <1>8, QueueWake DEF NotifyWriter
<1>9. CASE CountCompressed(c)  BY <1>9 DEF CountCompressed, AfterCount
<1>. QED  BY <1>1, <1>2, <1>3, <1>4, <1>5, <1>6, <1>7, <1>8, <1>9 DEF Compressor

(* ... by the write thread ... *)
LEMMA WriterTypes ==
    ASSUME IInv, WriteThread
    PROVE  TypeOK' /\ Locking' /\ SendBound'
<1>. USE ThreadsAssumption
     DEF IInv, TypeOK, Locking, SendBound, WriterPCs,
         mainVars, compVars, unchangedByWriter
<1>1. CASE CheckWriterDone  BY <1>1 DEF CheckWriterDone, Threads
<1>2. CASE LockWriteQ
  <2>0. /\ Locked(writeQ, Writer) \in QueueOf(Orders, {Writer})
        /\ Locked(writeQ, Writer).holder = Writer
        /\ Locked(writeQ, Writer).items = writeQ.items /\ Locked(writeQ, Writer).quit = writeQ.quit
    <3>1. Writer \in {Writer} /\ writeQ \in QueueOf(Orders, {Writer})  OBVIOUS
    <3>. HIDE DEF TypeOK, Locking, SendBound, IInv
    <3>. QED  BY <3>1, QueueControl
  <2>1. TypeOK'  BY <1>2, <2>0 DEF LockWriteQ
  <2>2. Locking'  BY <1>2, <2>0 DEF LockWriteQ
  <2>3. SendBound'  BY <1>2 DEF LockWriteQ
  <2>. QED  BY <2>1, <2>2, <2>3
<1>3. CASE SleepWriteQ
  <2>0. /\ Slept(writeQ, Writer) \in QueueOf(Orders, {Writer})
        /\ Slept(writeQ, Writer).holder = NoThread
        /\ Slept(writeQ, Writer).items = writeQ.items /\ Slept(writeQ, Writer).quit = writeQ.quit
    <3>1. Writer \in {Writer} /\ writeQ \in QueueOf(Orders, {Writer})  OBVIOUS
    <3>. HIDE DEF TypeOK, Locking, SendBound, IInv
    <3>. QED  BY <3>1, QueueControl
  <2>1. TypeOK'  BY <1>3, <2>0 DEF SleepWriteQ
  <2>2. Locking'  BY <1>3, <2>0 DEF SleepWriteQ
  <2>3. SendBound'  BY <1>3 DEF SleepWriteQ
  <2>. QED  BY <2>1, <2>2, <2>3
<1>4. CASE PopWriteQ
  <2>1. TypeOK'  BY <1>4, QueuePop, QueueRelease DEF PopWriteQ, Orders
  <2>2. Locking'  BY <1>4, QueuePop, QueueRelease DEF PopWriteQ, Orders
  <2>3. SendBound'  BY <1>4 DEF PopWriteQ, Orders
  <2>. QED  BY <2>1, <2>2, <2>3
<1>5. CASE PopWriteLockFree
  <2>1. TypeOK'  BY <1>5, QueuePop DEF PopWriteLockFree, TryPopWriteQ, Orders
  <2>2. Locking'  BY <1>5, QueuePop DEF PopWriteLockFree, TryPopWriteQ, Orders
  <2>3. SendBound'  BY <1>5 DEF PopWriteLockFree, TryPopWriteQ, Orders
  <2>. QED  BY <2>1, <2>2, <2>3
<1>6. CASE DrainWriteQ
  <2>1. TypeOK'  BY <1>6, QueuePop DEF DrainWriteQ, TryPopWriteQ, Orders
  <2>2. Locking'  BY <1>6, QueuePop DEF DrainWriteQ, TryPopWriteQ, Orders
  <2>3. SendBound'  BY <1>6 DEF DrainWriteQ, TryPopWriteQ, Orders
  <2>. QED  BY <2>1, <2>2, <2>3
<1>7. CASE InsertNote
  <2>1. wnote \in Orders
    BY <1>7, HeldAreSent DEF InsertNote
  <2>. QED  BY <1>7, <2>1 DEF InsertNote
<1>8. CASE WriteNext
  <2>1. Min(write_buffer) \in Orders
    BY <1>8, DueIsFirst DEF WriteNext
  <2>2. Append(written, Min(write_buffer)) \in Seq(Orders)
    BY <2>1
  <2>. QED  BY <1>8, <2>1, <2>2 DEF WriteNext
<1>9. CASE StopWriting  BY <1>9 DEF StopWriting
<1>10. CASE CountWritten  BY <1>10 DEF CountWritten, Counted, AfterWrite
<1>11. CASE FinishIndex  BY <1>11 DEF FinishIndex
<1>. QED
  BY <1>1, <1>2, <1>3, <1>4, <1>5, <1>6, <1>7, <1>8, <1>9, <1>10, <1>11 DEF WriteThread

(* ... and by a spurious wakeup. *)
LEMMA WakeupTypes ==
    ASSUME IInv, SpuriousWakeup
    PROVE  TypeOK' /\ Locking' /\ SendBound'
<1>. USE DEF IInv, TypeOK, Locking, SendBound, mainVars, compVars, writeVars, unchangedByMain
<1>1. CASE compressQ' \in Spurious(compressQ) /\ UNCHANGED writeQ
  BY <1>1, QueueWake DEF SpuriousWakeup
<1>2. CASE writeQ' \in Spurious(writeQ) /\ UNCHANGED compressQ
  BY <1>2, QueueWake DEF SpuriousWakeup
<1>. QED  BY <1>1, <1>2 DEF SpuriousWakeup

-----------------------------------------------------------------------------
(* No order is lost and none is doubled *)

InCompressQ == Range(compressQ.items)
InWriteQ    == Range(writeQ.items)

(* A step that moves no order keeps every order in its place. *)
LEMMA NoMove ==
    ASSUME InOnePlace, sent' = sent, compressQ'.items = compressQ.items,
           writeQ'.items = writeQ.items, write_buffer' = write_buffer, next_ngram' = next_ngram,
           \A c \in Compressors : /\ cpc'[c] = "compress" <=> cpc[c] = "compress"
                                  /\ cpc[c] = "compress" => cnote'[c] = cnote[c],
           BeingInserted' = BeingInserted
    PROVE  InOnePlace'
<1>1. BeingCompressed' = BeingCompressed  BY DEF BeingCompressed
<1>2. IsWritten' = IsWritten  BY DEF IsWritten
<1>. QED  BY <1>1, <1>2 DEF InOnePlace, NothingVanishes, NothingTwice

(* push of the next order by main *)
LEMMA SendKeepsPlaces ==
    ASSUME IInv, SendNgram
    PROVE  InOnePlace'
<1>1. /\ sent \in Nat /\ sent' = sent + 1 /\ sent \in Orders
      /\ compressQ.items \in Seq(Orders)
      /\ compressQ'.items = Append(compressQ.items, sent)
  BY DEF IInv, SendNgram, TypeOK, SendBound, Orders, QueueOf, Pushed
<1>2. /\ Range(compressQ'.items) = Range(compressQ.items) \cup {sent}
      /\ IsInjective(compressQ.items) /\ sent \notin Range(compressQ.items)
           => IsInjective(compressQ'.items)
  BY <1>1, AppendInSeq
<1>3. /\ BeingCompressed' = BeingCompressed /\ BeingInserted' = BeingInserted
      /\ IsWritten' = IsWritten /\ write_buffer' = write_buffer /\ writeQ' = writeQ
      /\ cpc' = cpc /\ cnote' = cnote
  BY DEF SendNgram, unchangedByMain, compVars, writeVars, BeingCompressed, BeingInserted, IsWritten
<1>4. 0 .. sent' - 1 = (0 .. sent - 1) \cup {sent} /\ sent \notin 0 .. sent - 1
  BY <1>1
<1>. QED  BY <1>1, <1>2, <1>3, <1>4 DEF IInv, InOnePlace, NothingVanishes, NothingTwice

(* a compress thread takes the first order of the queue *)
LEMMA TakeKeepsPlaces ==
    ASSUME IInv, NEW c \in Compressors, cpc[c] # "compress", compressQ.items # <<>>,
           compressQ' = Popped(compressQ),
           cpc' = [cpc EXCEPT ![c] = "compress"],
           cnote' = [cnote EXCEPT ![c] = Head(compressQ.items)],
           UNCHANGED <<sent, writeQ, writeVars>>
    PROVE  InOnePlace'
<1>. DEFINE h == Head(compressQ.items)
<1>1. /\ compressQ.items \in Seq(Orders) /\ compressQ'.items = Tail(compressQ.items)
      /\ cpc \in [Compressors -> CompressorPCs] /\ cnote \in [Compressors -> Nat]
  BY DEF IInv, TypeOK, QueueOf, Popped
<1>2. /\ Range(compressQ.items) = Range(compressQ'.items) \cup {h}
      /\ IsInjective(compressQ.items) => IsInjective(compressQ'.items) /\ h \notin Range(compressQ'.items)
  BY <1>1, TailInSeq
<1>3. BeingCompressed' = BeingCompressed \cup {h}
  BY <1>1 DEF BeingCompressed
<1>4. /\ BeingInserted' = BeingInserted /\ IsWritten' = IsWritten
      /\ write_buffer' = write_buffer /\ writeQ' = writeQ /\ sent' = sent
  BY DEF writeVars, BeingInserted, IsWritten
<1>5. h \notin BeingCompressed
  BY <1>2 DEF IInv, InOnePlace, NothingTwice
<1>6. \A a, b \in Compressors :
         cpc'[a] = "compress" /\ cpc'[b] = "compress" /\ cnote'[a] = cnote'[b] => a = b
  <2>. SUFFICES ASSUME NEW a \in Compressors, NEW b \in Compressors, a # b,
                       cpc'[a] = "compress", cpc'[b] = "compress", cnote'[a] = cnote'[b]
                PROVE  FALSE
    OBVIOUS
  <2>1. CASE a = c
    BY <1>1, <1>5, <2>1 DEF BeingCompressed
  <2>2. CASE b = c
    BY <1>1, <1>5, <2>2 DEF BeingCompressed
  <2>3. CASE a # c /\ b # c
    BY <1>1, <2>3 DEF IInv, InOnePlace, NothingTwice
  <2>. QED  BY <2>1, <2>2, <2>3
<1>. HIDE DEF h
<1>7. NothingVanishes'
  BY <1>2, <1>3, <1>4 DEF IInv, InOnePlace, NothingVanishes
<1>8. NothingTwice'
  BY <1>2, <1>3, <1>4, <1>5, <1>6 DEF IInv, InOnePlace, NothingTwice
<1>. QED  BY <1>7, <1>8 DEF InOnePlace

(* bgCompress pushes it to the writer *)
LEMMA CompressKeepsPlaces ==
    ASSUME IInv, NEW c \in Compressors, Compress(c)
    PROVE  InOnePlace'
<1>. DEFINE x == cnote[c]
<1>1. /\ writeQ.items \in Seq(Orders) /\ x \in Orders
      /\ writeQ'.items = Append(writeQ.items, x)
      /\ cpc \in [Compressors -> CompressorPCs] /\ cpc[c] = "compress"
  BY HeldAreSent DEF IInv, TypeOK, QueueOf, Pushed, Compress
<1>2. /\ Range(writeQ'.items) = Range(writeQ.items) \cup {x}
      /\ IsInjective(writeQ.items) /\ x \notin Range(writeQ.items) => IsInjective(writeQ'.items)
  BY <1>1, AppendInSeq
<1>3. /\ cnote' = cnote /\ compressQ' = compressQ /\ sent' = sent
      /\ write_buffer' = write_buffer /\ BeingInserted' = BeingInserted /\ IsWritten' = IsWritten
  BY DEF Compress, unchangedByCompressor, mainVars, writeVars, BeingInserted, IsWritten
<1>4. \A d \in Compressors : cpc'[d] = "compress" <=> cpc[d] = "compress" /\ d # c
  BY <1>1 DEF Compress
<1>5. BeingCompressed = BeingCompressed' \cup {x} /\ x \notin BeingCompressed'
  BY <1>1, <1>3, <1>4 DEF BeingCompressed, IInv, InOnePlace, NothingTwice
<1>6. \A a, b \in Compressors :
         cpc'[a] = "compress" /\ cpc'[b] = "compress" /\ cnote'[a] = cnote'[b] => a = b
  BY <1>3, <1>4 DEF IInv, InOnePlace, NothingTwice
<1>. HIDE DEF x
<1>7. NothingVanishes'
  BY <1>2, <1>3, <1>5 DEF IInv, InOnePlace, NothingVanishes
<1>8. NothingTwice'
  BY <1>2, <1>3, <1>5, <1>6 DEF IInv, InOnePlace, NothingTwice
<1>. QED  BY <1>7, <1>8 DEF InOnePlace

(* the writer takes the first order of its queue *)
LEMMA ReceiveKeepsPlaces ==
    ASSUME IInv, wpc # "insert", writeQ.items # <<>>,
           writeQ' = Popped(writeQ), wpc' = "insert", wnote' = Head(writeQ.items),
           UNCHANGED <<sent, compressQ, compVars, write_buffer, next_ngram>>
    PROVE  InOnePlace'
<1>. DEFINE h == Head(writeQ.items)
<1>1. writeQ.items \in Seq(Orders) /\ writeQ'.items = Tail(writeQ.items)
  BY DEF IInv, TypeOK, QueueOf, Popped
<1>2. /\ Range(writeQ.items) = Range(writeQ'.items) \cup {h}
      /\ IsInjective(writeQ.items) => IsInjective(writeQ'.items) /\ h \notin Range(writeQ'.items)
  BY <1>1, TailInSeq
<1>3. BeingInserted = {} /\ BeingInserted' = {h}
  BY DEF BeingInserted
<1>4. /\ BeingCompressed' = BeingCompressed /\ IsWritten' = IsWritten
      /\ write_buffer' = write_buffer /\ sent' = sent /\ compressQ' = compressQ
      /\ cpc' = cpc /\ cnote' = cnote
  BY DEF compVars, BeingCompressed, IsWritten
<1>. HIDE DEF h
<1>5. NothingVanishes'
  BY <1>2, <1>3, <1>4 DEF IInv, InOnePlace, NothingVanishes
<1>6. NothingTwice'
  BY <1>2, <1>3, <1>4 DEF IInv, InOnePlace, NothingTwice
<1>. QED  BY <1>5, <1>6 DEF InOnePlace

(* it goes into the reorder buffer *)
LEMMA InsertKeepsPlaces ==
    ASSUME IInv, InsertNote
    PROVE  InOnePlace'
<1>1. /\ BeingInserted = {wnote} /\ BeingInserted' = {}
      /\ write_buffer' = write_buffer \cup {wnote}
      /\ BeingCompressed' = BeingCompressed /\ IsWritten' = IsWritten
      /\ sent' = sent /\ compressQ' = compressQ /\ writeQ' = writeQ
      /\ cpc' = cpc /\ cnote' = cnote
  BY DEF InsertNote, unchangedByWriter, mainVars, compVars, BeingInserted, BeingCompressed, IsWritten
<1>. QED  BY <1>1 DEF IInv, InOnePlace, NothingVanishes, NothingTwice

(* and from there to the file *)
LEMMA WriteKeepsPlaces ==
    ASSUME IInv, WriteNext
    PROVE  InOnePlace'
<1>1. Min(write_buffer) = next_ngram /\ next_ngram \in write_buffer /\ next_ngram \in Nat
  BY DueIsFirst DEF IInv, TypeOK, WriteNext
<1>2. /\ write_buffer = write_buffer' \cup {next_ngram} /\ next_ngram \notin write_buffer'
      /\ BeingInserted = {} /\ BeingInserted' = {}
      /\ BeingCompressed' = BeingCompressed
      /\ sent' = sent /\ compressQ' = compressQ /\ writeQ' = writeQ
      /\ cpc' = cpc /\ cnote' = cnote
  BY <1>1 DEF WriteNext, unchangedByWriter, mainVars, compVars, BeingInserted, BeingCompressed
<1>3. IsWritten' = IsWritten \cup {next_ngram}
  BY <1>1 DEF WriteNext, IsWritten
<1>. QED  BY <1>2, <1>3 DEF IInv, InOnePlace, NothingVanishes, NothingTwice

LEMMA MainKeepsPlaces ==
    ASSUME IInv, Main
    PROVE  InOnePlace'
<1>. USE DEF IInv, mainVars, compVars, writeVars, unchangedByMain
<1>1. CASE SendNgram  BY <1>1, SendKeepsPlaces
<1>2. CASE ~SendNgram
  <2>1. /\ sent' = sent /\ cpc' = cpc /\ cnote' = cnote
        /\ write_buffer' = write_buffer /\ next_ngram' = next_ngram /\ wnote' = wnote
        /\ wpc' = "insert" <=> wpc = "insert"
    BY <1>2 DEF Main, OpenIndex, OpenFails, CheckBacklog, CaughtUp, NotifyCompressor, EndMerge,
                QuitCompress, WakeCompress, JoinCompress, QuitWriter, WakeWriter, JoinWriter,
                SendBound
  <2>2. compressQ'.items = compressQ.items /\ writeQ'.items = writeQ.items
    <3>1. /\ compressQ \in QueueOf(Orders, Compressors) /\ writeQ \in QueueOf(Orders, {Writer})
      BY DEF TypeOK
    <3>2. CASE NotifyCompressor  BY <3>1, <3>2, QueueWake DEF NotifyCompressor
    <3>3. CASE QuitCompress \/ WakeCompress \/ QuitWriter \/ WakeWriter
      BY <3>1, <3>3, QueueQuit DEF QuitCompress, WakeCompress, QuitWriter, WakeWriter
    <3>4. CASE UNCHANGED <<compressQ, writeQ>>  BY <3>4
    <3>. QED
      BY <1>2, <3>2, <3>3, <3>4
      DEF Main, OpenIndex, OpenFails, CheckBacklog, CaughtUp, EndMerge, JoinCompress, JoinWriter
  <2>3. BeingInserted' = BeingInserted  BY <2>1 DEF BeingInserted
  <2>. QED  BY <2>1, <2>2, <2>3, NoMove
<1>. QED  BY <1>1, <1>2

LEMMA CompressorKeepsPlaces ==
    ASSUME IInv, NEW c \in Compressors, Compressor(c)
    PROVE  InOnePlace'
<1>. USE DEF IInv, mainVars, writeVars, unchangedByCompressor
<1>1. /\ compressQ \in QueueOf(Orders, Compressors) /\ writeQ \in QueueOf(Orders, {Writer})
      /\ cpc \in [Compressors -> CompressorPCs]
  BY DEF TypeOK
<1>2. CASE cpc'[c] = "compress"
  <2>1. /\ cpc[c] # "compress" /\ compressQ.items # <<>> /\ compressQ' = Popped(compressQ)
        /\ cpc' = [cpc EXCEPT ![c] = "compress"]
        /\ cnote' = [cnote EXCEPT ![c] = Head(compressQ.items)]
        /\ UNCHANGED <<sent, writeQ, writeVars>>
    BY <1>1, <1>2
    DEF Compressor, CheckDone, LockCompressQ, SleepCompressQ, PopCompressQ, PopLockFree,
        DrainCompressQ, TryPop, Compress, NotifyWriter, CountCompressed, AfterCount, Locking
  <2>. QED  BY <2>1, TakeKeepsPlaces
<1>3. CASE Compress(c)  BY <1>3, CompressKeepsPlaces
<1>4. CASE cpc'[c] # "compress" /\ ~Compress(c)
  <2>1. /\ UNCHANGED <<cnote, sent, write_buffer, next_ngram, wpc, wnote>>
        /\ \A d \in Compressors : cpc'[d] = "compress" <=> cpc[d] = "compress"
    BY <1>1, <1>4
    DEF Compressor, CheckDone, LockCompressQ, SleepCompressQ, PopCompressQ, PopLockFree,
        DrainCompressQ, TryPop, NotifyWriter, CountCompressed, AfterCount
  <2>2. compressQ'.items = compressQ.items /\ writeQ'.items = writeQ.items
    <3>1. CASE LockCompressQ(c) \/ SleepCompressQ(c)
      BY <1>1, <3>1, QueueControl DEF LockCompressQ, SleepCompressQ
    <3>2. CASE PopCompressQ(c)
      BY <1>1, <1>4, <3>2, QueueRelease DEF PopCompressQ
    <3>3. CASE NotifyWriter(c)
      BY <1>1, <3>3, QueueWake DEF NotifyWriter
    <3>4. CASE UNCHANGED <<compressQ, writeQ>>  BY <3>4
    <3>. QED
      BY <1>1, <1>4, <3>1, <3>2, <3>3, <3>4
      DEF Compressor, CheckDone, PopLockFree, DrainCompressQ, TryPop, CountCompressed
  <2>3. BeingInserted' = BeingInserted  BY <2>1 DEF BeingInserted
  <2>. QED  BY <2>1, <2>2, <2>3, NoMove
<1>. QED  BY <1>2, <1>3, <1>4

LEMMA WriterKeepsPlaces ==
    ASSUME IInv, WriteThread
    PROVE  InOnePlace'
<1>. USE DEF IInv, mainVars, compVars, unchangedByWriter
<1>1. writeQ \in QueueOf(Orders, {Writer}) /\ Writer \in {Writer}
  BY DEF TypeOK
<1>2. CASE wpc' = "insert"
  <2>1. /\ wpc # "insert" /\ writeQ.items # <<>> /\ writeQ' = Popped(writeQ)
        /\ wnote' = Head(writeQ.items)
        /\ UNCHANGED <<sent, compressQ, compVars, write_buffer, next_ngram>>
    BY <1>2
    DEF WriteThread, CheckWriterDone, LockWriteQ, SleepWriteQ, PopWriteQ, PopWriteLockFree,
        DrainWriteQ, TryPopWriteQ, InsertNote, WriteNext, StopWriting, CountWritten, AfterWrite,
        FinishIndex, Locking
  <2>. QED  BY <1>2, <2>1, ReceiveKeepsPlaces
<1>3. CASE InsertNote  BY <1>3, InsertKeepsPlaces
<1>4. CASE WriteNext  BY <1>4, WriteKeepsPlaces
<1>5. CASE wpc' # "insert" /\ ~InsertNote /\ ~WriteNext
  <2>1. /\ UNCHANGED <<sent, cpc, cnote, write_buffer, next_ngram, wnote, compressQ>>
        /\ wpc # "insert"
    BY <1>5
    DEF WriteThread, CheckWriterDone, LockWriteQ, SleepWriteQ, PopWriteQ, PopWriteLockFree,
        DrainWriteQ, TryPopWriteQ, StopWriting, CountWritten, AfterWrite, FinishIndex
  <2>2. writeQ'.items = writeQ.items
    <3>1. CASE LockWriteQ \/ SleepWriteQ
      <4>. HIDE DEF IInv
      <4>. QED  BY <1>1, <3>1, QueueControl DEF LockWriteQ, SleepWriteQ
    <3>2. CASE PopWriteQ
      BY <1>1, <1>5, <3>2, QueueRelease DEF PopWriteQ
    <3>3. CASE UNCHANGED writeQ  BY <3>3
    <3>. QED
      BY <1>5, <3>1, <3>2, <3>3
      DEF WriteThread, CheckWriterDone, PopWriteLockFree, DrainWriteQ, TryPopWriteQ,
          StopWriting, CountWritten, FinishIndex
  <2>3. BeingInserted' = BeingInserted  BY <1>5, <2>1 DEF BeingInserted
  <2>. QED  BY <2>1, <2>2, <2>3, NoMove
<1>. QED  BY <1>2, <1>3, <1>4, <1>5

LEMMA WakeupKeepsPlaces ==
    ASSUME IInv, SpuriousWakeup
    PROVE  InOnePlace'
<1>1. compressQ'.items = compressQ.items /\ writeQ'.items = writeQ.items
  BY QueueWake DEF IInv, TypeOK, SpuriousWakeup
<1>2. UNCHANGED <<sent, cpc, cnote, write_buffer, next_ngram, wpc, wnote>>
  BY DEF SpuriousWakeup, mainVars, compVars, writeVars, unchangedByMain
<1>3. BeingInserted' = BeingInserted  BY <1>2 DEF BeingInserted
<1>. QED  BY <1>1, <1>2, <1>3, NoMove DEF IInv

-----------------------------------------------------------------------------
(* The file is written in merge order *)

LEMMA StepKeepsMergeOrder ==
    ASSUME IInv, [Next]_vars
    PROVE  WrittenInMergeOrder'
<1>1. CASE WriteNext
  <2>1. Min(write_buffer) = next_ngram /\ next_ngram \in Orders
    BY <1>1, DueIsFirst DEF IInv, TypeOK, WriteNext
  <2>2. written' = Append(written, next_ngram) /\ next_ngram' = next_ngram + 1
    BY <1>1, <2>1 DEF WriteNext
  <2>3. written \in Seq(Orders) /\ next_ngram \in Nat
    BY DEF IInv, TypeOK
  <2>. QED  BY <2>1, <2>2, <2>3 DEF IInv, WrittenInMergeOrder
<1>2. CASE ~WriteNext
  <2>1. UNCHANGED <<written, next_ngram>>
    <3>1. CASE Main
      BY <3>1
      DEF Main, OpenIndex, OpenFails, CheckBacklog, CaughtUp, SendNgram, NotifyCompressor,
          EndMerge, QuitCompress, WakeCompress, JoinCompress, QuitWriter, WakeWriter, JoinWriter,
          unchangedByMain, writeVars
    <3>2. CASE \E c \in Compressors : Compressor(c)
      BY <3>2
      DEF Compressor, CheckDone, LockCompressQ, SleepCompressQ, PopCompressQ, PopLockFree,
          DrainCompressQ, Compress, NotifyWriter, CountCompressed, unchangedByCompressor, writeVars
    <3>3. CASE WriteThread
      BY <1>2, <3>3
      DEF WriteThread, CheckWriterDone, LockWriteQ, SleepWriteQ, PopWriteQ, PopWriteLockFree,
          DrainWriteQ, InsertNote, StopWriting, CountWritten, FinishIndex
    <3>4. CASE SpuriousWakeup  BY <3>4 DEF SpuriousWakeup, writeVars
    <3>5. CASE UNCHANGED vars  BY <3>5 DEF vars, writeVars
    <3>. QED  BY <3>1, <3>2, <3>3, <3>4, <3>5 DEF Next
  <2>. QED  BY <2>1 DEF IInv, WrittenInMergeOrder
<1>. QED  BY <1>1, <1>2

-----------------------------------------------------------------------------
LEMMA InitIInv == Init => IInv
<1>. SUFFICES ASSUME Init PROVE IInv
  OBVIOUS
<1>1. EmptyQueue \in QueueOf(Orders, Compressors) /\ EmptyQueue \in QueueOf(Orders, {Writer})
  BY DEF EmptyQueue, QueueOf
<1>2. TypeOK
  <2>1. /\ mpc \in MainPCs /\ wpc \in WriterPCs /\ cpc \in [Compressors -> CompressorPCs]
        /\ failed \in BOOLEAN /\ compressdone \in BOOLEAN /\ writerdone \in BOOLEAN
        /\ run_lock_free \in BOOLEAN
    BY DEF Init, MainPCs, CompressorPCs, WriterPCs
  <2>2. written \in Seq(Orders) /\ write_buffer \subseteq Orders /\ draining \subseteq Threads
    BY DEF Init
  <2>3. compressQ \in QueueOf(Orders, Compressors) /\ writeQ \in QueueOf(Orders, {Writer})
    BY <1>1 DEF Init
  <2>4. /\ sent \in 0 .. NumNgrams /\ cnote \in [Compressors -> Nat] /\ wnote \in Nat
        /\ next_ngram \in Nat /\ compress_counter \in Nat /\ write_counter \in Nat
        /\ num_ngrams \in Nat
    BY DEF Init
  <2>. QED  BY <2>1, <2>2, <2>3, <2>4 DEF TypeOK
<1>3. Locking
  BY ThreadsAssumption DEF Init, Locking, EmptyQueue
<1>4. SendBound
  BY DEF Init, SendBound
<1>5. /\ Range(compressQ.items) = {} /\ Range(writeQ.items) = {}
      /\ IsInjective(compressQ.items) /\ IsInjective(writeQ.items)
  BY DEF Init, EmptyQueue, Range, IsInjective
<1>6. /\ BeingCompressed = {} /\ BeingInserted = {} /\ write_buffer = {} /\ IsWritten = {}
      /\ \A c \in Compressors : cpc[c] # "compress"
      /\ 0 .. sent - 1 = {}
  BY DEF Init, BeingCompressed, BeingInserted, IsWritten
<1>7. InOnePlace
  BY <1>5, <1>6 DEF InOnePlace, NothingVanishes, NothingTwice
<1>8. WrittenInMergeOrder
  BY DEF Init, WrittenInMergeOrder
<1>. QED  BY <1>2, <1>3, <1>4, <1>7, <1>8 DEF IInv

(* Every step keeps the inductive invariant. *)
LEMMA NextIInv == IInv /\ [Next]_vars => IInv'
<1>. SUFFICES ASSUME IInv, [Next]_vars PROVE IInv'
  OBVIOUS
<1>1. TypeOK' /\ Locking' /\ SendBound' /\ InOnePlace'
  <2>1. CASE Main  BY <2>1, MainTypes, MainKeepsPlaces
  <2>2. CASE \E c \in Compressors : Compressor(c)
    BY <2>2, CompressorTypes, CompressorKeepsPlaces
  <2>3. CASE WriteThread  BY <2>3, WriterTypes, WriterKeepsPlaces
  <2>4. CASE SpuriousWakeup  BY <2>4, WakeupTypes, WakeupKeepsPlaces
  <2>5. CASE UNCHANGED vars
    <3>1. TypeOK'  BY <2>5 DEF IInv, vars, mainVars, compVars, writeVars, unchangedByMain, TypeOK
    <3>2. Locking'  BY <2>5 DEF IInv, vars, mainVars, compVars, writeVars, unchangedByMain, Locking
    <3>3. SendBound'  BY <2>5 DEF IInv, vars, mainVars, compVars, writeVars, unchangedByMain, SendBound
    <3>4. BeingInserted' = BeingInserted  BY <2>5 DEF vars, writeVars, BeingInserted
    <3>5. InOnePlace'
      BY <2>5, <3>4, NoMove DEF IInv, vars, mainVars, compVars, writeVars, unchangedByMain
    <3>. QED  BY <3>1, <3>2, <3>3, <3>5
  <2>. QED  BY <2>1, <2>2, <2>3, <2>4, <2>5 DEF Next
<1>2. WrittenInMergeOrder'  BY StepKeepsMergeOrder
<1>. QED  BY <1>1, <1>2 DEF IInv

THEOREM Invariance == Spec => []IInv
  BY InitIInv, NextIInv, PTL DEF Spec

(* Every variable of bgCompressAndWrite keeps its type, for any number of  *)
(* n-grams and compress threads.                                           *)
THEOREM TypeCorrect == Spec => []TypeOK
<1>1. IInv => TypeOK  BY DEF IInv
<1>. QED  BY <1>1, Invariance, PTL

(* No n-gram is lost between the queues, the threads and the file, and     *)
(* none is there twice.                                                    *)
THEOREM NoNgramLost == Spec => []InOnePlace
<1>1. IInv => InOnePlace  BY DEF IInv
<1>. QED  BY <1>1, Invariance, PTL

(* The WriteWorker restores the merge order whatever the compress threads  *)
(* do.                                                                     *)
THEOREM MergeOrderRestored == Spec => []WrittenInMergeOrder
<1>1. IInv => WrittenInMergeOrder  BY DEF IInv
<1>. QED  BY <1>1, Invariance, PTL

-----------------------------------------------------------------------------
(***************************************************************************)
(* How the compress-and-write stage ends: IndexPipeline implements         *)
(* IndexBuild with either kind of queues, and what an index lacks when     *)
(* bgindex returns. For any number of n-grams, any set of compress threads *)
(* but the empty one (-C 0 makes an index of nothing) and any throttle.    *)
(***************************************************************************)

(* The order in which the stage shuts down: main has sent all, then the    *)
(* compress threads drain and are joined, then the writer drains.          *)
MainEnds ==
    /\ compressdone <=> mpc \notin {"open", "merge", "throttled", "send", "notify"}
    /\ compressdone => failed \/ sent = NumNgrams
    /\ failed => compressdone
    /\ writerdone <=> mpc \in {"quitWriter", "wakeWriter", "joinWriter", "exit0"}
    /\ mpc = "exit1" => failed
    /\ mpc = "exit0" => wpc = "done"

CompressorsEnd ==
    /\ \A c \in Compressors : /\ c \in draining => compressdone
                              /\ cpc[c] \in {"drain", "done"} => c \in draining
                              /\ writerdone => cpc[c] = "done"
    /\ run_lock_free => \A c \in Compressors : cpc[c] = "done" => compressQ.items = <<>>

WriterEnds ==
    /\ failed => wpc = "unstarted" /\ ~writerdone
    /\ wpc = "unstarted" => /\ mpc = "open" \/ failed
                            /\ written = <<>>
    /\ Writer \in draining => writerdone
    /\ wpc \in {"drain", "finish", "done"} => Writer \in draining
    /\ wpc \in {"finish", "done"} => writeQ.items = <<>>

Shutdown == MainEnds /\ CompressorsEnd /\ WriterEnds

-----------------------------------------------------------------------------
LEMMA MainShutsDown ==
    ASSUME IInv, Shutdown, Main
    PROVE  Shutdown'
<1>. USE ThreadsAssumption
     DEF IInv, TypeOK, SendBound, Shutdown, MainEnds, CompressorsEnd, WriterEnds,
         unchangedByMain, compVars, writeVars
<1>1. CASE OpenIndex  BY <1>1 DEF OpenIndex
<1>2. CASE OpenFails  BY <1>2 DEF OpenFails
<1>3. CASE CheckBacklog  BY <1>3 DEF CheckBacklog
<1>4. CASE CaughtUp  BY <1>4 DEF CaughtUp
<1>5. CASE SendNgram  BY <1>5 DEF SendNgram
<1>6. CASE NotifyCompressor  BY <1>6, QueueWake DEF NotifyCompressor
<1>7. CASE EndMerge  BY <1>7 DEF EndMerge
<1>8. CASE QuitCompress  BY <1>8, QueueQuit DEF QuitCompress
<1>9. CASE WakeCompress  BY <1>9, QueueQuit DEF WakeCompress
<1>10. CASE JoinCompress  BY <1>10 DEF JoinCompress
<1>11. CASE QuitWriter  BY <1>11, QueueQuit DEF QuitWriter
<1>12. CASE WakeWriter  BY <1>12, QueueQuit DEF WakeWriter
<1>13. CASE JoinWriter  BY <1>13 DEF JoinWriter
<1>. QED
  BY <1>1, <1>2, <1>3, <1>4, <1>5, <1>6, <1>7, <1>8, <1>9, <1>10, <1>11, <1>12, <1>13 DEF Main

LEMMA CompressorShutsDown ==
    ASSUME IInv, Shutdown, NEW c \in Compressors, Compressor(c)
    PROVE  Shutdown'
<1>. USE ThreadsAssumption
     DEF IInv, TypeOK, Locking, Shutdown, MainEnds, CompressorsEnd, WriterEnds,
         unchangedByCompressor, mainVars, writeVars
<1>1. CASE CheckDone(c)  BY <1>1 DEF CheckDone
<1>2. CASE LockCompressQ(c)  BY <1>2, QueueControl DEF LockCompressQ
<1>3. CASE SleepCompressQ(c)  BY <1>3, QueueControl DEF SleepCompressQ
<1>4. CASE PopCompressQ(c)  BY <1>4, QueueRelease, QueuePop DEF PopCompressQ
<1>5. CASE PopLockFree(c)  BY <1>5, QueuePop DEF PopLockFree, TryPop
<1>6. CASE DrainCompressQ(c)  BY <1>6, QueuePop DEF DrainCompressQ, TryPop
<1>7. CASE Compress(c)  BY <1>7, QueuePush DEF Compress
<1>8. CASE NotifyWriter(c)  BY <1>8, QueueWake DEF NotifyWriter
<1>9. CASE CountCompressed(c)  BY <1>9 DEF CountCompressed, AfterCount
<1>. QED  BY <1>1, <1>2, <1>3, <1>4, <1>5, <1>6, <1>7, <1>8, <1>9 DEF Compressor

LEMMA WriterShutsDown ==
    ASSUME IInv, Shutdown, WriteThread
    PROVE  Shutdown'
<1>. USE ThreadsAssumption
     DEF IInv, TypeOK, Locking, Shutdown, MainEnds, CompressorsEnd, WriterEnds,
         unchangedByWriter, mainVars, compVars
<1>1. CASE CheckWriterDone  BY <1>1 DEF CheckWriterDone
<1>2. CASE LockWriteQ  BY <1>2, QueueControl DEF LockWriteQ
<1>3. CASE SleepWriteQ  BY <1>3, QueueControl DEF SleepWriteQ
<1>4. CASE PopWriteQ  BY <1>4, QueueRelease, QueuePop DEF PopWriteQ
<1>5. CASE PopWriteLockFree  BY <1>5, QueuePop DEF PopWriteLockFree, TryPopWriteQ
<1>6. CASE DrainWriteQ  BY <1>6, QueuePop DEF DrainWriteQ, TryPopWriteQ
<1>7. CASE InsertNote  BY <1>7 DEF InsertNote
<1>8. CASE WriteNext  BY <1>8 DEF WriteNext
<1>9. CASE StopWriting  BY <1>9 DEF StopWriting
<1>10. CASE CountWritten  BY <1>10 DEF CountWritten, AfterWrite
<1>11. CASE FinishIndex  BY <1>11 DEF FinishIndex
<1>. QED
  BY <1>1, <1>2, <1>3, <1>4, <1>5, <1>6, <1>7, <1>8, <1>9, <1>10, <1>11 DEF WriteThread

LEMMA WakeupShutsDown ==
    ASSUME IInv, Shutdown, SpuriousWakeup
    PROVE  Shutdown'
<1>1. compressQ'.items = compressQ.items /\ writeQ'.items = writeQ.items
  BY QueueWake DEF IInv, TypeOK, SpuriousWakeup
<1>. QED
  BY <1>1 DEF SpuriousWakeup, Shutdown, MainEnds, CompressorsEnd, WriterEnds,
              mainVars, compVars, writeVars

LEMMA NextShutsDown == IInv /\ Shutdown /\ [Next]_vars => Shutdown'
<1>. SUFFICES ASSUME IInv, Shutdown, [Next]_vars PROVE Shutdown'
  OBVIOUS
<1>1. CASE UNCHANGED vars
  BY <1>1 DEF Shutdown, MainEnds, CompressorsEnd, WriterEnds, vars, mainVars, compVars, writeVars
<1>. QED
  BY <1>1, MainShutsDown, CompressorShutsDown, WriterShutsDown, WakeupShutsDown DEF Next

-----------------------------------------------------------------------------
(* The compress queue holds the last orders main has sent, in order. *)
InOrder ==
    \A i \in 1 .. Len(compressQ.items) :
        compressQ.items[i] = sent - Len(compressQ.items) + i - 1

LEMMA NextInOrder == IInv /\ InOrder /\ [Next]_vars => InOrder'
<1>. SUFFICES ASSUME IInv, InOrder, [Next]_vars PROVE InOrder'
  OBVIOUS
<1>0. /\ compressQ \in QueueOf(Orders, Compressors) /\ compressQ.items \in Seq(Orders)
      /\ sent \in Nat
  BY DEF IInv, TypeOK, QueueOf
<1>1. CASE SendNgram
  <2>1. compressQ'.items = Append(compressQ.items, sent) /\ sent' = sent + 1
    BY <1>1 DEF SendNgram, Pushed, IInv, TypeOK, QueueOf
  <2>2. /\ Len(compressQ.items) \in Nat
        /\ Len(compressQ'.items) = Len(compressQ.items) + 1
        /\ \A i \in 1 .. Len(compressQ.items) : compressQ'.items[i] = compressQ.items[i]
        /\ compressQ'.items[Len(compressQ.items) + 1] = sent
    BY <1>0, <2>1
  <2>. DEFINE n == Len(compressQ.items)
  <2>3. ASSUME NEW i \in 1 .. Len(compressQ'.items)
        PROVE  compressQ'.items[i] = sent' - Len(compressQ'.items) + i - 1
    <3>1. CASE i = n + 1  BY <1>0, <2>1, <2>2, <3>1
    <3>2. CASE i # n + 1
      <4>1. i \in 1 .. n  BY <2>2, <3>2
      <4>2. compressQ.items[i] = sent - n + i - 1  BY <4>1 DEF InOrder
      <4>3. compressQ'.items[i] = compressQ.items[i]  BY <2>2, <4>1
      <4>4. sent' = sent + 1 /\ Len(compressQ'.items) = n + 1  BY <2>1, <2>2
      <4>5. sent - n + i - 1 = (sent + 1) - (n + 1) + i - 1  BY <1>0, <2>2, <4>1
      <4>. HIDE DEF n
      <4>. QED  BY <4>2, <4>3, <4>4, <4>5
    <3>. QED  BY <3>1, <3>2
  <2>. QED  BY <2>3 DEF InOrder
<1>2. CASE compressQ.items # <<>> /\ compressQ' = Popped(compressQ) /\ sent' = sent
  <2>1. compressQ'.items = Tail(compressQ.items)
    BY <1>0, <1>2, QueuePop
  <2>2. /\ Len(compressQ.items) \in Nat
        /\ Len(compressQ'.items) = Len(compressQ.items) - 1
        /\ \A i \in 1 .. Len(compressQ'.items) : compressQ'.items[i] = compressQ.items[i + 1]
    BY <1>0, <1>2, <2>1
  <2>. DEFINE n == Len(compressQ.items)
  <2>3. ASSUME NEW i \in 1 .. Len(compressQ'.items)
        PROVE  compressQ'.items[i] = sent' - Len(compressQ'.items) + i - 1
    <3>1. i + 1 \in 1 .. n  BY <2>2
    <3>2. compressQ.items[i + 1] = sent - n + (i + 1) - 1  BY <3>1 DEF InOrder
    <3>3. compressQ'.items[i] = compressQ.items[i + 1]  BY <2>2
    <3>4. sent' = sent /\ Len(compressQ'.items) = n - 1  BY <1>2, <2>2
    <3>5. sent - n + (i + 1) - 1 = sent - (n - 1) + i - 1  BY <1>0, <2>2
    <3>. HIDE DEF n
    <3>. QED  BY <3>2, <3>3, <3>4, <3>5
  <2>. QED  BY <2>3 DEF InOrder
<1>3. CASE compressQ'.items = compressQ.items /\ sent' = sent
  BY <1>3 DEF InOrder
<1>4. CASE Main
  <2>1. CASE NotifyCompressor  BY <1>0, <1>3, <2>1, QueueWake DEF NotifyCompressor
  <2>2. CASE QuitCompress \/ WakeCompress
    BY <1>0, <1>3, <2>2, QueueQuit DEF QuitCompress, WakeCompress
  <2>. QED
    BY <1>1, <1>3, <1>4, <2>1, <2>2
    DEF Main, OpenIndex, OpenFails, CheckBacklog, CaughtUp, EndMerge, JoinCompress, QuitWriter,
        WakeWriter, JoinWriter
<1>5. ASSUME NEW c \in Compressors, Compressor(c) PROVE InOrder'
  <2>1. sent' = sent
    BY <1>5 DEF Compressor, CheckDone, LockCompressQ, SleepCompressQ, PopCompressQ, PopLockFree,
                DrainCompressQ, Compress, NotifyWriter, CountCompressed, unchangedByCompressor,
                mainVars
  <2>2. CASE LockCompressQ(c) \/ SleepCompressQ(c)
    BY <1>0, <1>3, <2>1, <2>2, QueueControl DEF LockCompressQ, SleepCompressQ
  <2>3. CASE PopCompressQ(c)
    BY <1>0, <1>2, <1>3, <2>1, <2>3, QueueRelease DEF PopCompressQ, IInv, Locking
  <2>4. CASE PopLockFree(c) \/ DrainCompressQ(c)
    BY <1>2, <1>3, <2>1, <2>4 DEF PopLockFree, DrainCompressQ, TryPop
  <2>. QED
    BY <1>3, <1>5, <2>1, <2>2, <2>3, <2>4
    DEF Compressor, CheckDone, Compress, NotifyWriter, CountCompressed
<1>6. CASE WriteThread
  BY <1>3, <1>6
  DEF WriteThread, CheckWriterDone, LockWriteQ, SleepWriteQ, PopWriteQ, PopWriteLockFree,
      DrainWriteQ, InsertNote, WriteNext, StopWriting, CountWritten, FinishIndex,
      unchangedByWriter, mainVars
<1>7. CASE SpuriousWakeup
  BY <1>0, <1>3, <1>7, QueueWake DEF SpuriousWakeup, mainVars
<1>8. CASE UNCHANGED vars
  BY <1>3, <1>8 DEF vars, mainVars
<1>. QED  BY <1>4, <1>5, <1>6, <1>7, <1>8 DEF Next

-----------------------------------------------------------------------------
(* write_counter counts what has come out of the write queue, and the      *)
(* reorder buffer keeps only what is not due.                              *)
Counting ==
    /\ write_counter + (IF wpc \in {"flush", "count"} THEN 1 ELSE 0)
         = next_ngram + Cardinality(write_buffer)
    /\ wpc = "done" => num_ngrams = write_counter
    /\ wpc # "flush" => next_ngram \notin write_buffer

LEMMA BufferIsFinite == TypeOK => IsFiniteSet(write_buffer) /\ Cardinality(write_buffer) \in Nat
<1>1. IsFiniteSet(Orders)
  <2>. DEFINE last == NumNgrams - 1
  <2>1. 0 \in Int /\ last \in Int  BY NumNgramsAssumption
  <2>2. IsFiniteSet(0 .. last)
    <3>. HIDE DEF last
    <3>. QED  BY <2>1, FS_Interval
  <2>. QED  BY <2>2 DEF Orders
<1>. QED  BY <1>1, FS_Subset, FS_CardinalityType DEF TypeOK

(* What is due is the smallest key, as everything before it is written. *)
LEMMA DueIsBuffered ==
    ASSUME TypeOK, NothingTwice, next_ngram \in write_buffer
    PROVE  FirstIsDue
<1>1. \A y \in write_buffer : next_ngram <= y /\ y \in Nat
  BY DEF TypeOK, Orders, NothingTwice, IsWritten
<1>2. \A x \in write_buffer : (\A y \in write_buffer : x <= y) => x = next_ngram
  BY <1>1 DEF TypeOK
<1>. QED  BY <1>1, <1>2 DEF FirstIsDue, Min

LEMMA WriterCounts ==
    ASSUME IInv, Counting, WriteThread
    PROVE  Counting'
<1>. USE BufferIsFinite DEF IInv, TypeOK, Counting
<1>1. CASE InsertNote
  <2>1. wnote \notin write_buffer
    BY <1>1 DEF InsertNote, InOnePlace, NothingTwice, BeingInserted
  <2>2. Cardinality(write_buffer \cup {wnote}) = Cardinality(write_buffer) + 1
    BY <2>1, FS_AddElement
  <2>. QED  BY <1>1, <2>2 DEF InsertNote
<1>2. CASE WriteNext
  <2>1. Min(write_buffer) = next_ngram /\ next_ngram \in write_buffer
    BY <1>2, DueIsFirst DEF WriteNext
  <2>2. Cardinality(write_buffer \ {next_ngram}) = Cardinality(write_buffer) - 1
    BY <2>1, FS_RemoveElement
  <2>. QED  BY <1>2, <2>1, <2>2 DEF WriteNext
<1>3. CASE StopWriting
  <2>1. next_ngram \notin write_buffer
    BY <1>3, DueIsBuffered DEF StopWriting, InOnePlace
  <2>. QED  BY <1>3, <2>1 DEF StopWriting
<1>4. CASE CheckWriterDone  BY <1>4 DEF CheckWriterDone
<1>5. CASE LockWriteQ  BY <1>5 DEF LockWriteQ
<1>6. CASE SleepWriteQ  BY <1>6 DEF SleepWriteQ
<1>7. CASE PopWriteQ  BY <1>7 DEF PopWriteQ
<1>8. CASE PopWriteLockFree  BY <1>8 DEF PopWriteLockFree, TryPopWriteQ
<1>9. CASE DrainWriteQ  BY <1>9 DEF DrainWriteQ, TryPopWriteQ
<1>10. CASE CountWritten  BY <1>10 DEF CountWritten, Counted, AfterWrite
<1>11. CASE FinishIndex  BY <1>11 DEF FinishIndex
<1>. QED
  BY <1>1, <1>2, <1>3, <1>4, <1>5, <1>6, <1>7, <1>8, <1>9, <1>10, <1>11 DEF WriteThread

LEMMA NextCounts == IInv /\ Counting /\ [Next]_vars => Counting'
<1>. SUFFICES ASSUME IInv, Counting, [Next]_vars PROVE Counting'
  OBVIOUS
<1>1. CASE WriteThread  BY <1>1, WriterCounts
<1>2. CASE OpenIndex
  <2>1. /\ wpc = "unstarted" /\ wpc' = "loop"
        /\ UNCHANGED <<write_counter, next_ngram, write_buffer, num_ngrams>>
    BY <1>2 DEF OpenIndex, IInv, SendBound
  <2>. QED  BY <2>1 DEF Counting
<1>3. CASE UNCHANGED writeVars
  BY <1>3 DEF writeVars, Counting
<1>4. CASE Main
  BY <1>2, <1>3, <1>4
  DEF Main, OpenFails, CheckBacklog, CaughtUp, SendNgram, NotifyCompressor, EndMerge,
      QuitCompress, WakeCompress, JoinCompress, QuitWriter, WakeWriter, JoinWriter
<1>5. CASE \E c \in Compressors : Compressor(c)
  BY <1>3, <1>5
  DEF Compressor, CheckDone, LockCompressQ, SleepCompressQ, PopCompressQ, PopLockFree,
      DrainCompressQ, Compress, NotifyWriter, CountCompressed, unchangedByCompressor
<1>6. CASE SpuriousWakeup  BY <1>3, <1>6 DEF SpuriousWakeup
<1>7. CASE UNCHANGED vars  BY <1>3, <1>7 DEF vars
<1>. QED  BY <1>1, <1>4, <1>5, <1>6, <1>7 DEF Next

-----------------------------------------------------------------------------
EndInv == IInv /\ Shutdown /\ InOrder /\ Counting

LEMMA InitEndInv == Init => EndInv
<1>. SUFFICES ASSUME Init PROVE EndInv
  OBVIOUS
<1>1. IInv  BY InitIInv
<1>2. Shutdown
  BY DEF Init, Shutdown, MainEnds, CompressorsEnd, WriterEnds
<1>3. InOrder
  BY DEF Init, InOrder, EmptyQueue
<1>4. Counting
  BY FS_EmptySet DEF Init, Counting
<1>. QED  BY <1>1, <1>2, <1>3, <1>4 DEF EndInv

THEOREM EndInvariance == Spec => []EndInv
<1>1. EndInv /\ [Next]_vars => EndInv'
  BY NextIInv, NextShutsDown, NextInOrder, NextCounts DEF EndInv
<1>. QED  BY <1>1, InitEndInv, PTL DEF Spec

(* Once the writer is through with its queue, all that is missing from the *)
(* file is what no compress thread took, the end of the merge order.       *)
LEMMA WriterLeavesNothing ==
    ASSUME EndInv, wpc \in {"finish", "done"}
    PROVE  /\ write_buffer = {} /\ writeQ.items = <<>>
           /\ Len(written) = next_ngram /\ next_ngram \in Nat
           /\ write_counter = next_ngram
           /\ Len(compressQ.items) \in Nat
           /\ next_ngram + Len(compressQ.items) = NumNgrams
           /\ run_lock_free /\ Compressors # {} => compressQ.items = <<>>
<1>. DEFINE n == Len(compressQ.items)
            k == sent - n
<1>1. /\ writerdone /\ ~failed /\ sent = NumNgrams
      /\ \A c \in Compressors : cpc[c] = "done"
      /\ writeQ.items = <<>>
      /\ run_lock_free /\ Compressors # {} => compressQ.items = <<>>
  BY DEF EndInv, Shutdown, MainEnds, CompressorsEnd, WriterEnds
<1>2. /\ sent \in Nat /\ n \in Nat /\ next_ngram \in Nat
      /\ compressQ.items \in Seq(Orders) /\ write_buffer \subseteq Nat
  BY NumNgramsAssumption DEF EndInv, IInv, TypeOK, QueueOf, Orders
<1>3. Range(compressQ.items) \cup write_buffer \cup (0 .. next_ngram - 1) = 0 .. sent - 1
  <2>1. BeingCompressed = {} /\ BeingInserted = {} /\ Range(writeQ.items) = {}
    BY <1>1 DEF BeingCompressed, BeingInserted, Range
  <2>. QED  BY <2>1 DEF EndInv, IInv, InOnePlace, NothingVanishes, IsWritten
<1>4. /\ Range(compressQ.items) \cap (write_buffer \cup (0 .. next_ngram - 1)) = {}
      /\ write_buffer \cap (0 .. next_ngram - 1) = {}
  BY DEF EndInv, IInv, InOnePlace, NothingTwice, IsWritten
<1>5. k \in Nat /\ Range(compressQ.items) = k .. sent - 1
  <2>1. k \in Int  BY <1>2
  <2>2. \A i \in 1 .. n : compressQ.items[i] = k + i - 1 /\ compressQ.items[i] \in Nat
    <3>1. \A i \in 1 .. n : compressQ.items[i] \in Orders
      BY <1>2
    <3>2. Orders \subseteq Nat
      BY NumNgramsAssumption DEF Orders
    <3>. QED  BY <3>1, <3>2 DEF EndInv, InOrder
  <2>3. k \in Nat
    <3>1. CASE n = 0  BY <1>2, <3>1
    <3>2. CASE n # 0
      <4>1. 1 \in 1 .. n  BY <1>2, <3>2
      <4>. HIDE DEF k, n
      <4>. QED  BY <2>1, <2>2, <4>1
    <3>. QED  BY <3>1, <3>2
  <2>4. sent = k + n  BY <1>2
  <2>5. Range(compressQ.items) = {compressQ.items[i] : i \in 1 .. n}  BY DEF Range
  <2>6. {compressQ.items[i] : i \in 1 .. n} = k .. sent - 1
    <3>. HIDE DEF k, n
    <3>1. \A j \in k .. sent - 1 : j - k + 1 \in 1 .. n /\ compressQ.items[j - k + 1] = j
      BY <1>2, <2>1, <2>2, <2>4
    <3>2. \A i \in 1 .. n : compressQ.items[i] \in k .. sent - 1
      BY <1>2, <2>1, <2>2, <2>4
    <3>. QED  BY <3>1, <3>2
  <2>. QED  BY <2>3, <2>5, <2>6
<1>6. next_ngram \notin write_buffer
  BY DEF EndInv, Counting
<1>. HIDE DEF k
<1>7. write_buffer \cup (0 .. next_ngram - 1) = 0 .. k - 1
  <2>1. k <= sent /\ (k .. sent - 1) \cup (0 .. k - 1) = 0 .. sent - 1
    BY <1>2, <1>5 DEF k
  <2>2. (k .. sent - 1) \cap (0 .. k - 1) = {}
    BY <1>2, <1>5
  <2>. QED  BY <1>3, <1>4, <1>5, <2>1, <2>2
<1>8. write_buffer = {}
  <2>. SUFFICES ASSUME NEW x \in write_buffer PROVE FALSE
    OBVIOUS
  <2>1. x \in Nat /\ x \notin 0 .. next_ngram - 1 /\ x # next_ngram /\ x \in 0 .. k - 1
    BY <1>2, <1>4, <1>6, <1>7
  <2>2. next_ngram \in 0 .. k - 1 /\ next_ngram \notin 0 .. next_ngram - 1
    BY <1>2, <1>5, <2>1
  <2>. QED  BY <1>6, <1>7, <2>2
<1>9. next_ngram = k
  <2>1. 0 .. next_ngram - 1 = 0 .. k - 1  BY <1>7, <1>8
  <2>2. next_ngram \notin 0 .. next_ngram - 1 /\ k \notin 0 .. k - 1
    BY <1>2, <1>5
  <2>. QED  BY <1>2, <1>5, <2>1, <2>2
<1>10. write_counter = next_ngram
  <2>1. Cardinality(write_buffer) = 0  BY <1>8, FS_EmptySet
  <2>. QED  BY <1>2, <2>1 DEF EndInv, Counting, IInv, TypeOK
<1>11. next_ngram + n = NumNgrams
  BY <1>1, <1>2, <1>9 DEF k
<1>. QED
  BY <1>1, <1>2, <1>8, <1>10, <1>11 DEF EndInv, IInv, WrittenInMergeOrder

(* What the index lacks when bgindex returns is the end of the merge order *)
(* that no compress thread took, and nothing is stuck anywhere else.       *)
THEOREM CutIsAtTheEnd == Spec => []CutOnlyAtTheEnd
<1>1. EndInv => CutOnlyAtTheEnd
  <2>. SUFFICES ASSUME EndInv, mpc = "exit0" PROVE CutOnlyAtTheEnd
    BY DEF CutOnlyAtTheEnd
  <2>1. wpc = "done" /\ num_ngrams = write_counter
    BY DEF EndInv, Shutdown, MainEnds, Counting
  <2>. QED  BY <2>1, WriterLeavesNothing DEF CutOnlyAtTheEnd
<1>. QED  BY <1>1, EndInvariance, PTL

(* With the lock-free queues and a compress thread, every n-gram is in the *)
(* index that a successful build leaves, and the header counts them.       *)
THEOREM LockFreeLosesNothing ==
    ASSUME Compressors # {}
    PROVE  Spec => []LockFreeIsComplete
<1>1. EndInv => LockFreeIsComplete
  <2>. SUFFICES ASSUME EndInv, run_lock_free, mpc = "exit0"
                PROVE  Len(written) = NumNgrams /\ num_ngrams = NumNgrams
    BY DEF LockFreeIsComplete
  <2>1. wpc = "done" /\ num_ngrams = write_counter
    BY DEF EndInv, Shutdown, MainEnds, Counting
  <2>2. Len(compressQ.items) = 0
    BY <2>1, WriterLeavesNothing
  <2>. QED  BY <2>1, <2>2, WriterLeavesNothing
<1>. QED  BY <1>1, EndInvariance, PTL

-----------------------------------------------------------------------------
(* The pipeline implements IndexBuild: the file only grows, one n-gram at  *)
(* a time and in merge order, with the lock-free queues it is finished     *)
(* only when it is complete, and it is given up only while it is empty.    *)
LEMMA StepIsBuild ==
    ASSUME Compressors # {}, EndInv, [Next]_vars
    PROVE  [Build!Next]_Build!vars
<1>. DEFINE status == IF mpc = "exit1" THEN "failed"
                      ELSE IF wpc = "done" THEN "complete" ELSE "building"
<1>. SUFFICES Build!Next \/ UNCHANGED <<run_lock_free, written, status>>
  BY DEF Build!vars
<1>0. run_lock_free' = run_lock_free
  BY DEF Next, vars, Main, OpenIndex, OpenFails, CheckBacklog, CaughtUp, SendNgram,
         NotifyCompressor, EndMerge, QuitCompress, WakeCompress, JoinCompress, QuitWriter,
         WakeWriter, JoinWriter, unchangedByMain, Compressor, CheckDone, LockCompressQ,
         SleepCompressQ, PopCompressQ, PopLockFree, DrainCompressQ, Compress, NotifyWriter,
         CountCompressed, unchangedByCompressor, WriteThread, CheckWriterDone, LockWriteQ,
         SleepWriteQ, PopWriteQ, PopWriteLockFree, DrainWriteQ, InsertNote, WriteNext,
         StopWriting, CountWritten, FinishIndex, unchangedByWriter, SpuriousWakeup
<1>1. mpc = "exit1" => wpc = "unstarted"
  BY DEF EndInv, Shutdown, MainEnds, WriterEnds
<1>2. CASE WriteNext
  <2>1. /\ status = "building" /\ status' = "building"
    BY <1>1, <1>2 DEF WriteNext, unchangedByWriter, mainVars
  <2>2. Min(write_buffer) = next_ngram /\ next_ngram \in Orders /\ Len(written) = next_ngram
    BY <1>2, DueIsFirst DEF WriteNext, EndInv, IInv, TypeOK, WrittenInMergeOrder
  <2>3. Len(written) < NumNgrams /\ written' = Append(written, Len(written))
    BY <1>2, <2>2, NumNgramsAssumption DEF WriteNext, Orders
  <2>. QED  BY <1>0, <2>1, <2>3 DEF Build!Next, Build!Extend
<1>3. CASE FinishIndex
  <2>1. /\ status = "building" /\ status' = "complete" /\ written' = written
    BY <1>1, <1>3 DEF FinishIndex, unchangedByWriter, mainVars
  <2>2. run_lock_free => Len(written) = NumNgrams
    <3>1. wpc = "finish"  BY <1>3 DEF FinishIndex
    <3>2. ASSUME run_lock_free PROVE Len(compressQ.items) = 0
      BY <3>1, <3>2, WriterLeavesNothing
    <3>. QED  BY <3>1, <3>2, WriterLeavesNothing
  <2>. QED  BY <1>0, <2>1, <2>2 DEF Build!Next, Build!Complete
<1>4. CASE JoinCompress
  <2>1. written' = written /\ wpc' = wpc /\ mpc # "exit1"
    BY <1>4 DEF JoinCompress, writeVars
  <2>2. CASE failed
    <3>1. wpc = "unstarted" /\ written = <<>>
      BY <2>2 DEF EndInv, Shutdown, WriterEnds
    <3>2. status = "building" /\ status' = "failed"
      BY <1>4, <2>1, <2>2, <3>1 DEF JoinCompress
    <3>. QED  BY <1>0, <2>1, <3>1, <3>2 DEF Build!Next, Build!Fail
  <2>3. CASE ~failed
    <3>1. mpc' # "exit1"  BY <1>4, <2>3 DEF JoinCompress
    <3>. QED  BY <1>0, <2>1, <3>1
  <2>. QED  BY <2>2, <2>3
<1>5. CASE Main /\ ~JoinCompress
  <2>1. /\ written' = written /\ mpc # "exit1" /\ mpc' # "exit1"
        /\ wpc' = "done" <=> wpc = "done"
    BY <1>5
    DEF Main, OpenIndex, OpenFails, CheckBacklog, CaughtUp, SendNgram, NotifyCompressor,
        EndMerge, QuitCompress, WakeCompress, QuitWriter, WakeWriter, JoinWriter, writeVars,
        EndInv, IInv, SendBound
  <2>. QED  BY <1>0, <2>1
<1>6. CASE \E c \in Compressors : Compressor(c)
  <2>1. UNCHANGED <<written, mpc, wpc>>
    BY <1>6
    DEF Compressor, CheckDone, LockCompressQ, SleepCompressQ, PopCompressQ, PopLockFree,
        DrainCompressQ, Compress, NotifyWriter, CountCompressed, unchangedByCompressor, mainVars,
        writeVars
  <2>. QED  BY <1>0, <2>1
<1>7. CASE WriteThread /\ ~WriteNext /\ ~FinishIndex
  <2>1. /\ written' = written /\ mpc' = mpc
        /\ wpc # "done" /\ wpc' # "done"
    BY <1>7
    DEF WriteThread, CheckWriterDone, LockWriteQ, SleepWriteQ, PopWriteQ, PopWriteLockFree,
        DrainWriteQ, TryPopWriteQ, InsertNote, StopWriting, CountWritten, AfterWrite,
        unchangedByWriter, mainVars
  <2>. QED  BY <1>0, <2>1
<1>8. CASE SpuriousWakeup
  BY <1>0, <1>8 DEF SpuriousWakeup, mainVars, writeVars
<1>9. CASE UNCHANGED vars
  BY <1>9 DEF vars, mainVars, writeVars
<1>. QED  BY <1>2, <1>3, <1>4, <1>5, <1>6, <1>7, <1>8, <1>9 DEF Next

THEOREM PipelineImplementsBuild ==
    ASSUME Compressors # {}
    PROVE  Spec => Build!Spec
<1>1. Init => Build!Init
  BY DEF Init, Build!Init
<1>2. EndInv /\ [Next]_vars => [Build!Next]_Build!vars
  BY StepIsBuild
<1>. QED  BY <1>1, <1>2, EndInvariance, PTL DEF Spec, Build!Spec

-----------------------------------------------------------------------------
(* The notify outside the lock is enough: nobody goes to sleep on an item, *)
(* and after a push the notify that wakes one is still to come.            *)
Sleeping ==
    /\ \A c \in Compressors : cpc[c] = "sleep" => compressQ.items = <<>>
    /\ wpc = "sleep" => writeQ.items = <<>>
    /\ run_lock_free => compressQ.waiters = {} /\ writeQ.waiters = {}
    /\ NobodySleepsOnWork

LEMMA MainWakes ==
    ASSUME Compressors # {}, IInv, Sleeping, Main
    PROVE  Sleeping'
<1>. USE DEF unchangedByMain, compVars, writeVars
<1>0. /\ compressQ \in QueueOf(Orders, Compressors) /\ writeQ \in QueueOf(Orders, {Writer})
      /\ compressQ.waiters \subseteq Compressors
  BY DEF IInv, TypeOK, QueueOf
<1>1. CASE SendNgram
  <2>1. sent \in Orders
    BY <1>1, NumNgramsAssumption DEF IInv, TypeOK, SendBound, SendNgram, Orders
  <2>2. compressQ'.waiters = compressQ.waiters
    BY <1>0, <1>1, <2>1, QueuePush DEF SendNgram
  <2>3. \A c \in Compressors : cpc[c] # "sleep"
    BY <1>1, ThreadsAssumption DEF IInv, Locking, SendNgram, IsFree
  <2>. QED  BY <1>1, <2>2, <2>3 DEF SendNgram, Sleeping, NobodySleepsOnWork
<1>2. CASE NotifyCompressor
  <2>1. /\ compressQ'.items = compressQ.items
        /\ compressQ'.waiters \subseteq compressQ.waiters
        /\ ~(Compressors \subseteq compressQ'.waiters)
    BY <1>0, <1>2, QueueWake, QueueNotify DEF NotifyCompressor
  <2>. QED  BY <1>2, <2>1 DEF NotifyCompressor, Sleeping, NobodySleepsOnWork
<1>3. CASE QuitCompress \/ WakeCompress \/ QuitWriter \/ WakeWriter
  <2>1. /\ compressQ'.items = compressQ.items /\ compressQ'.waiters \subseteq compressQ.waiters
        /\ writeQ'.items = writeQ.items /\ writeQ'.waiters \subseteq writeQ.waiters
    BY <1>0, <1>3, QueueQuit DEF QuitCompress, WakeCompress, QuitWriter, WakeWriter
  <2>2. UNCHANGED <<cpc, wpc, run_lock_free>> /\ mpc # "notify"
    BY <1>3 DEF QuitCompress, WakeCompress, QuitWriter, WakeWriter
  <2>. QED  BY <2>1, <2>2 DEF Sleeping, NobodySleepsOnWork
<1>4. CASE /\ UNCHANGED <<compressQ, writeQ, cpc, run_lock_free>>
           /\ mpc # "notify" /\ (wpc' = "sleep" => wpc = "sleep")
  BY <1>4 DEF Sleeping, NobodySleepsOnWork
<1>. QED
  BY <1>1, <1>2, <1>3, <1>4
  DEF Main, OpenIndex, OpenFails, CheckBacklog, CaughtUp, EndMerge, JoinCompress, JoinWriter

LEMMA CompressorWakes ==
    ASSUME Compressors # {}, IInv, Sleeping, NEW c \in Compressors, Compressor(c)
    PROVE  Sleeping'
<1>. USE DEF unchangedByCompressor, mainVars, writeVars
<1>0. /\ compressQ \in QueueOf(Orders, Compressors) /\ writeQ \in QueueOf(Orders, {Writer})
      /\ compressQ.waiters \subseteq Compressors /\ writeQ.waiters \subseteq {Writer}
      /\ cpc \in [Compressors -> CompressorPCs] /\ run_lock_free \in BOOLEAN
  BY DEF IInv, TypeOK, QueueOf
<1>1. CASE LockCompressQ(c)
  <2>1. compressQ'.items = compressQ.items /\ compressQ'.waiters = compressQ.waiters
    BY <1>0, <1>1, QueueControl DEF LockCompressQ
  <2>2. cpc'[c] = "sleep" => compressQ.items = <<>>
    BY <1>0, <1>1 DEF LockCompressQ, MustWait
  <2>. QED  BY <1>0, <1>1, <2>1, <2>2 DEF LockCompressQ, Sleeping, NobodySleepsOnWork
<1>2. CASE SleepCompressQ(c)
  <2>1. compressQ'.items = compressQ.items /\ compressQ.items = <<>>
    BY <1>0, <1>2, QueueControl DEF SleepCompressQ, Sleeping
  <2>2. ~run_lock_free
    BY <1>0, <1>2, ThreadsAssumption DEF SleepCompressQ, IInv, Locking, IsFree
  <2>. QED  BY <1>0, <1>2, <2>1, <2>2 DEF SleepCompressQ, Sleeping, NobodySleepsOnWork
<1>3. CASE compressQ.items # <<>> /\ compressQ' = Popped(compressQ)
           /\ ((PopCompressQ(c) /\ ~compressQ.quit) \/ PopLockFree(c) \/ DrainCompressQ(c))
  <2>1. compressQ'.waiters = compressQ.waiters
    BY <1>0, <1>3, QueuePop
  <2>2. /\ UNCHANGED <<mpc, wpc, writeQ, run_lock_free>>
        /\ cpc' = [cpc EXCEPT ![c] = "compress"] /\ cpc[c] # "notify"
    BY <1>3 DEF PopCompressQ, PopLockFree, DrainCompressQ, TryPop
  <2>3. \A d \in Compressors : cpc'[d] # "sleep"
    <3>1. compressQ.holder \in {c, NoThread}
      BY <1>3, <1>0 DEF IInv, Locking, IsFree, PopCompressQ, PopLockFree, DrainCompressQ
    <3>. QED  BY <1>0, <2>2, <3>1, ThreadsAssumption DEF IInv, Locking
  <2>. QED  BY <1>0, <1>3, <2>1, <2>2, <2>3 DEF Sleeping, NobodySleepsOnWork
<1>4. CASE PopCompressQ(c) /\ compressQ.quit
  <2>1. compressQ'.waiters = compressQ.waiters /\ compressQ'.items = compressQ.items
    BY <1>0, <1>4, QueueRelease DEF PopCompressQ
  <2>. QED  BY <1>0, <1>4, <2>1 DEF PopCompressQ, Sleeping, NobodySleepsOnWork
<1>5. CASE Compress(c)
  <2>1. cnote[c] \in Orders
    BY <1>5, HeldAreSent DEF Compress
  <2>2. writeQ'.waiters = writeQ.waiters /\ wpc # "sleep"
    BY <1>0, <1>5, <2>1, QueuePush, ThreadsAssumption DEF Compress, IInv, Locking, IsFree
  <2>. QED  BY <1>0, <1>5, <2>2 DEF Compress, Sleeping, NobodySleepsOnWork
<1>6. CASE NotifyWriter(c)
  <2>1. /\ writeQ'.items = writeQ.items /\ writeQ'.waiters \subseteq writeQ.waiters
        /\ Writer \notin writeQ'.waiters
    BY <1>0, <1>6, QueueWake, QueueNotify DEF NotifyWriter
  <2>. QED  BY <1>0, <1>6, <2>1 DEF NotifyWriter, Sleeping, NobodySleepsOnWork
<1>7. CASE /\ UNCHANGED <<compressQ, writeQ, mpc, wpc, run_lock_free>>
           /\ cpc[c] # "notify" /\ cpc'[c] # "sleep"
           /\ \A d \in Compressors \ {c} : cpc'[d] = cpc[d]
  BY <1>7 DEF Sleeping, NobodySleepsOnWork
<1>8. CASE CheckDone(c) \/ CountCompressed(c)
  BY <1>0, <1>7, <1>8 DEF CheckDone, CountCompressed, AfterCount
<1>9. CASE (PopLockFree(c) \/ DrainCompressQ(c)) /\ compressQ.items = <<>>
  BY <1>0, <1>7, <1>9 DEF PopLockFree, DrainCompressQ, TryPop
<1>10. CASE PopLockFree(c) \/ DrainCompressQ(c)
  BY <1>3, <1>9, <1>10 DEF PopLockFree, DrainCompressQ, TryPop
<1>11. CASE PopCompressQ(c)
  BY <1>3, <1>4, <1>11 DEF PopCompressQ, IInv, Locking
<1>. QED  BY <1>1, <1>2, <1>5, <1>6, <1>8, <1>10, <1>11 DEF Compressor

LEMMA WriterWakes ==
    ASSUME Compressors # {}, IInv, Sleeping, WriteThread
    PROVE  Sleeping'
<1>. USE DEF unchangedByWriter, mainVars, compVars
<1>0. writeQ \in QueueOf(Orders, {Writer}) /\ run_lock_free \in BOOLEAN
  BY DEF IInv, TypeOK
<1>1. CASE LockWriteQ
  <2>1. writeQ'.items = writeQ.items /\ writeQ'.waiters = writeQ.waiters
    BY <1>0, <1>1, QueueControl DEF LockWriteQ
  <2>. QED  BY <1>1, <2>1 DEF LockWriteQ, MustWait, Sleeping, NobodySleepsOnWork
<1>2. CASE SleepWriteQ
  <2>1. writeQ'.items = writeQ.items /\ writeQ.items = <<>>
    BY <1>0, <1>2, QueueControl DEF SleepWriteQ, Sleeping
  <2>2. ~run_lock_free
    BY <1>0, <1>2, ThreadsAssumption DEF SleepWriteQ, IInv, Locking, IsFree
  <2>. QED  BY <1>2, <2>1, <2>2 DEF SleepWriteQ, Sleeping, NobodySleepsOnWork
<1>3. CASE writeQ.items # <<>> /\ writeQ' = Popped(writeQ)
           /\ ((PopWriteQ /\ ~writeQ.quit) \/ PopWriteLockFree \/ DrainWriteQ)
  <2>1. writeQ'.waiters = writeQ.waiters
    BY <1>0, <1>3, QueuePop
  <2>2. /\ UNCHANGED <<mpc, cpc, compressQ, run_lock_free>> /\ wpc' = "insert"
    BY <1>3 DEF PopWriteQ, PopWriteLockFree, DrainWriteQ, TryPopWriteQ
  <2>. QED  BY <1>3, <2>1, <2>2 DEF Sleeping, NobodySleepsOnWork
<1>4. CASE PopWriteQ /\ writeQ.quit
  <2>1. writeQ'.waiters = writeQ.waiters /\ writeQ'.items = writeQ.items
    BY <1>0, <1>4, QueueRelease DEF PopWriteQ
  <2>. QED  BY <1>4, <2>1 DEF PopWriteQ, Sleeping, NobodySleepsOnWork
<1>5. CASE UNCHANGED <<compressQ, writeQ, mpc, cpc, run_lock_free>> /\ wpc' # "sleep"
  BY <1>5 DEF Sleeping, NobodySleepsOnWork
<1>6. CASE (PopWriteLockFree \/ DrainWriteQ) /\ writeQ.items = <<>>
  BY <1>5, <1>6 DEF PopWriteLockFree, DrainWriteQ, TryPopWriteQ
<1>7. CASE PopWriteQ
  BY <1>3, <1>4, <1>7 DEF PopWriteQ, IInv, Locking
<1>8. CASE PopWriteLockFree \/ DrainWriteQ
  BY <1>3, <1>6, <1>8 DEF PopWriteLockFree, DrainWriteQ, TryPopWriteQ
<1>9. CASE \/ CheckWriterDone \/ InsertNote \/ WriteNext \/ StopWriting \/ CountWritten
           \/ FinishIndex
  BY <1>5, <1>9
  DEF CheckWriterDone, InsertNote, WriteNext, StopWriting, CountWritten, AfterWrite, FinishIndex
<1>. QED  BY <1>1, <1>2, <1>7, <1>8, <1>9 DEF WriteThread

LEMMA SpuriousKeepsSleeping ==
    ASSUME IInv, Sleeping, SpuriousWakeup
    PROVE  Sleeping'
<1>1. /\ compressQ'.items = compressQ.items /\ compressQ'.waiters \subseteq compressQ.waiters
      /\ writeQ'.items = writeQ.items /\ writeQ'.waiters \subseteq writeQ.waiters
  BY QueueWake DEF IInv, TypeOK, SpuriousWakeup
<1>. QED
  BY <1>1 DEF SpuriousWakeup, mainVars, compVars, writeVars, Sleeping, NobodySleepsOnWork

(* No queue has an item while all the threads it has sleep on it, unless   *)
(* the notify is about to come.                                            *)
THEOREM WorkIsNoticed ==
    ASSUME Compressors # {}
    PROVE  Spec => []NobodySleepsOnWork
<1>1. Init => Sleeping
  BY DEF Init, EmptyQueue, Sleeping, NobodySleepsOnWork
<1>2. IInv /\ Sleeping /\ [Next]_vars => Sleeping'
  <2>. SUFFICES ASSUME IInv, Sleeping, [Next]_vars PROVE Sleeping'
    OBVIOUS
  <2>1. CASE UNCHANGED vars
    BY <2>1 DEF vars, mainVars, compVars, writeVars, Sleeping, NobodySleepsOnWork
  <2>. QED
    BY <2>1, MainWakes, CompressorWakes, WriterWakes, SpuriousKeepsSleeping DEF Next
<1>3. Sleeping => NobodySleepsOnWork  BY DEF Sleeping
<1>. QED  BY <1>1, <1>2, <1>3, Invariance, PTL DEF Spec
=============================================================================

--------------------------- MODULE BgSearchProofs ----------------------------
(***************************************************************************)
(* Proofs about BgSearch for any number of indexes and processes, any      *)
(* limit and throttle, and however many candidates an index has.           *)
(***************************************************************************)
EXTENDS BgSearch, FiniteSetTheorems, SequenceTheorems, TLAPS

USE CountsAssumption

(* A search job puts at most as many candidates as an index may have. *)
Cands      == Nat \X Nat
SearchJobs == [kind : {"search"}, cands : {x \in Seq(Cands) : Len(x) <= setting.candidates}]
VerifyJobs == [kind : {"verify"}, cands : Seq(Cands)]
JobsFor(kind) == IF kind = "verify" THEN VerifyJobs ELSE SearchJobs

EngineData ==
    [kind : Kinds, state : {"loop", "busy", "stopped", "failed"},
     job : {<<>>} \cup {<<job>> : job \in SearchJobs \cup VerifyJobs},
     live : BOOLEAN, paused : BOOLEAN, started : {FALSE}]

DispatcherPCs ==
    {"top", "dispatch", "collect", "drain", "put", "candidates", "verified", "ended", "failed"}

(* Whatever a thread holds is a job of its kind.  No engine is ever        *)
(* replaced, since none says that it has started.                          *)
EnginesOK ==
    /\ processor_threads \in [Engines -> EngineData]
    /\ \A t \in Engines : processor_threads[t].state = "busy" =>
          \E job \in JobsFor(processor_threads[t].kind) : processor_threads[t].job = <<job>>

ManagerOK ==
    /\ setting \in Settings
    /\ sjobs \in Seq(SearchJobs) /\ vjobs \in Seq(VerifyJobs)
    /\ candidate_count \in Nat /\ verify_checked_count \in Nat
    /\ candidate_limit_reached \in BOOLEAN

ProcessorsOK ==
    /\ processor = [kind \in Kinds |-> processor[kind]]
    /\ \A kind \in Kinds : processor[kind] \in [jobs : Seq(JobsFor(kind)), done : Seq(JobsFor(kind))]

DispatcherOK ==
    /\ dpc \in DispatcherPCs /\ d \in Engines
    /\ results \in Seq(JobsFor(Thread.kind))
    /\ dpc \notin {"put", "candidates", "verified", "failed"} => results = <<>>
    /\ dpc \in {"candidates", "verified"} =>
          \E job \in SearchJobs \cup VerifyJobs : current = <<job>>

Types == EnginesOK /\ ManagerOK /\ ProcessorsOK /\ DispatcherOK

(* Nothing is queued for verification that is not counted; and before the  *)
(* limit is noticed, the search that is being put is the last one that can *)
(* take the count beyond it.                                               *)
Bound ==
    limit > 0 =>
        /\ ToVerify <= candidate_count /\ ToVerify <= limit + setting.candidates
        /\ ~candidate_limit_reached =>
              /\ candidate_count <= limit + setting.candidates
              /\ dpc = "candidates" =>
                    candidate_count + Len(current[1].cands) <= limit + setting.candidates

Inv == Types /\ Bound
-----------------------------------------------------------------------------
LEMMA SettingFacts ==
    ASSUME setting \in Settings
    PROVE  /\ setting.limit \in Nat /\ setting.candidates \in Nat /\ limit \in Nat
           /\ verify \in BOOLEAN /\ (limit > 0 => verify) /\ throttleat \in Nat
  BY SettingsAssumption DEF limit, verify, throttleat

(* Of the engines, finitely many verify at a time. *)
LEMMA EngineFacts ==
    /\ \E n \in Nat : Engines = 1 .. n
    /\ IsFiniteSet(Engines)
<1>1. PICK n \in Nat : Engines = 1 .. n
  <2>1. (IF verify THEN 2 ELSE 1) * numprocs \in Nat
    OBVIOUS
  <2>. QED  BY <2>1 DEF Engines
<1>2. IsFiniteSet(1 .. n)
  BY FS_Interval
<1>. QED  BY <1>1, <1>2

LEMMA VerifyingFacts ==
    ASSUME EnginesOK
    PROVE  /\ IsFiniteSet(VerifyingEngines) /\ Cardinality(VerifyingEngines) \in Nat
           /\ VerifyingEngines \subseteq Engines
<1>1. VerifyingEngines \subseteq Engines
  BY DEF EnginesOK, VerifyingEngines
<1>. QED  BY <1>1, EngineFacts, FS_Subset, FS_CardinalityType

LEMMA InitInv == Init => Inv
<1>. SUFFICES ASSUME Init PROVE Inv
  OBVIOUS
<1>1. setting \in Settings /\ found \in [1 .. NumIndexes -> 0 .. setting.candidates]
  BY DEF Init
<1>2. \A i \in 1 .. NumIndexes : SearchJob(i) \in SearchJobs
  <2>. TAKE i \in 1 .. NumIndexes
  <2>1. found[i] \in Nat /\ found[i] <= setting.candidates
    BY <1>1, SettingFacts
  <2>2. CandidatesOf(i) \in Seq(Cands) /\ Len(CandidatesOf(i)) = found[i]
    BY <2>1 DEF CandidatesOf, Cands
  <2>. QED  BY <2>1, <2>2 DEF SearchJob, SearchJobs
<1>3. ManagerOK
  <2>1. sjobs \in Seq(SearchJobs)
    <3>1. sjobs = [i \in 1 .. NumIndexes |-> SearchJob(i)]  BY DEF Init
    <3>. QED  BY <1>2, <3>1
  <2>2. /\ vjobs = <<>> /\ candidate_count = 0 /\ verify_checked_count = 0
        /\ candidate_limit_reached = FALSE
    BY DEF Init
  <2>3. vjobs \in Seq(VerifyJobs)  BY <2>2
  <2>. QED  BY <1>1, <2>1, <2>2, <2>3 DEF ManagerOK
<1>4. EnginesOK /\ \A t \in Engines : processor_threads[t].state = "loop"
  BY DEF Init, EnginesOK, FirstEngines, NewEngine, EngineData, Kinds
<1>5. ProcessorsOK
  BY DEF Init, ProcessorsOK, NewProcessor
<1>6. DispatcherOK
  <2>1. 1 \in Engines
    BY DEF Engines
  <2>. QED  BY <2>1 DEF Init, DispatcherOK, DispatcherPCs
<1>7. Bound
  <2>1. VerifyingEngines = {}
    BY <1>4 DEF VerifyingEngines, EnginesOK
  <2>2. Taken = 0 /\ Len(vjobs) = 0 /\ verify_checked_count = 0 /\ candidate_count = 0
        /\ processor["verify"] = [jobs |-> <<>>, done |-> <<>>] /\ dpc = "top"
    BY DEF Init, Taken, NewProcessor, Kinds
  <2>3. ToVerify = 0
    BY <2>1, <2>2, FS_EmptySet DEF ToVerify
  <2>. QED  BY <1>1, <2>2, <2>3, SettingFacts DEF Bound
<1>. QED  BY <1>3, <1>4, <1>5, <1>6, <1>7 DEF Inv, Types

-----------------------------------------------------------------------------
(* Both ends of a sequence *)
LEMMA EndsOf ==
    ASSUME NEW S, NEW q \in Seq(S), q # <<>>
    PROVE  /\ Last(q) \in S /\ Front(q) \in Seq(S) /\ Len(Front(q)) = Len(q) - 1
           /\ Head(q) \in S /\ Tail(q) \in Seq(S) /\ Len(Tail(q)) = Len(q) - 1
<1>1. Len(q) \in Nat /\ Len(q) >= 1 /\ \A n \in 1 .. Len(q) : q[n] \in S
  OBVIOUS
<1>2. Last(q) \in S
  BY <1>1 DEF Last
<1>3. Front(q) \in Seq(S) /\ Len(Front(q)) = Len(q) - 1
  <2>. DEFINE n == Len(q) - 1
  <2>0. n \in Int /\ 1 \in Int /\ (1 <= n \/ n = 0)
    <3>1. PICK m \in Nat : m = Len(q) /\ m >= 1
      BY <1>1
    <3>2. m - 1 \in Int /\ (1 <= m - 1 \/ m - 1 = 0)
      BY <3>1
    <3>. QED  BY <3>1, <3>2
  <2>a. \A k \in 1 .. n : k \in 1 .. Len(q)
    BY <1>1
  <2>1. n \in Int /\ 1 \in Int /\ (1 <= n \/ n = 0) /\ \A k \in 1 .. n : q[k] \in S
    BY <1>1, <2>0, <2>a
  <2>. HIDE DEF n
  <2>2. SubSeq(q, 1, n) \in Seq(S) /\ Len(SubSeq(q, 1, n)) = IF 1 <= n THEN n - 1 + 1 ELSE 0
    BY <2>1, SubSeqProperties
  <2>3. Len(SubSeq(q, 1, n)) = n
    BY <2>1, <2>2
  <2>. QED  BY <2>2, <2>3 DEF Front, n
<1>. QED  BY <1>2, <1>3, HeadTailProperties

LEMMA LongerBy ==
    ASSUME NEW S, NEW q \in Seq(S), NEW x \in S
    PROVE  Append(q, x) \in Seq(S) /\ Len(Append(q, x)) = Len(q) + 1 /\ Len(q) \in Nat
  BY AppendProperties

(* What depends on the setting only *)
LEMMA SettingFrame ==
    ASSUME setting' = setting
    PROVE  /\ Engines' = Engines /\ limit' = limit /\ verify' = verify
           /\ SearchJobs' = SearchJobs /\ EngineData' = EngineData
           /\ \A kind : JobsFor(kind)' = JobsFor(kind)
  BY DEF Engines, limit, verify, SearchJobs, EngineData, JobsFor

(* A step that leaves the jobs and counts as they are *)
LEMMA BoundUnchanged ==
    ASSUME Bound, setting' = setting, UNCHANGED <<candidate_count, candidate_limit_reached>>,
           ToVerify' = ToVerify \/ (ToVerify' \in Nat /\ ToVerify \in Nat /\ ToVerify' <= ToVerify),
           candidate_count \in Nat, setting \in Settings,
           dpc' # "candidates" \/ (dpc' = dpc /\ current' = current)
    PROVE  Bound'
  BY SettingFrame, SettingFacts DEF Bound

(* The lists and counts are the same. *)
LEMMA ToVerifyUnchanged ==
    ASSUME UNCHANGED <<verify_checked_count, vjobs, processor>>,
           VerifyingEngines' = VerifyingEngines, Taken' = Taken
    PROVE  ToVerify' = ToVerify
  BY DEF ToVerify

LEMMA ManagerUnchanged ==
    ASSUME ManagerOK, setting' = setting,
           UNCHANGED <<sjobs, vjobs, candidate_count, verify_checked_count,
                       candidate_limit_reached>>
    PROVE  ManagerOK'
  BY SettingFrame DEF ManagerOK

LEMMA ProcessorsUnchanged ==
    ASSUME ProcessorsOK, setting' = setting, UNCHANGED processor
    PROVE  ProcessorsOK'
  BY SettingFrame DEF ProcessorsOK

LEMMA EnginesUnchanged ==
    ASSUME EnginesOK, setting' = setting, UNCHANGED processor_threads
    PROVE  EnginesOK' /\ VerifyingEngines' = VerifyingEngines
  BY SettingFrame DEF EnginesOK, VerifyingEngines

LEMMA DispatcherUnchanged ==
    ASSUME DispatcherOK, setting' = setting, UNCHANGED <<dpc, d, results, current>>,
           \A t \in Engines : processor_threads'[t].kind = processor_threads[t].kind
    PROVE  DispatcherOK' /\ Taken' = Taken
<1>1. UNCHANGED <<dpc, d, results, current>> /\ d \in Engines
  BY DEF DispatcherOK
<1>2. Thread'.kind = Thread.kind
  BY <1>1 DEF Thread
<1>3. JobsFor(Thread.kind)' = JobsFor(Thread.kind)
  BY <1>2 DEF JobsFor, SearchJobs
<1>. QED  BY <1>1, <1>2, <1>3, SettingFrame DEF DispatcherOK, Taken

(* An engine takes up a job, or is rid of one. *)
LEMMA EngineMoves ==
    ASSUME EnginesOK, setting' = setting, NEW t \in Engines,
           NEW state \in {"loop", "busy", "failed"}, NEW job,
           state = "busy" => \E j \in JobsFor(processor_threads[t].kind) : job = <<j>>,
           state # "busy" => job = <<>>,
           processor_threads' = [processor_threads EXCEPT ![t].state = state, ![t].job = job]
    PROVE  /\ EnginesOK'
           /\ \A u \in Engines : processor_threads'[u].kind = processor_threads[u].kind
           /\ VerifyingEngines' =
                 IF processor_threads[t].kind # "verify" THEN VerifyingEngines
                 ELSE IF state = "busy" THEN VerifyingEngines \cup {t} ELSE VerifyingEngines \ {t}
<1>1. /\ Engines' = Engines /\ EngineData' = EngineData
      /\ \A kind : JobsFor(kind)' = JobsFor(kind)
  BY SettingFrame
<1>2. processor_threads \in [Engines -> EngineData]
  BY DEF EnginesOK
<1>3. job \in {<<>>} \cup {<<j>> : j \in SearchJobs \cup VerifyJobs}
  BY DEF JobsFor
<1>4. processor_threads' \in [Engines -> EngineData]
  BY <1>2, <1>3 DEF EngineData
<1>5. /\ processor_threads'[t].kind = processor_threads[t].kind
      /\ processor_threads'[t].state = state /\ processor_threads'[t].job = job
      /\ \A u \in Engines \ {t} : processor_threads'[u] = processor_threads[u]
  BY <1>2 DEF EngineData
<1>6. EnginesOK'
  <2>. SUFFICES ASSUME NEW u \in Engines, processor_threads'[u].state = "busy"
                PROVE  \E j \in JobsFor(processor_threads'[u].kind) :
                           processor_threads'[u].job = <<j>>
    BY <1>1, <1>4 DEF EnginesOK
  <2>1. CASE u = t  BY <1>5, <2>1
  <2>2. CASE u # t  BY <1>5, <2>2 DEF EnginesOK
  <2>. QED  BY <2>1, <2>2
<1>7. DOMAIN processor_threads = Engines /\ DOMAIN processor_threads' = Engines
  BY <1>2, <1>4
<1>8. VerifyingEngines' =
         IF processor_threads[t].kind # "verify" THEN VerifyingEngines
         ELSE IF state = "busy" THEN VerifyingEngines \cup {t} ELSE VerifyingEngines \ {t}
  BY <1>5, <1>7 DEF VerifyingEngines
<1>. QED  BY <1>5, <1>6, <1>8

(* The engines' flags are set, or one that is idle stops. *)
LEMMA FlagsMove ==
    ASSUME EnginesOK, setting' = setting, processor_threads' \in [Engines -> EngineData],
           \A t \in Engines :
               /\ processor_threads'[t].kind = processor_threads[t].kind
               /\ processor_threads'[t].job = processor_threads[t].job
               /\ processor_threads'[t].state = "busy" <=> processor_threads[t].state = "busy"
    PROVE  EnginesOK' /\ VerifyingEngines' = VerifyingEngines
<1>1. Engines' = Engines /\ EngineData' = EngineData /\ \A kind : JobsFor(kind)' = JobsFor(kind)
  BY SettingFrame
<1>2. DOMAIN processor_threads = Engines /\ DOMAIN processor_threads' = Engines
  BY DEF EnginesOK
<1>3. VerifyingEngines' = VerifyingEngines
  BY <1>2 DEF VerifyingEngines
<1>4. EnginesOK'
  BY <1>1 DEF EnginesOK
<1>. QED  BY <1>3, <1>4

(* A processor's lists change. *)
LEMMA ProcessorMoves ==
    ASSUME ProcessorsOK, setting' = setting, NEW kind \in Kinds,
           NEW jobs \in Seq(JobsFor(kind)), NEW done \in Seq(JobsFor(kind)),
           processor' = [processor EXCEPT ![kind] = [jobs |-> jobs, done |-> done]]
    PROVE  /\ ProcessorsOK'
           /\ processor'[kind].jobs = jobs /\ processor'[kind].done = done
           /\ kind # "verify" => processor'["verify"] = processor["verify"]
<1>1. \A k : JobsFor(k)' = JobsFor(k)
  BY SettingFrame
<1>2. /\ processor'[kind] = [jobs |-> jobs, done |-> done]
      /\ \A k \in Kinds \ {kind} : processor'[k] = processor[k]
      /\ DOMAIN processor' = Kinds
  BY DEF ProcessorsOK
<1>3. processor' = [k \in Kinds |-> processor'[k]]
  BY DEF ProcessorsOK
<1>4. ASSUME NEW k \in Kinds
      PROVE  processor'[k] \in [jobs : Seq(JobsFor(k)), done : Seq(JobsFor(k))]
  <2>1. CASE k = kind  BY <1>2, <2>1
  <2>2. CASE k # kind  BY <1>2, <2>2 DEF ProcessorsOK
  <2>. QED  BY <2>1, <2>2
<1>5. ProcessorsOK'
  BY <1>1, <1>3, <1>4 DEF ProcessorsOK
<1>. QED  BY <1>2, <1>5 DEF Kinds

LEMMA CountFacts ==
    ASSUME Types
    PROVE  /\ verify_checked_count \in Nat /\ Len(vjobs) \in Nat /\ Taken \in Nat
           /\ Len(processor["verify"].jobs) \in Nat /\ Len(processor["verify"].done) \in Nat
           /\ Cardinality(VerifyingEngines) \in Nat /\ candidate_count \in Nat
           /\ ToVerify \in Nat
<1>1. Len(results) \in Nat /\ Len(vjobs) \in Nat /\ verify_checked_count \in Nat
      /\ candidate_count \in Nat
  BY LenProperties DEF Types, DispatcherOK, ManagerOK
<1>2. processor["verify"] \in [jobs : Seq(VerifyJobs), done : Seq(VerifyJobs)]
  BY DEF Types, ProcessorsOK, Kinds, JobsFor
<1>3. Len(processor["verify"].jobs) \in Nat /\ Len(processor["verify"].done) \in Nat
  BY <1>2, LenProperties
<1>4. Cardinality(VerifyingEngines) \in Nat
  BY VerifyingFacts DEF Types
<1>5. Taken \in Nat
  BY <1>1 DEF Taken
<1>6. \A a, b, c, e, f, g \in Nat : a + b + c + e + f + g \in Nat
  OBVIOUS
<1>7. ToVerify \in Nat
  BY <1>1, <1>3, <1>4, <1>5, <1>6 DEF ToVerify
<1>. QED  BY <1>1, <1>3, <1>4, <1>5, <1>7

-----------------------------------------------------------------------------
(* The numbers that ToVerify adds up *)
LEMMA Counted ==
    ASSUME Types
    PROVE  \E a, b, c, e, f, g \in Nat :
               /\ verify_checked_count = a /\ Len(vjobs) = b
               /\ Len(processor["verify"].jobs) = c /\ Cardinality(VerifyingEngines) = e
               /\ Len(processor["verify"].done) = f /\ Taken = g
               /\ ToVerify = a + b + c + e + f + g
  BY CountFacts DEF ToVerify

(* What a Processor's methods return *)
LEMMA ProcessorValues ==
    ASSUME NEW S, NEW p \in [jobs : Seq(S), done : Seq(S)], NEW job
    PROVE  /\ p.jobs \in Seq(S) /\ p.done \in Seq(S)
           /\ JobStarted(p) = [jobs |-> Front(p.jobs), done |-> p.done]
           /\ JobAdded(p, job) = [jobs |-> Append(p.jobs, job), done |-> p.done]
           /\ JobFinished(p, job) = [jobs |-> p.jobs, done |-> Append(p.done, job)]
           /\ ResultsTaken(p) = [jobs |-> p.jobs, done |-> <<>>]
<1>1. PICK a \in Seq(S), b \in Seq(S) : p = [jobs |-> a, done |-> b]
  OBVIOUS
<1>2. p.jobs = a /\ p.done = b
  BY <1>1
<1>3. \A x : /\ [p EXCEPT !.jobs = x] = [jobs |-> x, done |-> b]
              /\ [p EXCEPT !.done = x] = [jobs |-> a, done |-> x]
  BY <1>1
<1>4. JobStarted(p) = [jobs |-> Front(a), done |-> b]
  BY <1>2, <1>3, Zenon DEF JobStarted
<1>5. /\ JobAdded(p, job) = [jobs |-> Append(a, job), done |-> b]
      /\ JobFinished(p, job) = [jobs |-> a, done |-> Append(b, job)]
  BY <1>2, <1>3, Zenon DEF JobAdded, JobFinished
<1>6. ResultsTaken(p) = [jobs |-> a, done |-> <<>>]
  BY <1>1 DEF ResultsTaken
<1>. QED  BY <1>2, <1>3, <1>4, <1>5, <1>6

(* The engines' steps *)
LEMMA StartJobInv ==
    ASSUME Inv, NEW t \in Engines, StartJob(t)
    PROVE  Inv'
<1>. DEFINE kind == processor_threads[t].kind
            p == processor[kind]
            job == NextJob(p)
<1>1. /\ setting' = setting /\ UNCHANGED <<dpc, d, results, current>>
      /\ UNCHANGED <<sjobs, vjobs, candidate_count, verify_checked_count,
                     candidate_limit_reached>>
      /\ processor_threads[t].state = "loop" /\ p.jobs # <<>>
      /\ processor_threads' = [processor_threads EXCEPT ![t].state = "busy", ![t].job = <<job>>]
      /\ processor' = [processor EXCEPT ![kind] = JobStarted(@)]
  BY DEF StartJob, HasJob, input, manager, queues, tallies, flags, dispatcher
<1>2. EnginesOK /\ ManagerOK /\ ProcessorsOK /\ DispatcherOK /\ Bound
  BY DEF Inv, Types
<1>3. kind \in Kinds
  BY <1>2 DEF EnginesOK, EngineData
<1>4. p \in [jobs : Seq(JobsFor(kind)), done : Seq(JobsFor(kind))]
  BY <1>2, <1>3 DEF ProcessorsOK
<1>5. /\ p.jobs \in Seq(JobsFor(kind)) /\ p.done \in Seq(JobsFor(kind))
      /\ JobStarted(p) = [jobs |-> Front(p.jobs), done |-> p.done]
  BY <1>4, ProcessorValues
<1>6. /\ job \in JobsFor(kind) /\ Front(p.jobs) \in Seq(JobsFor(kind))
      /\ Len(Front(p.jobs)) = Len(p.jobs) - 1
  BY <1>1, <1>5, EndsOf DEF NextJob
<1>7. processor' = [processor EXCEPT ![kind] = [jobs |-> Front(p.jobs), done |-> p.done]]
  BY <1>1, <1>5
<1>. HIDE DEF kind, p, job
<1>8. ProcessorsOK' /\ processor'[kind].jobs = Front(p.jobs) /\ processor'[kind].done = p.done
      /\ (kind # "verify" => processor'["verify"] = processor["verify"])
  BY <1>1, <1>2, <1>3, <1>5, <1>6, <1>7, ProcessorMoves, Zenon
<1>9. /\ EnginesOK'
      /\ \A u \in Engines : processor_threads'[u].kind = processor_threads[u].kind
      /\ VerifyingEngines' =
            IF kind # "verify" THEN VerifyingEngines ELSE VerifyingEngines \cup {t}
  BY <1>1, <1>2, <1>6, EngineMoves DEF kind
<1>10. ManagerOK' /\ DispatcherOK' /\ Taken' = Taken
  BY <1>1, <1>2, <1>9, ManagerUnchanged, DispatcherUnchanged
<1>11. ToVerify' = ToVerify
  <2>1. CASE kind # "verify"
    BY <1>1, <1>8, <1>9, <1>10, <2>1 DEF ToVerify
  <2>2. CASE kind = "verify"
    <3>1. t \notin VerifyingEngines
      BY <1>1, Zenon DEF VerifyingEngines
    <3>2. Cardinality(VerifyingEngines') = Cardinality(VerifyingEngines) + 1
      BY <1>2, <1>9, <2>2, <3>1, VerifyingFacts, FS_AddElement
    <3>3. /\ Len(processor'["verify"].jobs) = Len(processor["verify"].jobs) - 1
          /\ processor'["verify"].done = processor["verify"].done
      BY <1>6, <1>8, <2>2 DEF p
    <3>4. PICK a, b, c, e, f, g \in Nat :
              /\ verify_checked_count = a /\ Len(vjobs) = b
              /\ Len(processor["verify"].jobs) = c /\ Cardinality(VerifyingEngines) = e
              /\ Len(processor["verify"].done) = f /\ Taken = g
              /\ ToVerify = a + b + c + e + f + g
      BY Counted DEF Inv
    <3>5. ToVerify' = a + b + (c - 1) + (e + 1) + f + g
      BY <1>1, <1>10, <3>2, <3>3, <3>4 DEF ToVerify
    <3>. QED  BY <3>4, <3>5
  <2>. QED  BY <2>1, <2>2
<1>12. Bound'
  BY <1>1, <1>2, <1>11, BoundUnchanged DEF ManagerOK
<1>. QED  BY <1>8, <1>9, <1>10, <1>12 DEF Inv, Types

LEMMA ResultOfJob ==
    ASSUME NEW kind \in Kinds, NEW job \in JobsFor(kind)
    PROVE  Result(job) \in JobsFor(kind)
<1>1. CASE Result(job) = job
  BY <1>1
<1>2. CASE Result(job) = [job EXCEPT !.cands = <<>>] /\ job.kind # "search"
  <2>1. kind = "verify"
    BY <1>2 DEF Kinds, JobsFor, SearchJobs
  <2>2. job \in [kind : {"verify"}, cands : Seq(Cands)]
    BY <2>1 DEF JobsFor, VerifyJobs
  <2>3. [job EXCEPT !.cands = <<>>] = [kind |-> "verify", cands |-> <<>>]
    BY <2>2
  <2>4. <<>> \in Seq(Cands)
    OBVIOUS
  <2>. QED  BY <1>2, <2>1, <2>3, <2>4 DEF JobsFor, VerifyJobs
<1>. QED  BY <1>1, <1>2 DEF Result

LEMMA FinishJobInv ==
    ASSUME Inv, NEW t \in Engines, FinishJob(t)
    PROVE  Inv'
<1>. DEFINE kind == processor_threads[t].kind
            p == processor[kind]
            result == Result(processor_threads[t].job[1])
<1>1. /\ setting' = setting /\ UNCHANGED <<dpc, d, results, current>>
      /\ UNCHANGED <<sjobs, vjobs, candidate_count, verify_checked_count,
                     candidate_limit_reached>>
      /\ processor_threads[t].state = "busy"
      /\ processor_threads' = [processor_threads EXCEPT ![t].state = "loop", ![t].job = <<>>]
      /\ processor' = [processor EXCEPT ![kind] = JobFinished(@, result)]
  BY DEF FinishJob, input, manager, queues, tallies, flags, dispatcher
<1>2. EnginesOK /\ ManagerOK /\ ProcessorsOK /\ DispatcherOK /\ Bound
  BY DEF Inv, Types
<1>3. kind \in Kinds
  BY <1>2 DEF EnginesOK, EngineData
<1>4. result \in JobsFor(kind)
  <2>1. PICK job \in JobsFor(kind) : processor_threads[t].job = <<job>>
    BY <1>1, <1>2 DEF EnginesOK
  <2>. QED  BY <1>3, <2>1, ResultOfJob
<1>5. p \in [jobs : Seq(JobsFor(kind)), done : Seq(JobsFor(kind))]
  BY <1>2, <1>3 DEF ProcessorsOK
<1>6. /\ p.jobs \in Seq(JobsFor(kind)) /\ p.done \in Seq(JobsFor(kind))
      /\ JobFinished(p, result) = [jobs |-> p.jobs, done |-> Append(p.done, result)]
  BY <1>5, ProcessorValues
<1>7. /\ Append(p.done, result) \in Seq(JobsFor(kind))
      /\ Len(Append(p.done, result)) = Len(p.done) + 1
  BY <1>4, <1>6, LongerBy
<1>8. processor' = [processor EXCEPT ![kind] = [jobs |-> p.jobs, done |-> Append(p.done, result)]]
  BY <1>1, <1>6
<1>. HIDE DEF kind, p, result
<1>9. /\ ProcessorsOK' /\ processor'[kind].jobs = p.jobs
      /\ processor'[kind].done = Append(p.done, result)
      /\ (kind # "verify" => processor'["verify"] = processor["verify"])
  <2>1. setting' = setting
    BY <1>1
  <2>. QED  BY <1>2, <1>3, <1>6, <1>7, <1>8, <2>1, ProcessorMoves
<1>10. /\ EnginesOK'
       /\ \A u \in Engines : processor_threads'[u].kind = processor_threads[u].kind
       /\ VerifyingEngines' =
             IF kind # "verify" THEN VerifyingEngines ELSE VerifyingEngines \ {t}
  BY <1>1, <1>2, EngineMoves DEF kind
<1>11. ManagerOK' /\ DispatcherOK' /\ Taken' = Taken
  BY <1>1, <1>2, <1>10, ManagerUnchanged, DispatcherUnchanged
<1>12. ToVerify' = ToVerify
  <2>1. CASE kind # "verify"
    BY <1>1, <1>9, <1>10, <1>11, <2>1 DEF ToVerify
  <2>2. CASE kind = "verify"
    <3>1. t \in VerifyingEngines
      <4>1. DOMAIN processor_threads = Engines
        BY <1>2 DEF EnginesOK
      <4>. QED  BY <1>1, <2>2, <4>1 DEF VerifyingEngines, kind
    <3>2. Cardinality(VerifyingEngines') = Cardinality(VerifyingEngines) - 1
      BY <1>2, <1>10, <2>2, <3>1, VerifyingFacts, FS_RemoveElement
    <3>3. /\ Len(processor'["verify"].done) = Len(processor["verify"].done) + 1
          /\ processor'["verify"].jobs = processor["verify"].jobs
      BY <1>7, <1>9, <2>2 DEF p
    <3>4. PICK a, b, c, e, f, g \in Nat :
              /\ verify_checked_count = a /\ Len(vjobs) = b
              /\ Len(processor["verify"].jobs) = c /\ Cardinality(VerifyingEngines) = e
              /\ Len(processor["verify"].done) = f /\ Taken = g
              /\ ToVerify = a + b + c + e + f + g
      BY Counted DEF Inv
    <3>5. ToVerify' = a + b + c + (e - 1) + (f + 1) + g
      BY <1>1, <1>11, <3>2, <3>3, <3>4 DEF ToVerify
    <3>. QED  BY <3>4, <3>5
  <2>. QED  BY <2>1, <2>2
<1>13. Bound'
  BY <1>1, <1>2, <1>12, BoundUnchanged DEF ManagerOK
<1>. QED  BY <1>9, <1>10, <1>11, <1>13 DEF Inv, Types

(* What is verified by an engine that fails is not counted any more. *)
LEMMA EngineFailsInv ==
    ASSUME Inv, NEW t \in Engines, EngineFails(t)
    PROVE  Inv'
<1>1. /\ setting' = setting /\ UNCHANGED <<dpc, d, results, current, processor>>
      /\ UNCHANGED <<sjobs, vjobs, candidate_count, verify_checked_count,
                     candidate_limit_reached>>
      /\ processor_threads' = [processor_threads EXCEPT ![t].state = "failed", ![t].job = <<>>]
  BY DEF EngineFails, input, manager, queues, tallies, flags, dispatcher
<1>2. EnginesOK /\ ManagerOK /\ ProcessorsOK /\ DispatcherOK /\ Bound
  BY DEF Inv, Types
<1>3. /\ EnginesOK'
      /\ \A u \in Engines : processor_threads'[u].kind = processor_threads[u].kind
      /\ VerifyingEngines' \in {VerifyingEngines, VerifyingEngines \ {t}}
  BY <1>1, <1>2, EngineMoves
<1>4. ManagerOK' /\ ProcessorsOK' /\ DispatcherOK' /\ Taken' = Taken
  BY <1>1, <1>2, <1>3, ManagerUnchanged, ProcessorsUnchanged, DispatcherUnchanged
<1>5. /\ Cardinality(VerifyingEngines') \in Nat
      /\ Cardinality(VerifyingEngines') <= Cardinality(VerifyingEngines)
  <2>1. IsFiniteSet(VerifyingEngines) /\ Cardinality(VerifyingEngines) \in Nat
    BY <1>2, VerifyingFacts
  <2>2. /\ Cardinality(VerifyingEngines \ {t}) \in Nat
        /\ Cardinality(VerifyingEngines \ {t}) <= Cardinality(VerifyingEngines)
    <3>1. Cardinality(VerifyingEngines \ {t}) \in Nat
      BY <2>1, FS_RemoveElement, FS_CardinalityType
    <3>2. Cardinality(VerifyingEngines \ {t})
             \in {Cardinality(VerifyingEngines), Cardinality(VerifyingEngines) - 1}
      BY <2>1, FS_RemoveElement
    <3>. QED  BY <2>1, <3>1, <3>2
  <2>3. Cardinality(VerifyingEngines) <= Cardinality(VerifyingEngines)
    BY <2>1
  <2>. QED  BY <1>3, <2>1, <2>2, <2>3
<1>6. PICK a, b, c, e, f, g \in Nat :
          /\ verify_checked_count = a /\ Len(vjobs) = b
          /\ Len(processor["verify"].jobs) = c /\ Cardinality(VerifyingEngines) = e
          /\ Len(processor["verify"].done) = f /\ Taken = g
          /\ ToVerify = a + b + c + e + f + g
  BY Counted DEF Inv
<1>7. PICK h \in Nat : h = Cardinality(VerifyingEngines') /\ h <= e
  BY <1>5, <1>6
<1>8. ToVerify' = a + b + c + h + f + g
  BY <1>1, <1>4, <1>6, <1>7 DEF ToVerify
<1>9. ToVerify' <= ToVerify /\ ToVerify' \in Nat /\ ToVerify \in Nat
  BY <1>6, <1>7, <1>8
<1>10. Bound'
  BY <1>1, <1>2, <1>9, BoundUnchanged DEF ManagerOK
<1>. QED  BY <1>3, <1>4, <1>10 DEF Inv, Types

(* Steps that only move flags or main, or stop an idle engine *)
LEMMA FlagsInv ==
    ASSUME Inv, setting' = setting, UNCHANGED <<dpc, d, results, current, processor>>,
           UNCHANGED <<sjobs, vjobs, candidate_count, verify_checked_count,
                       candidate_limit_reached>>,
           processor_threads' \in [Engines -> EngineData],
           \A t \in Engines :
               /\ processor_threads'[t].kind = processor_threads[t].kind
               /\ processor_threads'[t].job = processor_threads[t].job
               /\ processor_threads'[t].state = "busy" <=> processor_threads[t].state = "busy"
    PROVE  Inv'
<1>1. EnginesOK /\ ManagerOK /\ ProcessorsOK /\ DispatcherOK /\ Bound
  BY DEF Inv, Types
<1>2. EnginesOK' /\ VerifyingEngines' = VerifyingEngines
  BY <1>1, FlagsMove
<1>3. ManagerOK' /\ ProcessorsOK' /\ DispatcherOK' /\ Taken' = Taken
  BY <1>1, ManagerUnchanged, ProcessorsUnchanged, DispatcherUnchanged
<1>4. ToVerify' = ToVerify
  BY <1>2, <1>3, ToVerifyUnchanged
<1>5. Bound'
  BY <1>1, <1>4, BoundUnchanged DEF ManagerOK
<1>. QED  BY <1>2, <1>3, <1>5 DEF Inv, Types

LEMMA EngineStopsInv ==
    ASSUME Inv, NEW t \in Engines, EngineStops(t)
    PROVE  Inv'
<1>1. /\ setting' = setting /\ UNCHANGED <<dpc, d, results, current, processor>>
      /\ UNCHANGED <<sjobs, vjobs, candidate_count, verify_checked_count,
                     candidate_limit_reached>>
      /\ processor_threads[t].state = "loop"
      /\ processor_threads' = [processor_threads EXCEPT ![t].state = "stopped"]
  BY DEF EngineStops, input, manager, queues, tallies, flags, dispatcher
<1>2. processor_threads \in [Engines -> EngineData]
  BY DEF Inv, Types, EnginesOK
<1>3. processor_threads' \in [Engines -> EngineData]
  BY <1>1, <1>2 DEF EngineData
<1>4. \A u \in Engines :
         /\ processor_threads'[u].kind = processor_threads[u].kind
         /\ processor_threads'[u].job = processor_threads[u].job
         /\ processor_threads'[u].state = "busy" <=> processor_threads[u].state = "busy"
  BY <1>1, <1>2 DEF EngineData
<1>. QED  BY <1>1, <1>3, <1>4, FlagsInv

-----------------------------------------------------------------------------
(* The dispatcher's steps *)
LEMMA NothingTaken ==
    /\ results = <<>> => Taken = 0
    /\ results' = <<>> => Taken' = 0
  BY EmptySeq DEF Taken

(* From one thread to another, or to another round, with empty hands *)
LEMMA EmptyHandedInv ==
    ASSUME Inv, setting' = setting,
           UNCHANGED <<sjobs, vjobs, candidate_count, verify_checked_count,
                       candidate_limit_reached, processor>>,
           EnginesOK', VerifyingEngines' = VerifyingEngines,
           results = <<>>, results' = <<>>, d' \in Engines,
           dpc' \in DispatcherPCs \ {"candidates", "verified"}
    PROVE  Inv'
<1>1. EnginesOK /\ ManagerOK /\ ProcessorsOK /\ DispatcherOK /\ Bound
  BY DEF Inv, Types
<1>2. ManagerOK' /\ ProcessorsOK'
  BY <1>1, ManagerUnchanged, ProcessorsUnchanged
<1>3. Engines' = Engines /\ Taken' = Taken
  BY SettingFrame, NothingTaken
<1>4. DispatcherOK'
  <2>1. results' \in Seq(JobsFor(Thread.kind)')
    OBVIOUS
  <2>. QED  BY <1>3, <2>1 DEF DispatcherOK
<1>5. ToVerify' = ToVerify
  BY <1>3, ToVerifyUnchanged
<1>6. Bound'
  BY <1>1, <1>5, BoundUnchanged DEF ManagerOK
<1>. QED  BY <1>2, <1>4, <1>6 DEF Inv, Types

LEMMA SilencedFacts ==
    ASSUME EnginesOK
    PROVE  /\ Silenced \in [Engines -> EngineData]
           /\ \A t \in Engines :
                 /\ Silenced[t].kind = processor_threads[t].kind
                 /\ Silenced[t].job = processor_threads[t].job
                 /\ Silenced[t].state = processor_threads[t].state
<1>1. processor_threads \in [Engines -> EngineData]
  BY DEF EnginesOK
<1>2. \A e \in EngineData :
         /\ [e EXCEPT !.live = FALSE] \in EngineData
         /\ [e EXCEPT !.live = FALSE].kind = e.kind
         /\ [e EXCEPT !.live = FALSE].job = e.job
         /\ [e EXCEPT !.live = FALSE].state = e.state
  BY DEF EngineData
<1>. QED  BY <1>1, <1>2, Zenon DEF Silenced

LEMMA StartRoundInv ==
    ASSUME Inv, StartRound
    PROVE  Inv'
<1>1. /\ setting' = setting /\ d' = 1 /\ dpc' \in {"dispatch", "drain"} /\ dpc = "top"
      /\ UNCHANGED <<sjobs, vjobs, candidate_count, verify_checked_count,
                     candidate_limit_reached, processor, results>>
      /\ processor_threads' \in {processor_threads, Silenced}
  BY DEF StartRound, input, manager, queues, tallies, flags
<1>2. EnginesOK /\ DispatcherOK
  BY DEF Inv, Types
<1>3. EnginesOK' /\ VerifyingEngines' = VerifyingEngines
  <2>1. CASE processor_threads' = processor_threads
    BY <1>1, <1>2, <2>1, EnginesUnchanged
  <2>2. CASE processor_threads' = Silenced
    BY <1>1, <1>2, <2>2, SilencedFacts, FlagsMove
  <2>. QED  BY <1>1, <2>1, <2>2
<1>4. results = <<>> /\ 1 \in Engines
  BY <1>1, <1>2 DEF DispatcherOK, Engines
<1>5. dpc' \in DispatcherPCs \ {"candidates", "verified"}
  BY <1>1 DEF DispatcherPCs
<1>. QED  BY <1>1, <1>3, <1>4, <1>5, EmptyHandedInv

(* No engine says that it has started, so none is ever replaced. *)
LEMMA NextThreadInv ==
    ASSUME Inv, NextThread
    PROVE  Inv'
<1>1. EnginesOK /\ DispatcherOK
  BY DEF Inv, Types
<1>2. ~MustReplace(Thread)
  <2>1. processor_threads[d] \in EngineData
    BY <1>1 DEF EnginesOK, DispatcherOK
  <2>. QED  BY <2>1 DEF EngineData, MustReplace, Thread
<1>3. /\ setting' = setting /\ results = <<>> /\ results' = results
      /\ UNCHANGED <<sjobs, vjobs, candidate_count, verify_checked_count,
                     candidate_limit_reached, processor>>
      /\ processor_threads' = processor_threads
      /\ dpc' \in {"drain", "ended", "dispatch", "top"}
      /\ d' \in {1, d} \/ (d < Len(processor_threads) /\ d' = d + 1)
  BY <1>2 DEF NextThread, input, manager, queues, tallies, flags
<1>4. d' \in Engines
  <2>1. PICK n \in Nat : Engines = 1 .. n
    BY EngineFacts
  <2>2. processor_threads \in Seq(EngineData) /\ DOMAIN processor_threads = 1 .. n
    BY <1>1, <2>1 DEF EnginesOK
  <2>3. Len(processor_threads) = n
    BY <2>1, <2>2, LenProperties
  <2>4. d \in 1 .. n
    BY <1>1, <2>1 DEF DispatcherOK
  <2>. QED  BY <1>3, <2>1, <2>3, <2>4
<1>5. EnginesOK' /\ VerifyingEngines' = VerifyingEngines
  BY <1>1, <1>3, EnginesUnchanged
<1>6. dpc' \in DispatcherPCs \ {"candidates", "verified"}
  BY <1>3 DEF DispatcherPCs
<1>. QED  BY <1>3, <1>4, <1>5, <1>6, EmptyHandedInv

(* A job goes to a processor: a candidate that waits is still counted. *)
LEMMA DispatchInv ==
    ASSUME Inv, Dispatch
    PROVE  Inv'
<1>1. EnginesOK /\ ManagerOK /\ ProcessorsOK /\ DispatcherOK /\ Bound
  BY DEF Inv, Types
<1>2. /\ setting' = setting /\ UNCHANGED <<d, results, current, processor_threads>>
      /\ UNCHANGED <<candidate_count, verify_checked_count, candidate_limit_reached>>
      /\ dpc = "dispatch" /\ dpc' = "collect"
  BY DEF Dispatch, input, tallies, flags
<1>3. EnginesOK' /\ VerifyingEngines' = VerifyingEngines /\ Taken' = Taken
  BY <1>1, <1>2, EnginesUnchanged DEF Taken, Thread
<1>4. DispatcherOK'
  <2>1. Engines' = Engines /\ JobsFor(Thread.kind)' = JobsFor(Thread.kind)
    BY <1>2, SettingFrame DEF Thread, JobsFor, SearchJobs
  <2>. QED  BY <1>1, <1>2, <2>1 DEF DispatcherOK, DispatcherPCs
<1>5. CASE UNCHANGED <<sjobs, vjobs, processor>>
  <2>1. ToVerify' = ToVerify
    BY <1>2, <1>3, <1>5, ToVerifyUnchanged
  <2>2. ManagerOK' /\ ProcessorsOK'
    BY <1>1, <1>2, <1>5, ManagerUnchanged, ProcessorsUnchanged
  <2>3. Bound'
    BY <1>1, <1>2, <2>1, BoundUnchanged DEF ManagerOK
  <2>. QED  BY <1>3, <1>4, <2>2, <2>3 DEF Inv, Types
<1>6. CASE /\ sjobs # <<>> /\ sjobs' = Front(sjobs) /\ vjobs' = vjobs
           /\ processor' = [processor EXCEPT !["search"] = JobAdded(@, Last(sjobs))]
  <2>1. Last(sjobs) \in SearchJobs /\ Front(sjobs) \in Seq(SearchJobs)
    BY <1>1, <1>6, EndsOf DEF ManagerOK
  <2>2. processor["search"] \in [jobs : Seq(SearchJobs), done : Seq(SearchJobs)]
    BY <1>1 DEF ProcessorsOK, JobsFor, Kinds
  <2>3. /\ processor["search"].jobs \in Seq(SearchJobs)
        /\ processor["search"].done \in Seq(SearchJobs)
        /\ JobAdded(processor["search"], Last(sjobs))
              = [jobs |-> Append(processor["search"].jobs, Last(sjobs)),
                 done |-> processor["search"].done]
    BY <2>2, ProcessorValues
  <2>4. Append(processor["search"].jobs, Last(sjobs)) \in Seq(SearchJobs)
    BY <2>1, <2>3, LongerBy
  <2>5. ProcessorsOK' /\ processor'["verify"] = processor["verify"]
    <3>1. "search" \in Kinds /\ "search" # "verify" /\ JobsFor("search") = SearchJobs
      BY DEF Kinds, JobsFor
    <3>2. processor' = [processor EXCEPT !["search"] =
                           [jobs |-> Append(processor["search"].jobs, Last(sjobs)),
                            done |-> processor["search"].done]]
      BY <1>6, <2>3
    <3>. QED  BY <1>1, <1>2, <2>3, <2>4, <3>1, <3>2, ProcessorMoves
  <2>6. ManagerOK'
    BY <1>1, <1>2, <1>6, <2>1, SettingFrame DEF ManagerOK
  <2>7. ToVerify' = ToVerify
    BY <1>2, <1>3, <1>6, <2>5 DEF ToVerify
  <2>8. Bound'
    BY <1>1, <1>2, <2>7, BoundUnchanged DEF ManagerOK
  <2>. QED  BY <1>3, <1>4, <2>5, <2>6, <2>8 DEF Inv, Types
<1>7. CASE /\ vjobs # <<>> /\ vjobs' = Front(vjobs) /\ sjobs' = sjobs
           /\ processor' = [processor EXCEPT !["verify"] = JobAdded(@, Last(vjobs))]
  <2>1. /\ Last(vjobs) \in VerifyJobs /\ Front(vjobs) \in Seq(VerifyJobs)
        /\ Len(Front(vjobs)) = Len(vjobs) - 1
    BY <1>1, <1>7, EndsOf DEF ManagerOK
  <2>2. processor["verify"] \in [jobs : Seq(VerifyJobs), done : Seq(VerifyJobs)]
    BY <1>1 DEF ProcessorsOK, JobsFor, Kinds
  <2>3. /\ processor["verify"].jobs \in Seq(VerifyJobs)
        /\ processor["verify"].done \in Seq(VerifyJobs)
        /\ JobAdded(processor["verify"], Last(vjobs))
              = [jobs |-> Append(processor["verify"].jobs, Last(vjobs)),
                 done |-> processor["verify"].done]
    BY <2>2, ProcessorValues
  <2>4. /\ Append(processor["verify"].jobs, Last(vjobs)) \in Seq(VerifyJobs)
        /\ Len(Append(processor["verify"].jobs, Last(vjobs)))
              = Len(processor["verify"].jobs) + 1
    BY <2>1, <2>3, LongerBy
  <2>5. /\ ProcessorsOK'
        /\ processor'["verify"].jobs = Append(processor["verify"].jobs, Last(vjobs))
        /\ processor'["verify"].done = processor["verify"].done
    <3>1. "verify" \in Kinds /\ JobsFor("verify") = VerifyJobs
      BY DEF Kinds, JobsFor
    <3>2. processor' = [processor EXCEPT !["verify"] =
                           [jobs |-> Append(processor["verify"].jobs, Last(vjobs)),
                            done |-> processor["verify"].done]]
      BY <1>7, <2>3
    <3>. QED  BY <1>1, <1>2, <2>3, <2>4, <3>1, <3>2, ProcessorMoves
  <2>6. ManagerOK'
    BY <1>1, <1>2, <1>7, <2>1, SettingFrame DEF ManagerOK
  <2>7. ToVerify' = ToVerify
    <3>1. PICK a, b, c, e, f, g \in Nat :
              /\ verify_checked_count = a /\ Len(vjobs) = b
              /\ Len(processor["verify"].jobs) = c /\ Cardinality(VerifyingEngines) = e
              /\ Len(processor["verify"].done) = f /\ Taken = g
              /\ ToVerify = a + b + c + e + f + g
      BY Counted DEF Inv
    <3>2. ToVerify' = a + (b - 1) + (c + 1) + e + f + g
      BY <1>2, <1>3, <1>7, <2>1, <2>4, <2>5, <3>1 DEF ToVerify
    <3>. QED  BY <3>1, <3>2
  <2>8. Bound'
    BY <1>1, <1>2, <2>7, BoundUnchanged DEF ManagerOK
  <2>. QED  BY <1>3, <1>4, <2>5, <2>6, <2>8 DEF Inv, Types
<1>. QED  BY <1>5, <1>6, <1>7 DEF Dispatch

(* The results that are taken still count until they are put. *)
LEMMA CollectInv ==
    ASSUME Inv, Collect
    PROVE  Inv'
<1>. DEFINE kind == Thread.kind
            p == processor[kind]
<1>1. EnginesOK /\ ManagerOK /\ ProcessorsOK /\ DispatcherOK /\ Bound
  BY DEF Inv, Types
<1>2. /\ setting' = setting /\ UNCHANGED <<d, current, processor_threads, sjobs, vjobs>>
      /\ UNCHANGED <<candidate_count, verify_checked_count, candidate_limit_reached>>
      /\ dpc \in {"collect", "drain"} /\ dpc' = "put"
      /\ results' = p.done /\ processor' = [processor EXCEPT ![kind] = ResultsTaken(@)]
  BY DEF Collect, input, manager, queues, tallies, flags
<1>3. EnginesOK' /\ VerifyingEngines' = VerifyingEngines /\ Thread' = Thread
  BY <1>1, <1>2, EnginesUnchanged DEF Thread
<1>4. kind \in Kinds
  BY <1>1 DEF EnginesOK, DispatcherOK, EngineData, Thread
<1>5. p \in [jobs : Seq(JobsFor(kind)), done : Seq(JobsFor(kind))]
  BY <1>1, <1>4 DEF ProcessorsOK
<1>6. /\ p.jobs \in Seq(JobsFor(kind)) /\ p.done \in Seq(JobsFor(kind))
      /\ ResultsTaken(p) = [jobs |-> p.jobs, done |-> <<>>]
  BY <1>5, ProcessorValues
<1>7. processor' = [processor EXCEPT ![kind] = [jobs |-> p.jobs, done |-> <<>>]]
      /\ <<>> \in Seq(JobsFor(kind))
  BY <1>2, <1>6
<1>8. DispatcherOK'
  <2>1. Engines' = Engines /\ JobsFor(Thread.kind)' = JobsFor(kind)
    BY <1>2, <1>3, SettingFrame DEF JobsFor, SearchJobs
  <2>. QED  BY <1>1, <1>2, <1>6, <2>1 DEF DispatcherOK, DispatcherPCs
<1>9. Taken = 0 /\ Taken' = IF kind = "verify" THEN Len(p.done) ELSE 0
  <2>1. results = <<>>
    BY <1>1, <1>2 DEF DispatcherOK
  <2>. QED  BY <1>2, <1>3, <2>1, NothingTaken DEF Taken
<1>. HIDE DEF kind, p
<1>10. /\ ProcessorsOK' /\ processor'[kind].jobs = p.jobs /\ processor'[kind].done = <<>>
       /\ (kind # "verify" => processor'["verify"] = processor["verify"])
  <2>1. setting' = setting
    BY <1>2
  <2>. QED  BY <1>1, <1>4, <1>6, <1>7, <2>1, ProcessorMoves
<1>11. ManagerOK'
  BY <1>1, <1>2, ManagerUnchanged
<1>12. ToVerify' = ToVerify
  <2>1. CASE kind # "verify"
    BY <1>2, <1>3, <1>9, <1>10, <2>1 DEF ToVerify
  <2>2. CASE kind = "verify"
    <3>1. PICK a, b, c, e, f, g \in Nat :
              /\ verify_checked_count = a /\ Len(vjobs) = b
              /\ Len(processor["verify"].jobs) = c /\ Cardinality(VerifyingEngines) = e
              /\ Len(processor["verify"].done) = f /\ Taken = g
              /\ ToVerify = a + b + c + e + f + g
      BY Counted DEF Inv
    <3>2. /\ Taken' = f /\ g = 0 /\ Len(processor'["verify"].jobs) = c
          /\ Len(processor'["verify"].done) = 0
      BY <1>9, <1>10, <2>2, <3>1, EmptySeq DEF p
    <3>3. ToVerify' = a + b + c + e + 0 + f
      BY <1>2, <1>3, <3>1, <3>2 DEF ToVerify
    <3>. QED  BY <3>1, <3>2, <3>3
  <2>. QED  BY <2>1, <2>2
<1>13. Bound'
  BY <1>1, <1>2, <1>12, BoundUnchanged DEF ManagerOK
<1>. QED  BY <1>3, <1>8, <1>10, <1>11, <1>13 DEF Inv, Types

(* A search that is looked at with the limit not yet exceeded adds at most  *)
(* the candidates of one index to the count.                                *)
LEMMA StartPutInv ==
    ASSUME Inv, StartPut
    PROVE  Inv'
<1>1. EnginesOK /\ ManagerOK /\ ProcessorsOK /\ DispatcherOK /\ Bound
  BY DEF Inv, Types
<1>2. /\ setting' = setting
      /\ UNCHANGED <<d, processor, processor_threads, sjobs, vjobs, candidate_count>>
      /\ dpc = "put" /\ results # <<>>
      /\ current' = <<Head(results)>> /\ results' = Tail(results)
  BY DEF StartPut, input, queues, engines
<1>3. EnginesOK' /\ VerifyingEngines' = VerifyingEngines /\ ProcessorsOK' /\ Thread' = Thread
  BY <1>1, <1>2, EnginesUnchanged, ProcessorsUnchanged DEF Thread
<1>4. PICK job \in JobsFor(Thread.kind) : job = Head(results) /\ current' = <<job>>
  BY <1>1, <1>2, EndsOf DEF DispatcherOK
<1>5. results' \in Seq(JobsFor(Thread.kind)) /\ Len(results') = Len(results) - 1
  BY <1>1, <1>2, EndsOf DEF DispatcherOK
<1>6. DispatcherOK'
  <2>1. Engines' = Engines /\ JobsFor(Thread.kind)' = JobsFor(Thread.kind)
        /\ SearchJobs' = SearchJobs /\ VerifyJobs' = VerifyJobs
    BY <1>2, <1>3, SettingFrame DEF JobsFor, SearchJobs, VerifyJobs
  <2>2. dpc' \in {"candidates", "verified"}
    BY DEF StartPut
  <2>3. job \in SearchJobs \cup VerifyJobs
    BY <1>4 DEF JobsFor
  <2>. QED  BY <1>1, <1>2, <1>4, <1>5, <2>1, <2>2, <2>3 DEF DispatcherOK, DispatcherPCs
<1>7. CASE job.kind = "search"
  <2>1. /\ Thread.kind # "verify" /\ job \in SearchJobs
        /\ verify_checked_count' = verify_checked_count /\ dpc' = "candidates"
        /\ candidate_limit_reached'
              = (candidate_limit_reached \/ (limit > 0 /\ candidate_count > limit))
    BY <1>4, <1>7 DEF StartPut, JobsFor, VerifyJobs
  <2>2. ManagerOK'
    BY <1>1, <1>2, <2>1, SettingFrame DEF ManagerOK
  <2>3. ToVerify' = ToVerify
    BY <1>2, <1>3, <2>1 DEF ToVerify, Taken
  <2>4. Bound'
    <3>1. PICK m \in Nat : m = Len(job.cands) /\ m <= setting.candidates
      <4>1. job.cands \in Seq(Cands) /\ Len(job.cands) <= setting.candidates
        BY <2>1 DEF SearchJobs
      <4>. QED  BY <4>1, LenProperties
    <3>2. PICK n \in Nat, l \in Nat, k \in Nat :
              n = candidate_count /\ l = limit /\ k = setting.candidates
      BY <1>1, SettingFacts DEF ManagerOK
    <3>3. ~candidate_limit_reached' /\ l > 0 => n <= l /\ ~candidate_limit_reached
      <4>1. ~(limit > 0 /\ candidate_count > limit) /\ l > 0 => n <= l
        BY <3>2
      <4>. QED  BY <2>1, <4>1, Zenon
    <3>4. /\ current'[1].cands = job.cands /\ candidate_count' = n
          /\ limit' = l /\ setting'.candidates = k
      BY <1>2, <1>4, <3>2, SettingFrame
    <3>5. ~candidate_limit_reached' /\ l > 0 => n <= l + k /\ n + m <= l + k
      BY <3>1, <3>2, <3>3
    <3>. QED  BY <1>1, <2>3, <3>1, <3>2, <3>4, <3>5 DEF Bound
  <2>. QED  BY <1>3, <1>6, <2>2, <2>4 DEF Inv, Types
<1>8. CASE job.kind # "search"
  <2>1. /\ Thread.kind = "verify" /\ dpc' = "verified"
        /\ verify_checked_count' = verify_checked_count + 1
        /\ candidate_limit_reached' = candidate_limit_reached
    BY <1>4, <1>8 DEF StartPut, JobsFor, SearchJobs
  <2>2. ManagerOK'
    BY <1>1, <1>2, <2>1, SettingFrame DEF ManagerOK
  <2>3. ToVerify' = ToVerify
    <3>1. PICK a, b, c, e, f, g \in Nat :
              /\ verify_checked_count = a /\ Len(vjobs) = b
              /\ Len(processor["verify"].jobs) = c /\ Cardinality(VerifyingEngines) = e
              /\ Len(processor["verify"].done) = f /\ Taken = g
              /\ ToVerify = a + b + c + e + f + g
      BY Counted DEF Inv
    <3>2. Taken' = g - 1
      BY <1>3, <1>5, <2>1, <3>1 DEF Taken
    <3>3. ToVerify' = (a + 1) + b + c + e + f + (g - 1)
      BY <1>2, <1>3, <2>1, <3>1, <3>2 DEF ToVerify
    <3>. QED  BY <3>1, <3>3
  <2>4. Bound'
    BY <1>1, <1>2, <2>1, <2>3, BoundUnchanged DEF ManagerOK
  <2>. QED  BY <1>3, <1>6, <2>2, <2>4 DEF Inv, Types
<1>. QED  BY <1>7, <1>8

(* One candidate: it is counted before it waits to be verified. *)
LEMMA PutCandidateInv ==
    ASSUME Inv, PutCandidate
    PROVE  Inv'
<1>1. EnginesOK /\ ManagerOK /\ ProcessorsOK /\ DispatcherOK /\ Bound
  BY DEF Inv, Types
<1>2. /\ setting' = setting /\ UNCHANGED <<d, results, processor, processor_threads, sjobs>>
      /\ UNCHANGED <<verify_checked_count, candidate_limit_reached>>
      /\ dpc = "candidates" /\ current[1].cands # <<>>
      /\ current' = [current EXCEPT ![1].cands = Tail(@)]
  BY DEF PutCandidate, input, flags, engines
<1>3. /\ EnginesOK' /\ VerifyingEngines' = VerifyingEngines /\ ProcessorsOK'
      /\ Thread' = Thread /\ Taken' = Taken
  BY <1>1, <1>2, EnginesUnchanged, ProcessorsUnchanged DEF Thread, Taken
<1>4. PICK job \in SearchJobs \cup VerifyJobs : current = <<job>>
  BY <1>1, <1>2 DEF DispatcherOK
<1>5. job.cands \in Seq(Cands) /\ job.cands # <<>>
  BY <1>2, <1>4 DEF SearchJobs, VerifyJobs
<1>6. PICK rest \in Seq(Cands) : rest = Tail(job.cands) /\ Len(rest) = Len(job.cands) - 1
  BY <1>5, EndsOf
<1>7. Head(job.cands) \in Cands
  BY <1>5, EndsOf
<1>8. PICK left \in SearchJobs \cup VerifyJobs : left.cands = rest /\ current' = <<left>>
  <2>1. current' = <<[job EXCEPT !.cands = rest]>>
    <3>1. \A x : [current EXCEPT ![1].cands = x] = <<[job EXCEPT !.cands = x]>>
      BY <1>4
    <3>2. current[1].cands = job.cands
      BY <1>4
    <3>. QED  BY <1>2, <1>6, <3>1, <3>2, Zenon
  <2>2. CASE job \in VerifyJobs
    <3>1. [job EXCEPT !.cands = rest] \in VerifyJobs /\ [job EXCEPT !.cands = rest].cands = rest
      BY <2>2 DEF VerifyJobs
    <3>. QED  BY <2>1, <3>1
  <2>3. CASE job \in SearchJobs
    <3>1. Len(rest) <= setting.candidates
      <4>1. PICK n \in Nat, k \in Nat :
                n = Len(job.cands) /\ k = setting.candidates /\ n <= k
        BY <1>1, <1>5, <2>3, SettingFacts, LenProperties DEF SearchJobs, ManagerOK
      <4>. QED  BY <1>6, <4>1
    <3>2. [job EXCEPT !.cands = rest] \in SearchJobs /\ [job EXCEPT !.cands = rest].cands = rest
      BY <2>3, <3>1 DEF SearchJobs
    <3>. QED  BY <2>1, <3>2
  <2>. QED  BY <2>2, <2>3
<1>9. PICK c \in Cands : c = Head(job.cands)
  BY <1>7
<1>10. \/ dpc' = "failed" /\ vjobs' = vjobs /\ candidate_count' = candidate_count
       \/ dpc' = dpc /\ vjobs' = vjobs /\ candidate_count' = candidate_count
       \/ /\ dpc' = dpc /\ candidate_count' = candidate_count + 1
          /\ \/ vjobs' = Append(vjobs, VerifyJob(c)) /\ ~candidate_limit_reached
             \/ vjobs' = vjobs
  <2>1. Head(current[1].cands) = c
    BY <1>4, <1>9
  <2>. QED  BY <2>1 DEF PutCandidate
<1>11. DispatcherOK'
  <2>1. Engines' = Engines /\ JobsFor(Thread.kind)' = JobsFor(Thread.kind)
        /\ SearchJobs' = SearchJobs /\ VerifyJobs' = VerifyJobs
    BY <1>2, <1>3, SettingFrame DEF JobsFor, SearchJobs, VerifyJobs
  <2>2. dpc' \in {"candidates", "failed"}
    BY <1>2, <1>10
  <2>. QED  BY <1>1, <1>2, <1>3, <1>8, <2>1, <2>2 DEF DispatcherOK, DispatcherPCs
<1>12. VerifyJob(c) \in VerifyJobs
  BY <1>9 DEF VerifyJob, VerifyJobs
<1>13. /\ Append(vjobs, VerifyJob(c)) \in Seq(VerifyJobs)
       /\ Len(Append(vjobs, VerifyJob(c))) = Len(vjobs) + 1
  BY <1>1, <1>12, LongerBy DEF ManagerOK
<1>14. ManagerOK'
  <2>1. vjobs' \in Seq(VerifyJobs)
    BY <1>1, <1>10, <1>13 DEF ManagerOK
  <2>2. candidate_count' \in Nat
    BY <1>1, <1>10 DEF ManagerOK
  <2>3. VerifyJobs' = VerifyJobs /\ SearchJobs' = SearchJobs
    BY <1>2, SettingFrame DEF VerifyJobs
  <2>. QED  BY <1>1, <1>2, <2>1, <2>2, <2>3 DEF ManagerOK
<1>15. PICK a, b, c1, e, f, g \in Nat :
           /\ verify_checked_count = a /\ Len(vjobs) = b
           /\ Len(processor["verify"].jobs) = c1 /\ Cardinality(VerifyingEngines) = e
           /\ Len(processor["verify"].done) = f /\ Taken = g
           /\ ToVerify = a + b + c1 + e + f + g
  BY Counted DEF Inv
<1>16. ToVerify' = a + Len(vjobs') + c1 + e + f + g
  BY <1>2, <1>3, <1>15 DEF ToVerify
<1>17. PICK n \in Nat, l \in Nat, k \in Nat, m \in Nat :
           n = candidate_count /\ l = limit /\ k = setting.candidates /\ m = Len(job.cands)
  BY <1>1, <1>5, SettingFacts, LenProperties DEF ManagerOK
<1>18. l > 0 =>
          /\ ToVerify <= n /\ ToVerify <= l + k
          /\ ~candidate_limit_reached => n <= l + k /\ n + m <= l + k
  BY <1>1, <1>2, <1>4, <1>17 DEF Bound
<1>19. /\ limit' = l /\ setting'.candidates = k /\ current'[1].cands = rest
       /\ Len(rest) = m - 1 /\ m >= 1
       /\ candidate_limit_reached' = candidate_limit_reached
  <2>1. m >= 1
    BY <1>5, <1>17, EmptySeq
  <2>2. limit' = l /\ setting'.candidates = k
    BY <1>2, <1>17, SettingFrame
  <2>3. current'[1].cands = rest
    BY <1>8
  <2>4. Len(rest) = m - 1
    BY <1>6, <1>17
  <2>. QED  BY <1>2, <2>1, <2>2, <2>3, <2>4, Zenon
<1>20. CASE vjobs' = vjobs /\ candidate_count' = n
  <2>1. ToVerify' = ToVerify
    BY <1>15, <1>16, <1>20
  <2>2. l > 0 /\ ~candidate_limit_reached => n + Len(rest) <= l + k
    BY <1>18, <1>19
  <2>3. Bound'
    BY <1>18, <1>19, <1>20, <2>1, <2>2 DEF Bound
  <2>. QED  BY <1>3, <1>11, <1>14, <2>3 DEF Inv, Types
<1>21. CASE vjobs' = vjobs /\ candidate_count' = n + 1
  <2>1. ToVerify' = ToVerify /\ ToVerify \in Nat
    BY <1>15, <1>16, <1>21
  <2>2. l > 0 =>
          /\ ToVerify <= n + 1
          /\ ~candidate_limit_reached =>
                n + 1 <= l + k /\ (n + 1) + Len(rest) <= l + k
    BY <1>18, <1>19, <2>1
  <2>3. Bound'
    BY <1>18, <1>19, <1>21, <2>1, <2>2 DEF Bound
  <2>. QED  BY <1>3, <1>11, <1>14, <2>3 DEF Inv, Types
<1>22. CASE /\ vjobs' = Append(vjobs, VerifyJob(c)) /\ candidate_count' = n + 1
            /\ ~candidate_limit_reached
  <2>1. ToVerify' = ToVerify + 1 /\ ToVerify \in Nat
    <3>1. Len(vjobs') = b + 1
      BY <1>13, <1>15, <1>22
    <3>2. ToVerify' = a + (b + 1) + c1 + e + f + g
      BY <1>16, <3>1
    <3>. QED  BY <1>15, <3>2
  <2>2. l > 0 =>
          /\ ToVerify + 1 <= n + 1 /\ ToVerify + 1 <= l + k
          /\ n + 1 <= l + k /\ (n + 1) + Len(rest) <= l + k
    BY <1>18, <1>19, <1>22, <2>1
  <2>3. Bound'
    BY <1>19, <1>22, <2>1, <2>2 DEF Bound
  <2>. QED  BY <1>3, <1>11, <1>14, <2>3 DEF Inv, Types
<1>. QED  BY <1>10, <1>17, <1>20, <1>21, <1>22

LEMMA PutVerifiedInv ==
    ASSUME Inv, PutVerified
    PROVE  Inv'
<1>1. EnginesOK /\ ManagerOK /\ ProcessorsOK /\ DispatcherOK /\ Bound
  BY DEF Inv, Types
<1>2. /\ setting' = setting
      /\ UNCHANGED <<d, results, processor, processor_threads, sjobs, vjobs>>
      /\ UNCHANGED <<candidate_count, verify_checked_count, candidate_limit_reached>>
      /\ dpc = "verified" /\ dpc' = "candidates"
      /\ current' = [current EXCEPT ![1].cands = <<>>]
  BY DEF PutVerified, input, tallies, flags, engines
<1>3. /\ EnginesOK' /\ VerifyingEngines' = VerifyingEngines /\ ProcessorsOK' /\ ManagerOK'
      /\ Thread' = Thread /\ Taken' = Taken
  BY <1>1, <1>2, EnginesUnchanged, ProcessorsUnchanged, ManagerUnchanged DEF Thread, Taken
<1>4. PICK job \in SearchJobs \cup VerifyJobs : current = <<job>>
  BY <1>1, <1>2 DEF DispatcherOK
<1>5. PICK left \in SearchJobs \cup VerifyJobs : left.cands = <<>> /\ current' = <<left>>
  <2>1. current' = <<[job EXCEPT !.cands = <<>>]>>
    BY <1>2, <1>4
  <2>2. <<>> \in Seq(Cands) /\ Len(<<>>) <= setting.candidates
    <3>1. setting.candidates \in Nat
      BY <1>1, SettingFacts DEF ManagerOK
    <3>. QED  BY <3>1, EmptySeq
  <2>3. CASE job \in VerifyJobs
    <3>1. [job EXCEPT !.cands = <<>>] \in VerifyJobs /\ [job EXCEPT !.cands = <<>>].cands = <<>>
      BY <2>2, <2>3 DEF VerifyJobs
    <3>. QED  BY <2>1, <3>1
  <2>4. CASE job \in SearchJobs
    <3>1. [job EXCEPT !.cands = <<>>] \in SearchJobs /\ [job EXCEPT !.cands = <<>>].cands = <<>>
      BY <2>2, <2>4 DEF SearchJobs
    <3>. QED  BY <2>1, <3>1
  <2>. QED  BY <2>3, <2>4
<1>6. DispatcherOK'
  <2>1. Engines' = Engines /\ JobsFor(Thread.kind)' = JobsFor(Thread.kind)
        /\ SearchJobs' = SearchJobs /\ VerifyJobs' = VerifyJobs
    BY <1>2, <1>3, SettingFrame DEF JobsFor, SearchJobs, VerifyJobs
  <2>. QED  BY <1>1, <1>2, <1>5, <2>1 DEF DispatcherOK, DispatcherPCs
<1>7. ToVerify' = ToVerify
  BY <1>2, <1>3, ToVerifyUnchanged
<1>8. Bound'
  <2>1. /\ limit' = limit /\ current'[1].cands = <<>> /\ Len(current'[1].cands) = 0
        /\ candidate_count \in Nat
    BY <1>1, <1>2, <1>5, SettingFrame, EmptySeq DEF ManagerOK
  <2>2. candidate_count' + Len(current'[1].cands) = candidate_count
    BY <1>2, <2>1
  <2>. QED  BY <1>1, <1>2, <1>7, <2>1, <2>2 DEF Bound
<1>. QED  BY <1>3, <1>6, <1>8 DEF Inv, Types

LEMMA EndPutInv ==
    ASSUME Inv, EndPut
    PROVE  Inv'
<1>1. EnginesOK /\ ManagerOK /\ ProcessorsOK /\ DispatcherOK /\ Bound
  BY DEF Inv, Types
<1>2. /\ setting' = setting
      /\ UNCHANGED <<d, results, processor, processor_threads, sjobs, vjobs>>
      /\ UNCHANGED <<candidate_count, verify_checked_count, candidate_limit_reached>>
      /\ dpc' = "put"
  BY DEF EndPut, input, queues, tallies, engines
<1>3. /\ EnginesOK' /\ VerifyingEngines' = VerifyingEngines /\ ProcessorsOK' /\ ManagerOK'
      /\ Thread' = Thread /\ Taken' = Taken
  BY <1>1, <1>2, EnginesUnchanged, ProcessorsUnchanged, ManagerUnchanged DEF Thread, Taken
<1>4. DispatcherOK'
  <2>1. Engines' = Engines /\ JobsFor(Thread.kind)' = JobsFor(Thread.kind)
    BY <1>2, <1>3, SettingFrame DEF JobsFor, SearchJobs
  <2>. QED  BY <1>1, <1>2, <2>1 DEF DispatcherOK, DispatcherPCs
<1>5. ToVerify' = ToVerify
  BY <1>2, <1>3, ToVerifyUnchanged
<1>6. Bound'
  BY <1>1, <1>2, <1>5, BoundUnchanged DEF ManagerOK
<1>. QED  BY <1>3, <1>4, <1>6 DEF Inv, Types

-----------------------------------------------------------------------------
(* Main's steps only set flags. *)
LEMMA SetPausedFacts ==
    ASSUME EnginesOK, NEW changes
    PROVE  SetPaused(changes) =>
               /\ processor_threads' \in [Engines -> EngineData]
               /\ \A t \in Engines :
                     /\ processor_threads'[t].kind = processor_threads[t].kind
                     /\ processor_threads'[t].job = processor_threads[t].job
                     /\ processor_threads'[t].state = processor_threads[t].state
<1>1. processor_threads \in [Engines -> EngineData]
  BY DEF EnginesOK
<1>2. \A e \in EngineData, p \in BOOLEAN :
         /\ [e EXCEPT !.paused = p] \in EngineData
         /\ [e EXCEPT !.paused = p].kind = e.kind
         /\ [e EXCEPT !.paused = p].job = e.job
         /\ [e EXCEPT !.paused = p].state = e.state
  BY DEF EngineData
<1>. DEFINE flag(t) == CHOOSE p \in BOOLEAN : <<t, p>> \in changes
            set(t) == \E p \in BOOLEAN : <<t, p>> \in changes
<1>3. \A t : set(t) => flag(t) \in BOOLEAN
  OBVIOUS
<1>. SUFFICES ASSUME SetPaused(changes)
              PROVE  /\ processor_threads' \in [Engines -> EngineData]
                     /\ \A t \in Engines :
                           /\ processor_threads'[t].kind = processor_threads[t].kind
                           /\ processor_threads'[t].job = processor_threads[t].job
                           /\ processor_threads'[t].state = processor_threads[t].state
  OBVIOUS
<1>4. processor_threads' =
         [t \in Engines |-> IF set(t) THEN [processor_threads[t] EXCEPT !.paused = flag(t)]
                            ELSE processor_threads[t]]
  BY <1>1 DEF SetPaused
<1>. HIDE DEF flag, set
<1>5. \A t \in Engines :
         /\ processor_threads'[t] \in EngineData
         /\ processor_threads'[t].kind = processor_threads[t].kind
         /\ processor_threads'[t].job = processor_threads[t].job
         /\ processor_threads'[t].state = processor_threads[t].state
  <2>. TAKE t \in Engines
  <2>1. processor_threads[t] \in EngineData
    BY <1>1
  <2>2. CASE processor_threads'[t] = processor_threads[t]
    BY <2>1, <2>2
  <2>3. CASE \E p \in BOOLEAN : processor_threads'[t] = [processor_threads[t] EXCEPT !.paused = p]
    <3>1. PICK p \in BOOLEAN : processor_threads'[t] = [processor_threads[t] EXCEPT !.paused = p]
      BY <2>3
    <3>. QED  BY <1>2, <2>1, <3>1, Zenon
  <2>4. processor_threads'[t] = processor_threads[t]
        \/ \E p \in BOOLEAN : processor_threads'[t] = [processor_threads[t] EXCEPT !.paused = p]
    BY <1>3, <1>4, Zenon
  <2>. QED  BY <2>2, <2>3, <2>4
<1>6. processor_threads' \in [Engines -> EngineData]
  BY <1>4, <1>5, Zenon
<1>. QED  BY <1>5, <1>6

LEMMA MainInv ==
    ASSUME Inv, MainStep \/ Interrupt
    PROVE  Inv'
<1>1. EnginesOK
  BY DEF Inv, Types
<1>2. /\ setting' = setting /\ UNCHANGED <<dpc, d, results, current, processor>>
      /\ UNCHANGED <<sjobs, vjobs, candidate_count, verify_checked_count,
                     candidate_limit_reached>>
  BY DEF MainStep, CheckWorking, CheckCompleted, CheckCounts, Report, Checks, Interrupt,
         input, manager, queues, tallies, flags, engines, dispatcher
<1>3. \/ processor_threads' \in {processor_threads, Silenced}
      \/ \E changes : SetPaused(changes)
  BY DEF MainStep, CheckWorking, CheckCompleted, CheckCounts, Report, Checks, Interrupt,
         Throttle, SearchAgain, engines
<1>4. /\ processor_threads' \in [Engines -> EngineData]
      /\ \A t \in Engines :
            /\ processor_threads'[t].kind = processor_threads[t].kind
            /\ processor_threads'[t].job = processor_threads[t].job
            /\ processor_threads'[t].state = processor_threads[t].state
  <2>1. CASE processor_threads' = processor_threads
    BY <1>1, <2>1 DEF EnginesOK
  <2>2. CASE processor_threads' = Silenced
    BY <1>1, <2>2, SilencedFacts
  <2>3. CASE \E changes : SetPaused(changes)
    BY <1>1, <2>3, SetPausedFacts
  <2>. QED  BY <1>3, <2>1, <2>2, <2>3
<1>. QED  BY <1>2, <1>4, FlagsInv

LEMMA StutterInv ==
    ASSUME Inv, UNCHANGED vars
    PROVE  Inv'
<1>1. EnginesOK
  BY DEF Inv, Types
<1>2. /\ setting' = setting /\ UNCHANGED <<dpc, d, results, current, processor>>
      /\ UNCHANGED <<sjobs, vjobs, candidate_count, verify_checked_count,
                     candidate_limit_reached>>
      /\ processor_threads' = processor_threads
  BY DEF vars, input, manager, queues, tallies, flags, engines, dispatcher
<1>. QED  BY <1>1, <1>2, FlagsInv DEF EnginesOK

LEMMA NextInv ==
    ASSUME Inv, [Next]_vars
    PROVE  Inv'
<1>1. ASSUME NEW t \in Engines, EngineStep(t) \/ EngineFails(t)
      PROVE  Inv'
  BY <1>1, StartJobInv, FinishJobInv, EngineStopsInv, EngineFailsInv DEF EngineStep
<1>2. CASE DispatcherStep
  BY <1>2, StartRoundInv, DispatchInv, CollectInv, StartPutInv, PutCandidateInv,
     PutVerifiedInv, EndPutInv, NextThreadInv DEF DispatcherStep
<1>3. CASE MainStep \/ Interrupt
  BY <1>3, MainInv
<1>4. CASE Done \/ UNCHANGED vars
  BY <1>4, StutterInv DEF Done
<1>. QED  BY <1>1, <1>2, <1>3, <1>4 DEF Next

-----------------------------------------------------------------------------
(* With a limit, the candidates that are or will be verified never exceed   *)
(* it by more than those of one index, for any number of indexes, engines   *)
(* and candidates, and whenever threads fail or the user interrupts:        *)
(* putJob looks at the limit in the dispatcher's own thread, before it      *)
(* counts the candidates of the index it puts.                              *)
THEOREM VerifyingStaysLimited == Spec => []VerifyingIsLimited
<1>1. Inv => VerifyingIsLimited
  BY DEF Inv, Bound, VerifyingIsLimited
<1>. QED  BY <1>1, InitInv, NextInv, PTL DEF Spec

-----------------------------------------------------------------------------
(***************************************************************************)
(* No candidate is in two places of a search, and none that is to be       *)
(* reported is lost, for any number of indexes, processes and candidates.  *)
(* Every step of BgSearch moves candidates from one place to another, or   *)
(* drops some: each is a Moved below.                                      *)
(***************************************************************************)

HIDE CountsAssumption

(* The candidates of a place, and that it has none of them twice *)
In(place) == UNION {{place[n][k] : k \in DOMAIN place[n]} : n \in DOMAIN place}

Once(place) ==
    \A n, m \in DOMAIN place : \A k \in DOMAIN place[n], l \in DOMAIN place[m] :
        place[n][k] = place[m][l] => n = m /\ k = l

(* One place holds what another does, and the candidates of x, apart from them *)
With(whole, part, x) ==
    /\ In(whole) = In(part) \cup In(<<x>>)
    /\ Once(whole) <=> Once(part) /\ Once(<<x>>) /\ In(part) \cap In(<<x>>) = {}

Places == {"sjobs", "vjobs", "searching", "searched", "verifying", "verified", "engines",
           "results", "current", "completed_jobs", "reported"}

Apart(held) ==
    /\ \A p \in Places : Once(held[p])
    /\ \A p, q \in Places : p # q => In(held[p]) \cap In(held[q]) = {}

Kept(held) ==
    \A c \in DOMAIN fate : fate[c] = "hit" => \E p \in Places : c \in In(held[p])
-----------------------------------------------------------------------------
LEMMA InFacts ==
    ASSUME NEW place, NEW c
    PROVE  c \in In(place)
              <=> \E n \in DOMAIN place : \E k \in DOMAIN place[n] : place[n][k] = c
  BY DEF In

(* A list of lists that falls into two: those that f numbers, and the t-th *)
SplitsAt(whole, part, f, t) ==
    /\ t \in DOMAIN whole
    /\ \A n \in DOMAIN part : f[n] \in DOMAIN whole /\ f[n] # t /\ part[n] = whole[f[n]]
    /\ \A n, m \in DOMAIN part : f[n] = f[m] => n = m
    /\ \A n \in DOMAIN whole : n # t => \E m \in DOMAIN part : f[m] = n

LEMMA Split ==
    ASSUME NEW whole, NEW part, NEW f, NEW t, NEW single,
           SplitsAt(whole, part, f, t), whole[t] = single
    PROVE  With(whole, part, single)
<1>. USE DEF SplitsAt
<1>. DEFINE one == <<single>>
<1>0. DOMAIN one = {1} /\ one[1] = single
  OBVIOUS
<1>. HIDE DEF one
<1>1. ASSUME NEW c
      PROVE  c \in In(whole) <=> c \in In(part) \/ c \in In(one)
  <2>1. c \in In(whole) => c \in In(part) \/ c \in In(one)
    <3>. SUFFICES ASSUME c \in In(whole) PROVE c \in In(part) \/ c \in In(one)
      OBVIOUS
    <3>1. PICK n \in DOMAIN whole : \E k \in DOMAIN whole[n] : whole[n][k] = c
      BY InFacts
    <3>2. CASE n = t  BY <1>0, <3>1, <3>2, InFacts
    <3>3. CASE n # t  BY <3>1, <3>3, InFacts
    <3>. QED  BY <3>2, <3>3
  <2>2. c \in In(part) => c \in In(whole)
    BY InFacts
  <2>3. c \in In(one) => c \in In(whole)
    BY <1>0, InFacts
  <2>. QED  BY <2>1, <2>2, <2>3
<1>2. In(whole) = In(part) \cup In(one)
  BY <1>1
<1>3. ASSUME Once(whole)
      PROVE  Once(part) /\ Once(one) /\ In(part) \cap In(one) = {}
  <2>1. Once(part)
    <3>. SUFFICES ASSUME NEW n \in DOMAIN part, NEW m \in DOMAIN part,
                         NEW k \in DOMAIN part[n], NEW l \in DOMAIN part[m],
                         part[n][k] = part[m][l]
                  PROVE  n = m /\ k = l
      BY DEF Once
    <3>1. /\ f[n] \in DOMAIN whole /\ f[m] \in DOMAIN whole
          /\ part[n] = whole[f[n]] /\ part[m] = whole[f[m]]
      OBVIOUS
    <3>2. k \in DOMAIN whole[f[n]] /\ l \in DOMAIN whole[f[m]]
          /\ whole[f[n]][k] = whole[f[m]][l]
      BY <3>1
    <3>3. f[n] = f[m] /\ k = l
      BY <1>3, <3>1, <3>2 DEF Once
    <3>. QED  BY <3>3
  <2>2. Once(one)
    <3>. SUFFICES ASSUME NEW n \in DOMAIN one, NEW m \in DOMAIN one,
                         NEW k \in DOMAIN one[n], NEW l \in DOMAIN one[m],
                         one[n][k] = one[m][l]
                  PROVE  n = m /\ k = l
      BY DEF Once
    <3>1. n = 1 /\ m = 1
      BY <1>0
    <3>2. k \in DOMAIN whole[t] /\ l \in DOMAIN whole[t] /\ whole[t][k] = whole[t][l]
      BY <1>0, <3>1
    <3>. QED  BY <1>3, <3>1, <3>2 DEF Once
  <2>3. ASSUME NEW c \in In(part), c \in In(one) PROVE FALSE
    <3>1. PICK n \in DOMAIN part : \E k \in DOMAIN part[n] : part[n][k] = c
      BY InFacts
    <3>2. PICK k \in DOMAIN part[n] : part[n][k] = c
      BY <3>1
    <3>3. PICK l \in DOMAIN whole[t] : whole[t][l] = c
      BY <1>0, <2>3, InFacts
    <3>4. f[n] \in DOMAIN whole /\ f[n] # t /\ k \in DOMAIN whole[f[n]] /\ whole[f[n]][k] = c
      BY <3>2
    <3>. QED  BY <1>3, <3>3, <3>4 DEF Once
  <2>. QED  BY <2>1, <2>2, <2>3
<1>4. ASSUME Once(part), Once(one), In(part) \cap In(one) = {}
      PROVE  Once(whole)
  <2>. SUFFICES ASSUME NEW n \in DOMAIN whole, NEW m \in DOMAIN whole,
                       NEW k \in DOMAIN whole[n], NEW l \in DOMAIN whole[m],
                       whole[n][k] = whole[m][l]
                PROVE  n = m /\ k = l
    BY DEF Once
  <2>1. CASE n = t /\ m = t
    BY <1>0, <1>4, <2>1 DEF Once
  <2>2. CASE n # t /\ m # t
    <3>1. PICK a \in DOMAIN part, b \in DOMAIN part : f[a] = n /\ f[b] = m
      BY <2>2
    <3>2. part[a] = whole[n] /\ part[b] = whole[m]
      BY <3>1
    <3>3. a = b /\ k = l
      BY <1>4, <3>2 DEF Once
    <3>. QED  BY <3>1, <3>3
  <2>3. CASE n = t /\ m # t
    <3>1. PICK b \in DOMAIN part : f[b] = m
      BY <2>3
    <3>2. part[b] = whole[m]
      BY <3>1
    <3>3. whole[m][l] \in In(part)
      BY <3>2, InFacts
    <3>4. whole[n][k] \in In(one)
      BY <1>0, <2>3, InFacts
    <3>. QED  BY <1>4, <3>3, <3>4
  <2>4. CASE n # t /\ m = t
    <3>1. PICK b \in DOMAIN part : f[b] = n
      BY <2>4
    <3>2. part[b] = whole[n]
      BY <3>1
    <3>3. whole[n][k] \in In(part)
      BY <3>2, InFacts
    <3>4. whole[m][l] \in In(one)
      BY <1>0, <2>4, InFacts
    <3>. QED  BY <1>4, <3>3, <3>4
  <2>. QED  BY <2>1, <2>2, <2>3, <2>4
<1>. QED  BY <1>2, <1>3, <1>4 DEF one, With

-----------------------------------------------------------------------------
(* The sequences that Split is about *)
LEMMA AtTheEnd ==
    ASSUME NEW S, NEW q \in Seq(S), NEW x \in S
    PROVE  With(Append(q, x), q, x)
<1>. DEFINE whole == Append(q, x)
            f == [n \in 1 .. Len(q) |-> n]
            t == Len(q) + 1
<1>1. Len(q) \in Nat /\ DOMAIN q = 1 .. Len(q)
  BY LenProperties
<1>2. DOMAIN whole = 1 .. t /\ whole[t] = x /\ \A n \in 1 .. Len(q) : whole[n] = q[n]
  BY AppendProperties, LenProperties
<1>. HIDE DEF whole
<1>3. SplitsAt(whole, q, f, t)
  BY <1>1, <1>2 DEF SplitsAt
<1>. HIDE DEF f, t
<1>. QED  BY <1>2, <1>3, Split DEF whole

LEMMA AtTheFront ==
    ASSUME NEW S, NEW q \in Seq(S), q # <<>>
    PROVE  With(q, Tail(q), Head(q))
<1>. DEFINE f == [n \in 1 .. Len(q) - 1 |-> n + 1]
<1>1. Len(q) \in Nat /\ Len(q) >= 1 /\ DOMAIN q = 1 .. Len(q) /\ q[1] = Head(q)
  BY LenProperties, EmptySeq
<1>2. DOMAIN Tail(q) = 1 .. Len(q) - 1 /\ \A n \in 1 .. Len(q) - 1 : Tail(q)[n] = q[n + 1]
  BY <1>1
<1>3. SplitsAt(q, Tail(q), f, 1)
  <2>1. PICK l \in Nat : l = Len(q) /\ l >= 1
    BY <1>1
  <2>2. DOMAIN q = 1 .. l /\ DOMAIN Tail(q) = 1 .. l - 1
        /\ (\A n \in 1 .. l - 1 : Tail(q)[n] = q[n + 1] /\ f[n] = n + 1)
    BY <1>1, <1>2, <2>1
  <2>. HIDE DEF f
  <2>3. \A n \in 1 .. l : n # 1 => n - 1 \in 1 .. l - 1 /\ f[n - 1] = n
    BY <2>1, <2>2
  <2>4. /\ 1 \in 1 .. l
        /\ \A n \in 1 .. l - 1 : f[n] \in 1 .. l /\ f[n] # 1
        /\ \A n, m \in 1 .. l - 1 : f[n] = f[m] => n = m
    BY <2>1, <2>2
  <2>5. \A n \in 1 .. l - 1 : Tail(q)[n] = q[f[n]]
    BY <2>2
  <2>6. \A n \in 1 .. l : n # 1 => \E m \in 1 .. l - 1 : f[m] = n
    BY <2>3
  <2>. QED  BY <2>2, <2>4, <2>5, <2>6 DEF SplitsAt
<1>. HIDE DEF f
<1>. QED  BY <1>1, <1>3, Split

LEMMA AtTheBack ==
    ASSUME NEW S, NEW q \in Seq(S), q # <<>>
    PROVE  With(q, Front(q), Last(q))
<1>. DEFINE f == [n \in 1 .. Len(q) - 1 |-> n]
            t == Len(q)
<1>1. Len(q) \in Nat /\ Len(q) >= 1 /\ DOMAIN q = 1 .. Len(q) /\ q[t] = Last(q)
  BY LenProperties, EmptySeq DEF Last
<1>2. DOMAIN Front(q) = 1 .. Len(q) - 1 /\ \A n \in 1 .. Len(q) - 1 : Front(q)[n] = q[n]
  BY <1>1 DEF Front
<1>3. SplitsAt(q, Front(q), f, t)
  BY <1>1, <1>2 DEF SplitsAt
<1>. HIDE DEF f, t
<1>. QED  BY <1>1, <1>3, Split

(* One entry of a function in the place of an empty one, or the reverse *)
LEMMA InTheMiddle ==
    ASSUME NEW whole, NEW part, NEW t \in DOMAIN whole, DOMAIN part = DOMAIN whole,
           part[t] = <<>>, \A n \in DOMAIN whole : n # t => part[n] = whole[n]
    PROVE  With(whole, part, whole[t])
<1>. DEFINE D == DOMAIN whole \ {t}
            others == [n \in D |-> whole[n]]
            f == [n \in D |-> n]
<1>1. SplitsAt(whole, others, f, t)
  BY DEF SplitsAt
<1>2. In(others) = In(part) /\ (Once(others) <=> Once(part))
  <2>1. DOMAIN <<>> = {}
    OBVIOUS
  <2>2. \A n \in DOMAIN part : \A k \in DOMAIN part[n] :
           n \in DOMAIN others /\ others[n] = part[n]
    BY <2>1
  <2>3. \A n \in DOMAIN others : n \in DOMAIN part /\ others[n] = part[n]
    OBVIOUS
  <2>. HIDE DEF others, D
  <2>4. \A c : c \in In(others) <=> c \in In(part)
    BY <2>2, <2>3, InFacts
  <2>5. Once(others) <=> Once(part)
    BY <2>2, <2>3 DEF Once
  <2>. QED  BY <2>4, <2>5
<1>. HIDE DEF others, D, f
<1>3. With(whole, others, whole[t])
  BY <1>1, Split
<1>. QED  BY <1>2, <1>3 DEF With

-----------------------------------------------------------------------------
(* The candidates of one job *)
LEMMA OneList ==
    ASSUME NEW x
    PROVE  /\ \A c : c \in In(<<x>>) <=> \E k \in DOMAIN x : x[k] = c
           /\ Once(<<x>>) <=> \A k, l \in DOMAIN x : x[k] = x[l] => k = l
<1>. DEFINE one == <<x>>
<1>1. DOMAIN one = {1} /\ one[1] = x
  OBVIOUS
<1>. HIDE DEF one
<1>2. \A c : c \in In(one) <=> \E k \in DOMAIN x : x[k] = c
  BY <1>1, InFacts
<1>3. Once(one) <=> \A k, l \in DOMAIN x : x[k] = x[l] => k = l
  BY <1>1 DEF Once
<1>. QED  BY <1>2, <1>3 DEF one

LEMMA NoCandidates ==
    /\ In(<<>>) = {} /\ Once(<<>>)
    /\ In(<< <<>> >>) = {} /\ Once(<< <<>> >>)
<1>1. DOMAIN <<>> = {}
  OBVIOUS
<1>2. In(<<>>) = {} /\ Once(<<>>)
  BY <1>1 DEF In, Once
<1>3. In(<< <<>> >>) = {} /\ Once(<< <<>> >>)
  BY <1>1, OneList
<1>. QED  BY <1>2, <1>3

LEMMA OneCandidate ==
    ASSUME NEW c
    PROVE  In(<< <<c>> >>) = {c} /\ Once(<< <<c>> >>)
<1>1. DOMAIN <<c>> = {1} /\ <<c>>[1] = c
  OBVIOUS
<1>. QED  BY <1>1, OneList

LEMMA FirstCandidate ==
    ASSUME NEW x \in Seq(Cands), x # <<>>
    PROVE  With(<<x>>, <<Tail(x)>>, <<Head(x)>>)
<1>1. PICK l \in Nat : l = Len(x) /\ l >= 1
  BY LenProperties, EmptySeq
<1>2. DOMAIN x = 1 .. l /\ x[1] = Head(x)
      /\ DOMAIN Tail(x) = 1 .. l - 1 /\ \A n \in 1 .. l - 1 : Tail(x)[n] = x[n + 1]
  BY <1>1
<1>3. PICK y : y = Tail(x)
  OBVIOUS
<1>4. DOMAIN y = 1 .. l - 1 /\ \A n \in 1 .. l - 1 : y[n] = x[n + 1]
  BY <1>2, <1>3
<1>5. \A n \in 1 .. l : n # 1 => n - 1 \in 1 .. l - 1 /\ y[n - 1] = x[n]
  <2>. SUFFICES ASSUME NEW n \in 1 .. l, n # 1
                PROVE  n - 1 \in 1 .. l - 1 /\ y[n - 1] = x[n]
    OBVIOUS
  <2>1. n - 1 \in 1 .. l - 1 /\ (n - 1) + 1 = n
    BY <1>1
  <2>. QED  BY <1>4, <2>1
<1>6. \A n \in 1 .. l - 1 : n + 1 \in 1 .. l /\ n + 1 # 1
  BY <1>1
<1>7. \A c : c \in In(<<x>>) <=> c \in In(<<y>>) \/ c = Head(x)
  <2>1. \A c : c \in In(<<x>>) => c \in In(<<y>>) \/ c = Head(x)
    BY <1>2, <1>4, <1>5, OneList
  <2>2. \A c \in In(<<y>>) : c \in In(<<x>>)
    BY <1>2, <1>4, <1>6, OneList
  <2>3. Head(x) \in In(<<x>>)
    BY <1>1, <1>2, OneList
  <2>. QED  BY <2>1, <2>2, <2>3
<1>8. ASSUME Once(<<x>>) PROVE Once(<<y>>) /\ Head(x) \notin In(<<y>>)
  <2>1. \A k, m \in 1 .. l : x[k] = x[m] => k = m
    BY <1>2, <1>8, OneList
  <2>2. ASSUME NEW k \in 1 .. l - 1, NEW m \in 1 .. l - 1, y[k] = y[m] PROVE k = m
    <3>1. x[k + 1] = x[m + 1] /\ k + 1 \in 1 .. l /\ m + 1 \in 1 .. l
      BY <1>4, <1>6, <2>2
    <3>2. k + 1 = m + 1
      BY <2>1, <3>1
    <3>. QED  BY <3>2
  <2>3. ASSUME NEW k \in 1 .. l - 1, y[k] = x[1] PROVE FALSE
    <3>1. x[k + 1] = x[1] /\ k + 1 \in 1 .. l /\ k + 1 # 1 /\ 1 \in 1 .. l
      BY <1>1, <1>4, <1>6, <2>3
    <3>. QED  BY <2>1, <3>1
  <2>. QED  BY <1>2, <1>4, <2>2, <2>3, OneList
<1>9. ASSUME Once(<<y>>), Head(x) \notin In(<<y>>) PROVE Once(<<x>>)
  <2>1. \A k, m \in 1 .. l - 1 : y[k] = y[m] => k = m
    BY <1>4, <1>9, OneList
  <2>2. \A k \in 1 .. l - 1 : y[k] # x[1]
    BY <1>2, <1>4, <1>9, OneList
  <2>3. ASSUME NEW k \in 1 .. l, NEW m \in 1 .. l, x[k] = x[m] PROVE k = m
    <3>1. CASE k = 1 \/ m = 1
      BY <1>5, <2>2, <2>3, <3>1
    <3>2. CASE k # 1 /\ m # 1
      <4>1. k - 1 = m - 1
        BY <1>5, <2>1, <2>3, <3>2
      <4>. QED  BY <4>1
    <3>. QED  BY <3>1, <3>2
  <2>. QED  BY <1>2, <2>3, OneList
<1>10. In(<<x>>) = In(<<y>>) \cup {Head(x)}
  BY <1>7
<1>11. Once(<<x>>) <=> Once(<<y>>) /\ In(<<y>>) \cap {Head(x)} = {}
  BY <1>8, <1>9
<1>. QED  BY <1>3, <1>10, <1>11, OneCandidate DEF With

(* What has been reported, and what is reported next *)
LEMMA Joined ==
    ASSUME NEW x \in Seq(Cands), NEW y \in Seq(Cands)
    PROVE  With(<<x \o y>>, <<x>>, y)
<1>1. PICK l \in Nat, m \in Nat : l = Len(x) /\ m = Len(y)
  BY LenProperties
<1>2. PICK z : z = x \o y
  OBVIOUS
<1>3. /\ DOMAIN x = 1 .. l /\ DOMAIN y = 1 .. m /\ DOMAIN z = 1 .. l + m
      /\ \A n \in 1 .. l : z[n] = x[n]
      /\ \A n \in 1 .. m : z[l + n] = y[n]
  BY <1>1, <1>2, ConcatProperties
<1>4. \A n \in 1 .. l + m : n \in 1 .. l \/ (n - l \in 1 .. m /\ z[n] = y[n - l])
  <2>. SUFFICES ASSUME NEW n \in 1 .. l + m, n \notin 1 .. l
                PROVE  n - l \in 1 .. m /\ z[n] = y[n - l]
    OBVIOUS
  <2>1. n - l \in 1 .. m /\ l + (n - l) = n
    BY <1>1
  <2>. QED  BY <1>3, <2>1
<1>5. /\ \A n \in 1 .. l : n \in 1 .. l + m
      /\ \A n \in 1 .. m : l + n \in 1 .. l + m
  BY <1>1
<1>6. \A c : c \in In(<<z>>) <=> c \in In(<<x>>) \/ c \in In(<<y>>)
  <2>1. \A c : c \in In(<<z>>) => c \in In(<<x>>) \/ c \in In(<<y>>)
    BY <1>3, <1>4, OneList
  <2>2. \A c : c \in In(<<x>>) => c \in In(<<z>>)
    BY <1>3, <1>5, OneList
  <2>3. \A c : c \in In(<<y>>) => c \in In(<<z>>)
    BY <1>3, <1>5, OneList
  <2>. QED  BY <2>1, <2>2, <2>3
<1>7. ASSUME Once(<<x>>), Once(<<y>>), In(<<x>>) \cap In(<<y>>) = {} PROVE Once(<<z>>)
  <2>1. /\ \A j, k \in 1 .. l : x[j] = x[k] => j = k
        /\ \A j, k \in 1 .. m : y[j] = y[k] => j = k
    BY <1>3, <1>7, OneList
  <2>2. \A j \in 1 .. l, k \in 1 .. m : x[j] # y[k]
    <3>1. \A j \in 1 .. l, k \in 1 .. m : x[j] \in In(<<x>>) /\ y[k] \in In(<<y>>)
      BY <1>3, OneList
    <3>. QED  BY <1>7, <3>1
  <2>3. ASSUME NEW j \in 1 .. l + m, NEW k \in 1 .. l + m, z[j] = z[k] PROVE j = k
    <3>1. CASE j \in 1 .. l /\ k \in 1 .. l
      BY <1>3, <2>1, <2>3, <3>1
    <3>2. CASE j \in 1 .. l /\ k \notin 1 .. l
      BY <1>3, <1>4, <2>2, <2>3, <3>2
    <3>3. CASE j \notin 1 .. l /\ k \in 1 .. l
      BY <1>3, <1>4, <2>2, <2>3, <3>3
    <3>4. CASE j \notin 1 .. l /\ k \notin 1 .. l
      <4>1. j - l = k - l
        BY <1>4, <2>1, <2>3, <3>4
      <4>. QED  BY <4>1
    <3>. QED  BY <3>1, <3>2, <3>3, <3>4
  <2>. QED  BY <1>3, <2>3, OneList
<1>8. ASSUME Once(<<z>>) PROVE Once(<<x>>) /\ Once(<<y>>) /\ In(<<x>>) \cap In(<<y>>) = {}
  <2>1. \A j, k \in 1 .. l + m : z[j] = z[k] => j = k
    BY <1>3, <1>8, OneList
  <2>2. Once(<<x>>)
    BY <1>3, <1>5, <2>1, OneList
  <2>3. \A j, k \in 1 .. m : y[j] = y[k] => j = k
    <3>. SUFFICES ASSUME NEW j \in 1 .. m, NEW k \in 1 .. m, y[j] = y[k] PROVE j = k
      OBVIOUS
    <3>1. l + j = l + k
      BY <1>3, <1>5, <2>1
    <3>. QED  BY <3>1
  <2>4. ASSUME NEW c \in In(<<x>>), c \in In(<<y>>) PROVE FALSE
    <3>1. PICK j \in 1 .. l, k \in 1 .. m : x[j] = c /\ y[k] = c
      BY <1>3, <2>4, OneList
    <3>2. j = l + k
      BY <1>3, <1>5, <2>1, <3>1
    <3>. QED  BY <3>2
  <2>. QED  BY <1>3, <2>2, <2>3, <2>4, OneList
<1>. QED  BY <1>2, <1>6, <1>7, <1>8 DEF With

-----------------------------------------------------------------------------
(* The candidates of the jobs at either end *)
LEMMA CandsOfJobs ==
    ASSUME NEW S, NEW jobs \in Seq(S), \A job \in S : job.cands \in Seq(Cands)
    PROVE  /\ CandsOf(jobs) \in Seq(Seq(Cands)) /\ Len(CandsOf(jobs)) = Len(jobs)
           /\ \A n \in 1 .. Len(jobs) : CandsOf(jobs)[n] = jobs[n].cands
<1>1. PICK l \in Nat : l = Len(jobs)
  BY LenProperties
<1>2. DOMAIN jobs = 1 .. l /\ \A n \in 1 .. l : jobs[n] \in S
  BY <1>1
<1>3. CandsOf(jobs) = [n \in 1 .. l |-> jobs[n].cands]
  BY <1>2 DEF CandsOf
<1>. QED  BY <1>1, <1>2, <1>3

LEMMA JobAppended ==
    ASSUME NEW S, NEW jobs \in Seq(S), NEW job \in S, \A j \in S : j.cands \in Seq(Cands)
    PROVE  With(CandsOf(Append(jobs, job)), CandsOf(jobs), job.cands)
<1>1. CandsOf(Append(jobs, job)) = Append(CandsOf(jobs), job.cands)
  <2>1. PICK l \in Nat : l = Len(jobs)
    BY LenProperties
  <2>2. DOMAIN Append(jobs, job) = 1 .. l + 1 /\ Append(jobs, job)[l + 1] = job
        /\ \A n \in 1 .. l : Append(jobs, job)[n] = jobs[n]
    BY <2>1, AppendProperties, LenProperties
  <2>3. CandsOf(jobs) \in Seq(Seq(Cands)) /\ Len(CandsOf(jobs)) = l
        /\ \A n \in 1 .. l : CandsOf(jobs)[n] = jobs[n].cands
    BY <2>1, CandsOfJobs
  <2>4. Append(CandsOf(jobs), job.cands)
           = [n \in 1 .. l + 1 |-> IF n = l + 1 THEN job.cands ELSE CandsOf(jobs)[n]]
    BY <2>1, <2>3
  <2>5. CandsOf(Append(jobs, job)) = [n \in 1 .. l + 1 |-> Append(jobs, job)[n].cands]
    BY <2>2 DEF CandsOf
  <2>6. \A n \in 1 .. l + 1 : n # l + 1 => n \in 1 .. l
    BY <2>1
  <2>7. \A n \in 1 .. l + 1 :
           Append(jobs, job)[n].cands = IF n = l + 1 THEN job.cands ELSE CandsOf(jobs)[n]
    BY <2>2, <2>3, <2>6
  <2>. QED  BY <2>4, <2>5, <2>7
<1>. QED  BY <1>1, CandsOfJobs, AtTheEnd

LEMMA LastJob ==
    ASSUME NEW S, NEW jobs \in Seq(S), jobs # <<>>, \A j \in S : j.cands \in Seq(Cands)
    PROVE  With(CandsOf(jobs), CandsOf(Front(jobs)), Last(jobs).cands)
<1>1. PICK l \in Nat : l = Len(jobs) /\ l >= 1
  BY LenProperties, EmptySeq
<1>2. CandsOf(jobs) \in Seq(Seq(Cands)) /\ Len(CandsOf(jobs)) = l
      /\ \A n \in 1 .. l : CandsOf(jobs)[n] = jobs[n].cands
  BY <1>1, CandsOfJobs
<1>3. DOMAIN Front(jobs) = 1 .. l - 1 /\ \A n \in 1 .. l - 1 : Front(jobs)[n] = jobs[n]
  BY <1>1 DEF Front
<1>4. CandsOf(Front(jobs)) = [n \in 1 .. l - 1 |-> jobs[n].cands]
  BY <1>3 DEF CandsOf
<1>5. Front(CandsOf(jobs)) = [n \in 1 .. l - 1 |-> CandsOf(jobs)[n]]
  BY <1>1, <1>2 DEF Front
<1>6. Front(CandsOf(jobs)) = CandsOf(Front(jobs))
  BY <1>1, <1>2, <1>4, <1>5
<1>7. Last(CandsOf(jobs)) = Last(jobs).cands
  BY <1>1, <1>2 DEF Last
<1>8. CandsOf(jobs) # <<>>
  BY <1>1, <1>2, EmptySeq
<1>. QED  BY <1>2, <1>6, <1>7, <1>8, AtTheBack

LEMMA TailIs ==
    ASSUME NEW S, NEW q \in Seq(S), q # <<>>
    PROVE  Tail(q) = [n \in 1 .. Len(q) - 1 |-> q[n + 1]]
<1>1. PICK rest \in Seq(S) : rest = Tail(q)
  BY HeadTailProperties
<1>2. /\ DOMAIN rest = 1 .. Len(q) - 1
      /\ \A n \in 1 .. Len(q) - 1 : rest[n] = q[n + 1]
  BY <1>1
<1>3. rest = [n \in DOMAIN rest |-> rest[n]]
  OBVIOUS
<1>. QED  BY <1>1, <1>2, <1>3

LEMMA FirstJob ==
    ASSUME NEW S, NEW jobs \in Seq(S), jobs # <<>>, \A j \in S : j.cands \in Seq(Cands)
    PROVE  With(CandsOf(jobs), CandsOf(Tail(jobs)), Head(jobs).cands)
<1>1. PICK l \in Nat : l = Len(jobs) /\ l >= 1
  BY LenProperties, EmptySeq
<1>2. CandsOf(jobs) \in Seq(Seq(Cands)) /\ Len(CandsOf(jobs)) = l
      /\ \A n \in 1 .. l : CandsOf(jobs)[n] = jobs[n].cands
  BY <1>1, CandsOfJobs
<1>3. DOMAIN Tail(jobs) = 1 .. l - 1 /\ \A n \in 1 .. l - 1 : Tail(jobs)[n] = jobs[n + 1]
  BY <1>1
<1>4. CandsOf(Tail(jobs)) = [n \in 1 .. l - 1 |-> jobs[n + 1].cands]
  BY <1>3 DEF CandsOf
<1>5. Tail(CandsOf(jobs)) = [n \in 1 .. l - 1 |-> CandsOf(jobs)[n + 1]]
  <2>1. PICK s \in Seq(Seq(Cands)) : s = CandsOf(jobs) /\ Len(s) = l
    BY <1>2
  <2>2. s # <<>>
    BY <1>1, <2>1
  <2>3. Tail(s) = [n \in 1 .. l - 1 |-> s[n + 1]]
    BY <1>1, <2>1, <2>2, TailIs
  <2>. QED  BY <2>1, <2>3
<1>6. Tail(CandsOf(jobs)) = CandsOf(Tail(jobs))
  <2>1. \A n \in 1 .. l - 1 : n + 1 \in 1 .. l
    BY <1>1
  <2>. QED  BY <1>2, <1>4, <1>5, <2>1
<1>7. Head(CandsOf(jobs)) = Head(jobs).cands
  BY <1>1, <1>2
<1>8. CandsOf(jobs) # <<>>
  BY <1>1, <1>2, EmptySeq
<1>. QED  BY <1>2, <1>6, <1>7, <1>8, AtTheFront

LEMMA CandsOfOne ==
    /\ CandsOf(<<>>) = <<>>
    /\ \A job : CandsOf(<<job>>) = <<job.cands>>
<1>1. CandsOf(<<>>) = <<>>
  BY DEF CandsOf
<1>2. ASSUME NEW job PROVE CandsOf(<<job>>) = <<job.cands>>
  BY DEF CandsOf
<1>. QED  BY <1>1, <1>2
-----------------------------------------------------------------------------
(* What else is needed: an engine, and a verification, has a job only while *)
(* it is at work, and one that is to be verified is of one candidate.       *)
Singles == {job \in VerifyJobs : \E c \in Cands : job.cands = <<c>>}

HandsOK ==
    /\ completed_jobs \in Seq(Seq(Cands)) /\ reported \in Seq(Cands)
    /\ vjobs \in Seq(Singles) /\ processor["verify"].jobs \in Seq(Singles)
    /\ \A t \in Engines :
          /\ processor_threads[t].state # "busy" => processor_threads[t].job = <<>>
          /\ processor_threads[t].state = "busy" /\ processor_threads[t].kind = "verify" =>
                \E job \in Singles : processor_threads[t].job = <<job>>
    /\ dpc \notin {"candidates", "verified", "failed"} => current = <<>>

HitInv ==
    /\ Inv /\ HandsOK /\ Apart(Held)
    /\ NothingFailed => Kept(Held)

(* Candidates move from p to q, or are dropped: no hit, or a thread fails.  *)
Moves(p, q) ==
    /\ p \in Places /\ q \in Places /\ p # q
    /\ \A r \in Places : r \notin {p, q} => Held'[r] = Held[r]
    /\ In(Held'[p]) \cup In(Held'[q]) \subseteq In(Held[p]) \cup In(Held[q])
    /\ Once(Held'[p]) /\ Once(Held'[q]) /\ In(Held'[p]) \cap In(Held'[q]) = {}
    /\ \A c \in (In(Held[p]) \cup In(Held[q])) \ (In(Held'[p]) \cup In(Held'[q])) :
          NothingFailed' => fate[c] # "hit"

LEMMA Moved ==
    ASSUME Apart(Held), NothingFailed => Kept(Held), fate' = fate,
           NothingFailed' => NothingFailed, NEW p, NEW q, Moves(p, q)
    PROVE  Apart(Held)' /\ (NothingFailed => Kept(Held))'
<1>. USE DEF Moves
<1>1. ASSUME NEW r \in Places
      PROVE  Once(Held'[r])
  BY DEF Apart
<1>2. ASSUME NEW r \in Places, NEW s \in Places, r # s
      PROVE  In(Held'[r]) \cap In(Held'[s]) = {}
  <2>1. CASE r \in {p, q} /\ s \in {p, q}
    BY <1>2, <2>1
  <2>2. CASE r \in {p, q} /\ s \notin {p, q}
    BY <1>2, <2>2 DEF Apart
  <2>3. CASE r \notin {p, q} /\ s \in {p, q}
    BY <1>2, <2>3 DEF Apart
  <2>4. CASE r \notin {p, q} /\ s \notin {p, q}
    BY <1>2, <2>4 DEF Apart
  <2>. QED  BY <2>1, <2>2, <2>3, <2>4
<1>3. ASSUME NothingFailed', NEW c \in DOMAIN fate, fate[c] = "hit"
      PROVE  \E r \in Places : c \in In(Held'[r])
  <2>1. PICK r \in Places : c \in In(Held[r])
    BY <1>3 DEF Kept
  <2>2. CASE r \in {p, q}
    BY <1>3, <2>1, <2>2
  <2>3. CASE r \notin {p, q}
    BY <2>1, <2>3
  <2>. QED  BY <2>2, <2>3
<1>. QED  BY <1>1, <1>2, <1>3 DEF Apart, Kept

LEMMA NothingMoved ==
    ASSUME Apart(Held), NothingFailed => Kept(Held), fate' = fate,
           NothingFailed' => NothingFailed, Held' = Held
    PROVE  Apart(Held)' /\ (NothingFailed => Kept(Held))'
  BY DEF Apart, Kept

(* The two ways to move: from p to q; and from p, with q taking nothing *)
LEMMA Handed ==
    ASSUME Apart(Held), NEW p \in Places, NEW q \in Places, p # q,
           \A r \in Places : r \notin {p, q} => Held'[r] = Held[r],
           NEW x, With(Held[p], Held'[p], x), With(Held'[q], Held[q], x)
    PROVE  Moves(p, q)
<1>1. /\ Once(Held[p]) /\ Once(Held[q]) /\ In(Held[p]) \cap In(Held[q]) = {}
  BY DEF Apart
<1>. QED  BY <1>1 DEF Moves, With

LEMMA Dropped ==
    ASSUME Apart(Held), NEW p \in Places, NEW q \in Places, p # q,
           \A r \in Places : r \notin {p, q} => Held'[r] = Held[r],
           NEW x, With(Held[p], Held'[p], x), With(Held'[q], Held[q], <<>>),
           \A c \in In(<<x>>) : NothingFailed' => fate[c] # "hit"
    PROVE  Moves(p, q)
<1>1. /\ Once(Held[p]) /\ Once(Held[q]) /\ In(Held[p]) \cap In(Held[q]) = {}
  BY DEF Apart
<1>. QED  BY <1>1, NoCandidates DEF Moves, With

LEMMA WithNothing ==
    ASSUME NEW x
    PROVE  /\ With(x, x, <<>>)
           /\ With(<<x>>, <<>>, x) /\ With(<<x>>, << <<>> >>, x)
  BY NoCandidates DEF With

LEMMA PlacesOf ==
    /\ Held["sjobs"] = CandsOf(sjobs) /\ Held["vjobs"] = CandsOf(vjobs)
    /\ Held["searching"] = CandsOf(processor["search"].jobs)
    /\ Held["searched"] = CandsOf(processor["search"].done)
    /\ Held["verifying"] = CandsOf(processor["verify"].jobs)
    /\ Held["verified"] = CandsOf(processor["verify"].done)
    /\ Held["results"] = CandsOf(results) /\ Held["current"] = CandsOf(current)
    /\ Held["completed_jobs"] = completed_jobs /\ Held["reported"] = <<reported>>
    /\ Held["engines"] = [t \in DOMAIN processor_threads |->
                             IF processor_threads[t].job = <<>> THEN <<>>
                             ELSE processor_threads[t].job[1].cands]
  BY DEF Held

LEMMA PlacesAfter ==
    /\ Held'["sjobs"] = CandsOf(sjobs') /\ Held'["vjobs"] = CandsOf(vjobs')
    /\ Held'["searching"] = CandsOf(processor'["search"].jobs)
    /\ Held'["searched"] = CandsOf(processor'["search"].done)
    /\ Held'["verifying"] = CandsOf(processor'["verify"].jobs)
    /\ Held'["verified"] = CandsOf(processor'["verify"].done)
    /\ Held'["results"] = CandsOf(results') /\ Held'["current"] = CandsOf(current')
    /\ Held'["completed_jobs"] = completed_jobs' /\ Held'["reported"] = <<reported'>>
    /\ Held'["engines"] = [t \in DOMAIN processor_threads' |->
                             IF processor_threads'[t].job = <<>> THEN <<>>
                             ELSE processor_threads'[t].job[1].cands]
  BY DEF Held, CandsOf

LEMMA CandsTyped ==
    \A kind : \A job \in JobsFor(kind) : job.cands \in Seq(Cands)
  BY DEF JobsFor, SearchJobs, VerifyJobs

(* A thread or a dispatcher that has failed stays so. *)
LEMMA StillFailed ==
    ASSUME EnginesOK, EnginesOK', setting' = setting, dpc = "failed" => dpc' = "failed",
           \A t \in Engines : processor_threads[t].state = "failed"
                                 => processor_threads'[t].state = "failed"
    PROVE  NothingFailed' => NothingFailed
<1>1. DOMAIN processor_threads = Engines /\ DOMAIN processor_threads' = Engines
  BY SettingFrame DEF EnginesOK
<1>. QED  BY <1>1 DEF NothingFailed

-----------------------------------------------------------------------------
LEMMA InitHit == Init => HitInv
<1>. SUFFICES ASSUME Init PROVE HitInv
  OBVIOUS
<1>1. Inv
  BY InitInv
<1>2. /\ sjobs = [i \in 1 .. NumIndexes |-> SearchJob(i)]
      /\ vjobs = <<>> /\ completed_jobs = <<>> /\ results = <<>> /\ current = <<>>
      /\ reported = <<>>
      /\ fate \in [{c \in Candidates : c[2] <= found[c[1]]} -> setting.fates]
      /\ found \in [1 .. NumIndexes -> 0 .. setting.candidates]
  BY DEF Init
<1>3. \A kind \in Kinds : processor[kind].jobs = <<>> /\ processor[kind].done = <<>>
  BY DEF Init, NewProcessor
<1>4. /\ DOMAIN processor_threads = Engines
      /\ \A t \in Engines : processor_threads[t].state = "loop" /\ processor_threads[t].job = <<>>
  BY DEF Init, FirstEngines, NewEngine
<1>5. HandsOK
  <2>1. processor["verify"].jobs = <<>>
    BY <1>3 DEF Kinds
  <2>2. \A S : <<>> \in Seq(S)
    OBVIOUS
  <2>3. \A t \in Engines : processor_threads[t].state # "busy"
    BY <1>4
  <2>. QED  BY <1>2, <1>4, <2>1, <2>2, <2>3 DEF HandsOK
<1>6. Held["sjobs"] = [i \in 1 .. NumIndexes |-> CandidatesOf(i)]
  BY <1>2, PlacesOf DEF CandsOf, SearchJob
<1>7. \A p \in Places : p # "sjobs" => In(Held[p]) = {} /\ Once(Held[p])
  <2>1. /\ Held["vjobs"] = <<>> /\ Held["searching"] = <<>> /\ Held["searched"] = <<>>
        /\ Held["verifying"] = <<>> /\ Held["verified"] = <<>> /\ Held["results"] = <<>>
        /\ Held["current"] = <<>> /\ Held["completed_jobs"] = <<>>
        /\ Held["reported"] = << <<>> >>
    BY <1>2, <1>3, PlacesOf, CandsOfOne DEF Kinds
  <2>2. In(Held["engines"]) = {} /\ Once(Held["engines"])
    <3>1. Held["engines"] = [t \in Engines |-> <<>>]
      BY <1>4, PlacesOf
    <3>2. PICK e : e = Held["engines"] /\ DOMAIN e = Engines /\ \A t \in Engines : e[t] = <<>>
      BY <3>1
    <3>3. \A t \in DOMAIN e : DOMAIN e[t] = {}
      BY <3>2
    <3>4. In(e) = {} /\ Once(e)
      BY <3>3, InFacts DEF Once
    <3>. QED  BY <3>2, <3>4
  <2>. QED  BY <2>1, <2>2, NoCandidates DEF Places
<1>8. PICK s : /\ s = Held["sjobs"] /\ DOMAIN s = 1 .. NumIndexes
               /\ \A i \in 1 .. NumIndexes : DOMAIN s[i] = 1 .. found[i]
               /\ \A i \in 1 .. NumIndexes : \A k \in 1 .. found[i] : s[i][k] = <<i, k>>
  <2>1. PICK s : s = Held["sjobs"]
    OBVIOUS
  <2>2. DOMAIN s = 1 .. NumIndexes /\ \A i \in 1 .. NumIndexes : s[i] = CandidatesOf(i)
    BY <1>6, <2>1
  <2>3. ASSUME NEW i \in 1 .. NumIndexes
        PROVE  DOMAIN s[i] = 1 .. found[i] /\ \A k \in 1 .. found[i] : s[i][k] = <<i, k>>
    <3>1. s[i] = [k \in 1 .. found[i] |-> <<i, k>>]
      BY <2>2 DEF CandidatesOf
    <3>. QED  BY <3>1
  <2>. QED  BY <2>1, <2>2, <2>3
<1>9. Once(s)
  <2>. SUFFICES ASSUME NEW i \in DOMAIN s, NEW j \in DOMAIN s,
                       NEW k \in DOMAIN s[i], NEW l \in DOMAIN s[j], s[i][k] = s[j][l]
                PROVE  i = j /\ k = l
    BY DEF Once
  <2>1. s[i][k] = <<i, k>> /\ s[j][l] = <<j, l>>
    BY <1>8
  <2>2. <<i, k>> = <<j, l>>
    BY <2>1
  <2>. QED  BY <2>2
<1>10. Apart(Held)
  BY <1>7, <1>8, <1>9 DEF Apart
<1>11. Kept(Held)
  <2>. SUFFICES ASSUME NEW c \in DOMAIN fate PROVE c \in In(s) /\ "sjobs" \in Places
    BY <1>8 DEF Kept
  <2>1. c \in Candidates /\ c[2] <= found[c[1]]
    BY <1>2
  <2>2. PICK i \in 1 .. NumIndexes, k \in 1 .. setting.candidates : c = <<i, k>>
    BY <2>1 DEF Candidates
  <2>3. k \in 1 .. found[i]
    <3>1. k <= found[i] /\ found[i] \in Nat
      BY <1>1, <1>2, <2>1, <2>2, SettingFacts DEF Inv, Types, ManagerOK
    <3>. QED  BY <3>1
  <2>4. s[i][k] = c /\ k \in DOMAIN s[i] /\ i \in DOMAIN s
    BY <1>8, <2>2, <2>3
  <2>. QED  BY <2>4, InFacts DEF Places
<1>. QED  BY <1>1, <1>5, <1>10, <1>11 DEF HitInv

-----------------------------------------------------------------------------
(* The place of an engine's job, and what an engine's step leaves as it is *)
Waiting(kind) == IF kind = "verify" THEN "verifying" ELSE "searching"
Finished(kind) == IF kind = "verify" THEN "verified" ELSE "searched"

LEMMA EngineFrame ==
    ASSUME ProcessorsOK, ProcessorsOK', NEW kind \in Kinds, NEW S,
           UNCHANGED <<sjobs, vjobs, completed_jobs, reported, results, current>>,
           \A k \in Kinds : k # kind => processor'[k] = processor[k]
    PROVE  /\ \A r \in Places : r \notin {Waiting(kind), Finished(kind), "engines"}
                                   => Held'[r] = Held[r]
           /\ Held[Waiting(kind)] = CandsOf(processor[kind].jobs)
           /\ Held[Finished(kind)] = CandsOf(processor[kind].done)
           /\ Held'[Waiting(kind)] = CandsOf(processor'[kind].jobs)
           /\ Held'[Finished(kind)] = CandsOf(processor'[kind].done)
           /\ {Waiting(kind), Finished(kind), "engines"} \subseteq Places
           /\ Waiting(kind) # "engines" /\ Finished(kind) # "engines"
           /\ Waiting(kind) # Finished(kind)
  BY PlacesOf, PlacesAfter DEF Waiting, Finished, Places, Kinds

(* An engine takes up a job, or is rid of it. *)
LEMMA EngineTakes ==
    ASSUME NEW t \in Engines, DOMAIN processor_threads = Engines,
           DOMAIN processor_threads' = Engines, NEW job,
           processor_threads[t].job = <<>>, processor_threads'[t].job = <<job>>,
           \A u \in Engines : u # t => processor_threads'[u].job = processor_threads[u].job
    PROVE  With(Held'["engines"], Held["engines"], job.cands)
<1>1. PICK a : a = Held["engines"]
  OBVIOUS
<1>2. PICK b : b = Held'["engines"]
  OBVIOUS
<1>3. DOMAIN a = Engines /\ DOMAIN b = Engines /\ a[t] = <<>> /\ b[t] = job.cands
  BY <1>1, <1>2, PlacesOf, PlacesAfter
<1>4. \A u \in Engines : u # t => a[u] = b[u]
  BY <1>1, <1>2, PlacesOf, PlacesAfter
<1>. QED  BY <1>1, <1>2, <1>3, <1>4, InTheMiddle

LEMMA EngineGives ==
    ASSUME NEW t \in Engines, DOMAIN processor_threads = Engines,
           DOMAIN processor_threads' = Engines, NEW job,
           processor_threads[t].job = <<job>>, processor_threads'[t].job = <<>>,
           \A u \in Engines : u # t => processor_threads'[u].job = processor_threads[u].job
    PROVE  With(Held["engines"], Held'["engines"], job.cands)
<1>1. PICK a : a = Held["engines"]
  OBVIOUS
<1>2. PICK b : b = Held'["engines"]
  OBVIOUS
<1>3. DOMAIN a = Engines /\ DOMAIN b = Engines /\ b[t] = <<>> /\ a[t] = job.cands
  <2>1. <<job>> # <<>> /\ <<job>>[1] = job
    OBVIOUS
  <2>2. DOMAIN a = Engines /\ a[t] = job.cands
    BY <1>1, <2>1, PlacesOf
  <2>3. DOMAIN b = Engines /\ b[t] = <<>>
    BY <1>2, PlacesAfter
  <2>. QED  BY <2>2, <2>3
<1>4. \A u \in Engines : u # t => b[u] = a[u]
  BY <1>1, <1>2, PlacesOf, PlacesAfter
<1>. QED  BY <1>1, <1>2, <1>3, <1>4, InTheMiddle

LEMMA StartJobHit ==
    ASSUME HitInv, NEW t \in Engines, StartJob(t)
    PROVE  HitInv'
<1>. DEFINE kind == processor_threads[t].kind
            jobs == processor[kind].jobs
            job == Last(jobs)
<1>1. /\ UNCHANGED <<input, manager, dispatcher, main>>
      /\ processor_threads[t].state = "loop" /\ jobs # <<>>
      /\ processor_threads' = [processor_threads EXCEPT ![t].state = "busy", ![t].job = <<job>>]
      /\ processor' = [processor EXCEPT ![kind] = JobStarted(@)]
  BY DEF StartJob, HasJob, NextJob
<1>2. /\ UNCHANGED <<setting, fate, sjobs, vjobs, completed_jobs, reported, results, current, dpc>>
  BY <1>1 DEF input, manager, queues, dispatcher, main
<1>3. Inv /\ HandsOK /\ Apart(Held) /\ (NothingFailed => Kept(Held))
  BY DEF HitInv
<1>4. Inv'
  BY <1>3, StartJobInv
<1>5. /\ EnginesOK /\ EnginesOK' /\ ProcessorsOK /\ ProcessorsOK'
      /\ processor_threads \in [Engines -> EngineData] /\ Engines' = Engines
      /\ DOMAIN processor_threads = Engines /\ DOMAIN processor_threads' = Engines
  BY <1>2, <1>3, <1>4, SettingFrame DEF Inv, Types, EnginesOK
<1>6. kind \in Kinds
  BY <1>5 DEF EngineData
<1>7. processor[kind] \in [jobs : Seq(JobsFor(kind)), done : Seq(JobsFor(kind))]
      /\ DOMAIN processor = Kinds
  BY <1>5, <1>6 DEF ProcessorsOK
<1>8. /\ jobs \in Seq(JobsFor(kind))
      /\ processor'[kind].jobs = Front(jobs) /\ processor'[kind].done = processor[kind].done
      /\ \A k \in Kinds : k # kind => processor'[k] = processor[k]
  <2>1. processor'[kind] = JobStarted(processor[kind])
    BY <1>1, <1>6, <1>7
  <2>2. /\ processor[kind].jobs \in Seq(JobsFor(kind))
        /\ JobStarted(processor[kind]) = [jobs |-> Front(jobs), done |-> processor[kind].done]
    BY <1>7, ProcessorValues
  <2>. QED  BY <1>1, <2>1, <2>2
<1>9. /\ processor_threads[t].job = <<>> /\ processor_threads'[t].job = <<job>>
      /\ processor_threads'[t].state = "busy" /\ processor_threads'[t].kind = kind
      /\ \A u \in Engines : u # t => processor_threads'[u] = processor_threads[u]
  <2>1. processor_threads[t].job = <<>>
    BY <1>1, <1>3 DEF HandsOK
  <2>. QED  BY <1>1, <1>5, <2>1 DEF EngineData
<1>. HIDE DEF kind, jobs, job
<1>10. Moves(Waiting(kind), "engines")
  <2>1. With(CandsOf(jobs), CandsOf(Front(jobs)), job.cands)
    BY <1>1, <1>8, CandsTyped, LastJob DEF job
  <2>2. With(Held'["engines"], Held["engines"], job.cands)
    BY <1>5, <1>9, EngineTakes
  <2>3. /\ \A r \in Places : r \notin {Waiting(kind), "engines"} => Held'[r] = Held[r]
        /\ Held[Waiting(kind)] = CandsOf(jobs) /\ Held'[Waiting(kind)] = CandsOf(Front(jobs))
        /\ Waiting(kind) \in Places /\ "engines" \in Places /\ Waiting(kind) # "engines"
    BY <1>2, <1>5, <1>6, <1>8, EngineFrame DEF jobs
  <2>. QED  BY <1>3, <2>1, <2>2, <2>3, Handed
<1>11. NothingFailed' => NothingFailed
  BY <1>1, <1>2, <1>5, <1>9, StillFailed
<1>12. HandsOK'
  <2>1. processor'["verify"].jobs \in Seq(Singles)
    <3>1. CASE kind = "verify"
      <4>1. jobs \in Seq(Singles)
        BY <1>3, <3>1 DEF HandsOK, jobs
      <4>. QED  BY <1>1, <1>8, <3>1, <4>1, EndsOf
    <3>2. CASE kind # "verify"
      BY <1>3, <1>8, <3>2 DEF HandsOK, Kinds
    <3>. QED  BY <3>1, <3>2
  <2>2. kind = "verify" => job \in Singles
    <3>. SUFFICES ASSUME kind = "verify" PROVE job \in Singles
      OBVIOUS
    <3>1. jobs \in Seq(Singles)
      BY <1>3 DEF HandsOK, jobs
    <3>. QED  BY <1>1, <3>1, EndsOf DEF job
  <2>3. ASSUME NEW u \in Engines
        PROVE  /\ processor_threads'[u].state # "busy" => processor_threads'[u].job = <<>>
               /\ processor_threads'[u].state = "busy" /\ processor_threads'[u].kind = "verify" =>
                     \E j \in Singles : processor_threads'[u].job = <<j>>
    BY <1>3, <1>9, <2>2 DEF HandsOK
  <2>4. Singles' = Singles
    BY DEF Singles, VerifyJobs
  <2>. QED  BY <1>2, <1>3, <1>5, <2>1, <2>3, <2>4 DEF HandsOK
<1>. QED  BY <1>2, <1>3, <1>4, <1>10, <1>11, <1>12, Moved DEF HitInv

(* A verification that does not find the string drops no hit. *)
LEMMA FinishJobHit ==
    ASSUME HitInv, NEW t \in Engines, FinishJob(t)
    PROVE  HitInv'
<1>. DEFINE kind == processor_threads[t].kind
            done == processor[kind].done
            result == Result(processor_threads[t].job[1])
<1>1. /\ UNCHANGED <<input, manager, dispatcher, main>>
      /\ processor_threads[t].state = "busy"
      /\ processor_threads' = [processor_threads EXCEPT ![t].state = "loop", ![t].job = <<>>]
      /\ processor' = [processor EXCEPT ![kind] = JobFinished(@, result)]
  BY DEF FinishJob
<1>2. /\ UNCHANGED <<setting, fate, sjobs, vjobs, completed_jobs, reported, results, current, dpc>>
  BY <1>1 DEF input, manager, queues, dispatcher, main
<1>3. Inv /\ HandsOK /\ Apart(Held) /\ (NothingFailed => Kept(Held))
  BY DEF HitInv
<1>4. Inv'
  BY <1>3, FinishJobInv
<1>5. /\ EnginesOK /\ EnginesOK' /\ ProcessorsOK /\ ProcessorsOK'
      /\ processor_threads \in [Engines -> EngineData] /\ Engines' = Engines
      /\ DOMAIN processor_threads = Engines /\ DOMAIN processor_threads' = Engines
  BY <1>2, <1>3, <1>4, SettingFrame DEF Inv, Types, EnginesOK
<1>6. kind \in Kinds
  BY <1>5 DEF EngineData
<1>7. processor[kind] \in [jobs : Seq(JobsFor(kind)), done : Seq(JobsFor(kind))]
      /\ DOMAIN processor = Kinds
  BY <1>5, <1>6 DEF ProcessorsOK
<1>8. PICK job \in JobsFor(kind) :
          /\ processor_threads[t].job = <<job>>
          /\ kind = "verify" => job \in Singles
  BY <1>1, <1>3, <1>5 DEF EnginesOK, HandsOK, Singles, JobsFor
<1>9. result \in JobsFor(kind) /\ result = Result(job)
  BY <1>6, <1>8, ResultOfJob
<1>10. /\ done \in Seq(JobsFor(kind))
       /\ processor'[kind].jobs = processor[kind].jobs
       /\ processor'[kind].done = Append(done, result)
       /\ \A k \in Kinds : k # kind => processor'[k] = processor[k]
  <2>1. processor'[kind] = JobFinished(processor[kind], result)
    BY <1>1, <1>6, <1>7
  <2>2. /\ processor[kind].done \in Seq(JobsFor(kind))
        /\ JobFinished(processor[kind], result)
              = [jobs |-> processor[kind].jobs, done |-> Append(done, result)]
    BY <1>7, ProcessorValues
  <2>. QED  BY <1>1, <2>1, <2>2
<1>11. /\ processor_threads'[t].job = <<>> /\ processor_threads'[t].state = "loop"
       /\ \A u \in Engines : u # t => processor_threads'[u] = processor_threads[u]
  BY <1>1, <1>5 DEF EngineData
<1>. HIDE DEF kind, done, result
<1>12. Moves("engines", Finished(kind))
  <2>1. With(Held["engines"], Held'["engines"], job.cands)
    BY <1>5, <1>8, <1>11, EngineGives
  <2>2. With(CandsOf(Append(done, result)), CandsOf(done), result.cands)
    BY <1>9, <1>10, CandsTyped, JobAppended
  <2>3. /\ \A r \in Places : r \notin {Finished(kind), "engines"} => Held'[r] = Held[r]
        /\ Held[Finished(kind)] = CandsOf(done)
        /\ Held'[Finished(kind)] = CandsOf(Append(done, result))
        /\ Finished(kind) \in Places /\ "engines" \in Places /\ Finished(kind) # "engines"
    BY <1>2, <1>5, <1>6, <1>10, EngineFrame DEF done
  <2>4. CASE result = job
    BY <1>3, <2>1, <2>2, <2>3, <2>4, Handed
  <2>5. CASE result # job
    <3>1. job.kind # "search" /\ fate[job.cands[1]] # "hit" /\ result.cands = <<>>
      <4>1. /\ job.kind # "search" /\ fate[job.cands[1]] # "hit"
            /\ result = [job EXCEPT !.cands = <<>>]
        BY <1>9, <2>5 DEF Result
      <4>2. job \in SearchJobs \cup VerifyJobs
        BY <1>8 DEF JobsFor
      <4>3. [job EXCEPT !.cands = <<>>].cands = <<>>
        BY <4>2 DEF SearchJobs, VerifyJobs
      <4>. QED  BY <4>1, <4>3
    <3>2. job \in Singles
      BY <1>8, <3>1 DEF JobsFor, SearchJobs
    <3>3. PICK c \in Cands : job.cands = <<c>>
      BY <3>2 DEF Singles
    <3>4. In(<<job.cands>>) = {c} /\ fate[c] # "hit"
      BY <3>1, <3>3, OneCandidate
    <3>. QED  BY <1>3, <2>1, <2>2, <2>3, <3>1, <3>4, Dropped
  <2>. QED  BY <2>4, <2>5
<1>13. NothingFailed' => NothingFailed
  BY <1>1, <1>2, <1>5, <1>11, StillFailed
<1>14. HandsOK'
  <2>1. processor'["verify"].jobs \in Seq(Singles)
    BY <1>3, <1>10 DEF HandsOK, Kinds
  <2>2. ASSUME NEW u \in Engines
        PROVE  /\ processor_threads'[u].state # "busy" => processor_threads'[u].job = <<>>
               /\ processor_threads'[u].state = "busy" /\ processor_threads'[u].kind = "verify" =>
                     \E j \in Singles : processor_threads'[u].job = <<j>>
    BY <1>3, <1>11 DEF HandsOK
  <2>3. Singles' = Singles
    BY DEF Singles, VerifyJobs
  <2>. QED  BY <1>2, <1>3, <1>5, <2>1, <2>2, <2>3 DEF HandsOK
<1>. QED  BY <1>2, <1>3, <1>4, <1>12, <1>13, <1>14, Moved DEF HitInv

(* The job of an engine that fails is lost. *)
LEMMA EngineFailsHit ==
    ASSUME HitInv, NEW t \in Engines, EngineFails(t)
    PROVE  HitInv'
<1>1. /\ UNCHANGED <<input, manager, processor, dispatcher, main>>
      /\ processor_threads[t].state = "busy"
      /\ processor_threads' = [processor_threads EXCEPT ![t].state = "failed", ![t].job = <<>>]
  BY DEF EngineFails
<1>2. /\ UNCHANGED <<setting, fate, sjobs, vjobs, completed_jobs, reported, results, current, dpc>>
  BY <1>1 DEF input, manager, queues, dispatcher, main
<1>3. Inv /\ HandsOK /\ Apart(Held) /\ (NothingFailed => Kept(Held))
  BY DEF HitInv
<1>4. Inv'
  BY <1>3, EngineFailsInv
<1>5. /\ EnginesOK /\ EnginesOK' /\ ProcessorsOK /\ ProcessorsOK'
      /\ processor_threads \in [Engines -> EngineData] /\ Engines' = Engines
      /\ DOMAIN processor_threads = Engines /\ DOMAIN processor_threads' = Engines
  BY <1>2, <1>3, <1>4, SettingFrame DEF Inv, Types, EnginesOK
<1>6. PICK job : processor_threads[t].job = <<job>>
  BY <1>1, <1>5 DEF EnginesOK
<1>7. /\ processor_threads'[t].job = <<>> /\ processor_threads'[t].state = "failed"
      /\ \A u \in Engines : u # t => processor_threads'[u] = processor_threads[u]
  BY <1>1, <1>5 DEF EngineData
<1>8. ~NothingFailed'
  BY <1>5, <1>7 DEF NothingFailed
<1>9. Moves("engines", "sjobs")
  <2>1. With(Held["engines"], Held'["engines"], job.cands)
    BY <1>5, <1>6, <1>7, EngineGives
  <2>2. /\ \A r \in Places : r # "engines" => Held'[r] = Held[r]
        /\ "engines" \in Places /\ "sjobs" \in Places
    BY <1>1, <1>2, PlacesOf, PlacesAfter DEF Places
  <2>. QED  BY <1>3, <1>8, <2>1, <2>2, WithNothing, Dropped
<1>10. HandsOK'
  <2>1. ASSUME NEW u \in Engines
        PROVE  /\ processor_threads'[u].state # "busy" => processor_threads'[u].job = <<>>
               /\ processor_threads'[u].state = "busy" /\ processor_threads'[u].kind = "verify" =>
                     \E j \in Singles : processor_threads'[u].job = <<j>>
    BY <1>3, <1>7 DEF HandsOK
  <2>2. Singles' = Singles
    BY DEF Singles, VerifyJobs
  <2>. QED  BY <1>1, <1>2, <1>3, <1>5, <2>1, <2>2 DEF HandsOK
<1>. QED  BY <1>2, <1>3, <1>4, <1>8, <1>9, <1>10, Moved DEF HitInv

(* Steps that only set the engines' flags, stop an idle one, or move the    *)
(* dispatcher or main with nothing in their hands                           *)
LEMMA FlagsHit ==
    ASSUME HitInv, Inv', UNCHANGED <<setting, fate, sjobs, vjobs, completed_jobs, reported>>,
           UNCHANGED <<processor, results, current>>,
           dpc' = dpc \/ (dpc \notin {"candidates", "verified", "failed"}
                             /\ dpc' \notin {"candidates", "verified", "failed"}),
           \A t \in Engines :
               /\ processor_threads'[t].kind = processor_threads[t].kind
               /\ processor_threads'[t].job = processor_threads[t].job
               /\ processor_threads'[t].state = "busy" <=> processor_threads[t].state = "busy"
               /\ processor_threads[t].state = "failed" => processor_threads'[t].state = "failed"
    PROVE  HitInv'
<1>1. Inv /\ HandsOK /\ Apart(Held) /\ (NothingFailed => Kept(Held))
  BY DEF HitInv
<1>2. EnginesOK /\ EnginesOK' /\ Engines' = Engines
      /\ DOMAIN processor_threads = Engines /\ DOMAIN processor_threads' = Engines
  BY <1>1, SettingFrame DEF Inv, Types, EnginesOK
<1>3. NothingFailed' => NothingFailed
  BY <1>2, StillFailed
<1>4. Held' = Held
  <2>1. \A t \in Engines : processor_threads'[t].job = processor_threads[t].job
    OBVIOUS
  <2>. QED  BY <1>2, <2>1 DEF Held, CandsOf
<1>5. HandsOK'
  <2>1. Singles' = Singles
    BY DEF Singles, VerifyJobs
  <2>. QED  BY <1>1, <1>2, <2>1 DEF HandsOK
<1>. QED  BY <1>1, <1>3, <1>4, <1>5, NothingMoved DEF HitInv

LEMMA EngineStopsHit ==
    ASSUME HitInv, NEW t \in Engines, EngineStops(t)
    PROVE  HitInv'
<1>1. /\ UNCHANGED <<setting, fate, sjobs, vjobs, completed_jobs, reported>>
      /\ UNCHANGED <<processor, results, current, dpc>>
      /\ processor_threads[t].state = "loop"
      /\ processor_threads' = [processor_threads EXCEPT ![t].state = "stopped"]
  BY DEF EngineStops, input, manager, queues, dispatcher, main
<1>2. Inv'
  BY EngineStopsInv DEF HitInv
<1>3. processor_threads \in [Engines -> EngineData]
  BY DEF HitInv, Inv, Types, EnginesOK
<1>4. \A u \in Engines :
         /\ processor_threads'[u].kind = processor_threads[u].kind
         /\ processor_threads'[u].job = processor_threads[u].job
         /\ processor_threads'[u].state = "busy" <=> processor_threads[u].state = "busy"
         /\ processor_threads[u].state = "failed" => processor_threads'[u].state = "failed"
  BY <1>1, <1>3 DEF EngineData
<1>. QED  BY <1>1, <1>2, <1>4, FlagsHit

LEMMA StartRoundHit ==
    ASSUME HitInv, StartRound
    PROVE  HitInv'
<1>1. /\ UNCHANGED <<setting, fate, sjobs, vjobs, completed_jobs, reported>>
      /\ UNCHANGED <<processor, results, current>>
      /\ dpc = "top" /\ dpc' \in {"dispatch", "drain"}
      /\ processor_threads' \in {processor_threads, Silenced}
  BY DEF StartRound, input, manager, queues, main
<1>2. Inv'
  BY StartRoundInv DEF HitInv
<1>3. EnginesOK
  BY DEF HitInv, Inv, Types
<1>4. \A u \in Engines :
         /\ processor_threads'[u].kind = processor_threads[u].kind
         /\ processor_threads'[u].job = processor_threads[u].job
         /\ processor_threads'[u].state = processor_threads[u].state
  BY <1>1, <1>3, SilencedFacts
<1>. QED  BY <1>1, <1>2, <1>4, FlagsHit

LEMMA NextThreadHit ==
    ASSUME HitInv, NextThread
    PROVE  HitInv'
<1>1. EnginesOK /\ DispatcherOK
  BY DEF HitInv, Inv, Types
<1>2. ~MustReplace(Thread)
  <2>1. processor_threads[d] \in EngineData
    BY <1>1 DEF EnginesOK, DispatcherOK
  <2>. QED  BY <2>1 DEF EngineData, MustReplace, Thread
<1>3. /\ UNCHANGED <<setting, fate, sjobs, vjobs, completed_jobs, reported>>
      /\ UNCHANGED <<processor, processor_threads, results, current>>
      /\ dpc = "put" /\ dpc' \in {"drain", "ended", "dispatch", "top"}
  BY <1>2 DEF NextThread, input, manager, queues, main
<1>4. Inv'
  BY NextThreadInv DEF HitInv
<1>. QED  BY <1>3, <1>4, FlagsHit

-----------------------------------------------------------------------------
(* What the dispatcher's and main's steps leave as it is *)
LEMMA HandsKept ==
    ASSUME HandsOK, UNCHANGED <<setting, processor_threads>>,
           completed_jobs' \in Seq(Seq(Cands)), reported' \in Seq(Cands),
           vjobs' \in Seq(Singles), processor'["verify"].jobs \in Seq(Singles),
           dpc' \notin {"candidates", "verified", "failed"} => current' = <<>>
    PROVE  HandsOK'
<1>1. Singles' = Singles /\ Engines' = Engines
  BY SettingFrame DEF Singles, VerifyJobs
<1>. QED  BY <1>1 DEF HandsOK

LEMMA NotYetFailed ==
    ASSUME UNCHANGED processor_threads, dpc = "failed" => dpc' = "failed"
    PROVE  NothingFailed' => NothingFailed
  BY DEF NothingFailed

(* A step of the dispatcher or main is one move. *)
LEMMA MoveHit ==
    ASSUME HitInv, Inv', HandsOK', UNCHANGED <<fate, processor_threads>>,
           dpc = "failed" => dpc' = "failed", NEW p, NEW q, Moves(p, q)
    PROVE  HitInv'
<1>1. Apart(Held) /\ (NothingFailed => Kept(Held))
  BY DEF HitInv
<1>2. NothingFailed' => NothingFailed
  BY NotYetFailed
<1>. QED  BY <1>1, <1>2, Moved DEF HitInv

LEMMA DispatchHit ==
    ASSUME HitInv, Dispatch
    PROVE  HitInv'
<1>1. Inv /\ HandsOK /\ Apart(Held) /\ Inv'
  BY DispatchInv DEF HitInv
<1>2. /\ UNCHANGED <<setting, fate, completed_jobs, reported, results, current, processor_threads>>
      /\ dpc = "dispatch" /\ dpc' = "collect"
  BY DEF Dispatch, input, main
<1>3. ManagerOK /\ ProcessorsOK
  BY <1>1 DEF Inv, Types
<1>4. /\ completed_jobs \in Seq(Seq(Cands)) /\ reported \in Seq(Cands) /\ current = <<>>
      /\ vjobs \in Seq(Singles) /\ processor["verify"].jobs \in Seq(Singles)
  BY <1>1, <1>2 DEF HandsOK
<1>5. CASE UNCHANGED <<sjobs, vjobs, processor>>
  <2>1. HandsOK'
    BY <1>1, <1>2, <1>4, <1>5, HandsKept
  <2>2. Held' = Held
    BY <1>2, <1>5 DEF Held, CandsOf
  <2>3. NothingFailed' => NothingFailed
    BY <1>2, NotYetFailed
  <2>. QED  BY <1>1, <1>2, <2>1, <2>2, <2>3, NothingMoved DEF HitInv
<1>6. CASE /\ sjobs # <<>> /\ sjobs' = Front(sjobs) /\ vjobs' = vjobs
           /\ processor' = [processor EXCEPT !["search"] = JobAdded(@, Last(sjobs))]
  <2>. DEFINE jobs == processor["search"].jobs
              job == Last(sjobs)
  <2>1. sjobs \in Seq(SearchJobs) /\ job \in SearchJobs
    BY <1>3, <1>6, EndsOf DEF ManagerOK
  <2>2. processor["search"] \in [jobs : Seq(SearchJobs), done : Seq(SearchJobs)]
    BY <1>3 DEF ProcessorsOK, JobsFor, Kinds
  <2>3. /\ jobs \in Seq(SearchJobs)
        /\ JobAdded(processor["search"], job)
              = [jobs |-> Append(jobs, job), done |-> processor["search"].done]
    BY <2>2, ProcessorValues
  <2>4. /\ processor'["search"].jobs = Append(jobs, job)
        /\ processor'["search"].done = processor["search"].done
        /\ processor'["verify"] = processor["verify"]
    <3>1. "search" \in DOMAIN processor /\ "verify" \in DOMAIN processor
      BY <1>3 DEF ProcessorsOK, Kinds
    <3>. QED  BY <1>6, <2>3, <3>1
  <2>. HIDE DEF jobs, job
  <2>5. \A j \in SearchJobs : j.cands \in Seq(Cands)
    BY DEF SearchJobs
  <2>6. With(CandsOf(sjobs), CandsOf(Front(sjobs)), job.cands)
    BY <1>6, <2>1, <2>5, LastJob DEF job
  <2>7. With(CandsOf(Append(jobs, job)), CandsOf(jobs), job.cands)
    BY <2>1, <2>3, <2>5, JobAppended
  <2>8. /\ \A r \in Places : r \notin {"sjobs", "searching"} => Held'[r] = Held[r]
        /\ "sjobs" \in Places /\ "searching" \in Places
        /\ Held["sjobs"] = CandsOf(sjobs) /\ Held'["sjobs"] = CandsOf(Front(sjobs))
        /\ Held["searching"] = CandsOf(jobs)
        /\ Held'["searching"] = CandsOf(Append(jobs, job))
    BY <1>2, <1>6, <2>4, PlacesOf, PlacesAfter DEF Places, jobs
  <2>9. Moves("sjobs", "searching")
    BY <1>1, <2>6, <2>7, <2>8, Handed
  <2>10. HandsOK'
    BY <1>1, <1>2, <1>4, <1>6, <2>4, HandsKept
  <2>. QED  BY <1>1, <1>2, <2>9, <2>10, MoveHit
<1>7. CASE /\ vjobs # <<>> /\ vjobs' = Front(vjobs) /\ sjobs' = sjobs
           /\ processor' = [processor EXCEPT !["verify"] = JobAdded(@, Last(vjobs))]
  <2>. DEFINE jobs == processor["verify"].jobs
              job == Last(vjobs)
  <2>1. vjobs \in Seq(Singles) /\ job \in Singles /\ Front(vjobs) \in Seq(Singles)
    BY <1>4, <1>7, EndsOf
  <2>2. processor["verify"] \in [jobs : Seq(VerifyJobs), done : Seq(VerifyJobs)]
    BY <1>3 DEF ProcessorsOK, JobsFor, Kinds
  <2>3. /\ jobs \in Seq(Singles)
        /\ JobAdded(processor["verify"], job)
              = [jobs |-> Append(jobs, job), done |-> processor["verify"].done]
    BY <1>4, <2>2, ProcessorValues
  <2>4. /\ processor'["verify"].jobs = Append(jobs, job)
        /\ processor'["verify"].done = processor["verify"].done
        /\ processor'["search"] = processor["search"]
    <3>1. "search" \in DOMAIN processor /\ "verify" \in DOMAIN processor
      BY <1>3 DEF ProcessorsOK, Kinds
    <3>. QED  BY <1>7, <2>3, <3>1
  <2>. HIDE DEF jobs, job
  <2>5. \A j \in Singles : j.cands \in Seq(Cands)
    BY DEF Singles, VerifyJobs
  <2>6. With(CandsOf(vjobs), CandsOf(Front(vjobs)), job.cands)
    BY <1>7, <2>1, <2>5, LastJob DEF job
  <2>7. With(CandsOf(Append(jobs, job)), CandsOf(jobs), job.cands)
    BY <2>1, <2>3, <2>5, JobAppended
  <2>8. /\ \A r \in Places : r \notin {"vjobs", "verifying"} => Held'[r] = Held[r]
        /\ "vjobs" \in Places /\ "verifying" \in Places
        /\ Held["vjobs"] = CandsOf(vjobs) /\ Held'["vjobs"] = CandsOf(Front(vjobs))
        /\ Held["verifying"] = CandsOf(jobs)
        /\ Held'["verifying"] = CandsOf(Append(jobs, job))
    BY <1>2, <1>7, <2>4, PlacesOf, PlacesAfter DEF Places, jobs
  <2>9. Moves("vjobs", "verifying")
    BY <1>1, <2>6, <2>7, <2>8, Handed
  <2>10. HandsOK'
    <3>1. Append(jobs, job) \in Seq(Singles)
      BY <2>1, <2>3, LongerBy
    <3>. QED  BY <1>1, <1>2, <1>4, <1>7, <2>1, <2>4, <3>1, HandsKept
  <2>. QED  BY <1>1, <1>2, <2>9, <2>10, MoveHit
<1>. QED  BY <1>5, <1>6, <1>7 DEF Dispatch

LEMMA CollectHit ==
    ASSUME HitInv, Collect
    PROVE  HitInv'
<1>. DEFINE kind == Thread.kind
            p == processor[kind]
<1>1. Inv /\ HandsOK /\ Apart(Held) /\ Inv'
  BY CollectInv DEF HitInv
<1>2. /\ UNCHANGED <<setting, fate, sjobs, vjobs, completed_jobs, reported, current,
                     processor_threads>>
      /\ dpc \in {"collect", "drain"} /\ dpc' = "put"
      /\ results' = p.done /\ processor' = [processor EXCEPT ![kind] = ResultsTaken(@)]
  BY DEF Collect, input, manager, queues, main
<1>3. EnginesOK /\ ManagerOK /\ ProcessorsOK /\ ProcessorsOK' /\ DispatcherOK
  BY <1>1 DEF Inv, Types
<1>4. results = <<>> /\ kind \in Kinds
  BY <1>2, <1>3 DEF EnginesOK, DispatcherOK, EngineData, Thread
<1>5. /\ completed_jobs \in Seq(Seq(Cands)) /\ reported \in Seq(Cands) /\ current = <<>>
      /\ vjobs \in Seq(Singles) /\ processor["verify"].jobs \in Seq(Singles)
  BY <1>1, <1>2 DEF HandsOK
<1>6. /\ processor'[kind].jobs = p.jobs /\ processor'[kind].done = <<>>
      /\ \A k \in Kinds : k # kind => processor'[k] = processor[k]
  <2>1. p \in [jobs : Seq(JobsFor(kind)), done : Seq(JobsFor(kind))] /\ kind \in DOMAIN processor
    BY <1>3, <1>4 DEF ProcessorsOK
  <2>2. ResultsTaken(p) = [jobs |-> p.jobs, done |-> <<>>]
    BY <2>1, ProcessorValues
  <2>3. processor'[kind] = ResultsTaken(p)
    BY <1>2, <2>1
  <2>. QED  BY <1>2, <2>2, <2>3
<1>. HIDE DEF kind, p
<1>7. /\ \A r \in Places : r \notin {Finished(kind), "results"} => Held'[r] = Held[r]
      /\ Finished(kind) \in Places /\ "results" \in Places /\ Finished(kind) # "results"
      /\ Held[Finished(kind)] = CandsOf(p.done) /\ Held'[Finished(kind)] = <<>>
      /\ Held["results"] = <<>> /\ Held'["results"] = CandsOf(p.done)
  BY <1>2, <1>4, <1>6, PlacesOf, PlacesAfter, CandsOfOne DEF Places, Finished, Kinds, p
<1>8. Moves(Finished(kind), "results")
  BY <1>1, <1>7, NoCandidates DEF Moves, Apart
<1>9. HandsOK'
  <2>1. processor'["verify"].jobs = processor["verify"].jobs
    BY <1>6 DEF Kinds, p
  <2>. QED  BY <1>1, <1>2, <1>5, <2>1, HandsKept
<1>. QED  BY <1>1, <1>2, <1>8, <1>9, MoveHit

LEMMA StartPutHit ==
    ASSUME HitInv, StartPut
    PROVE  HitInv'
<1>. DEFINE job == Head(results)
<1>1. Inv /\ HandsOK /\ Apart(Held) /\ Inv'
  BY StartPutInv DEF HitInv
<1>2. /\ UNCHANGED <<setting, fate, sjobs, vjobs, completed_jobs, reported, processor,
                     processor_threads>>
      /\ dpc = "put" /\ dpc' \in {"candidates", "verified"}
      /\ results # <<>> /\ current' = <<job>> /\ results' = Tail(results)
  BY DEF StartPut, input, queues, engines, main
<1>3. results \in Seq(JobsFor(Thread.kind))
  BY <1>1 DEF Inv, Types, DispatcherOK
<1>4. /\ completed_jobs \in Seq(Seq(Cands)) /\ reported \in Seq(Cands) /\ current = <<>>
      /\ vjobs \in Seq(Singles) /\ processor["verify"].jobs \in Seq(Singles)
  BY <1>1, <1>2 DEF HandsOK
<1>5. With(CandsOf(results), CandsOf(Tail(results)), job.cands)
  BY <1>2, <1>3, CandsTyped, FirstJob
<1>. HIDE DEF job
<1>6. /\ \A r \in Places : r \notin {"results", "current"} => Held'[r] = Held[r]
      /\ "results" \in Places /\ "current" \in Places
      /\ Held["results"] = CandsOf(results) /\ Held'["results"] = CandsOf(Tail(results))
      /\ Held["current"] = <<>> /\ Held'["current"] = <<job.cands>>
  BY <1>2, <1>4, PlacesOf, PlacesAfter, CandsOfOne DEF Places
<1>7. Moves("results", "current")
  BY <1>1, <1>5, <1>6, WithNothing, Handed
<1>8. HandsOK'
  BY <1>1, <1>2, <1>4, HandsKept
<1>. QED  BY <1>1, <1>2, <1>7, <1>8, MoveHit

(* What is left of a job after a step *)
LEMMA JobLeft ==
    ASSUME NEW job \in SearchJobs \cup VerifyJobs, current = <<job>>, NEW x,
           current' = [current EXCEPT ![1].cands = x]
    PROVE  CandsOf(current) = <<job.cands>> /\ CandsOf(current') = <<x>>
<1>1. [job EXCEPT !.cands = x].cands = x
  BY DEF SearchJobs, VerifyJobs
<1>2. current' = <<[job EXCEPT !.cands = x]>>
  OBVIOUS
<1>. QED  BY <1>1, <1>2, CandsOfOne

LEMMA PutCandidateHit ==
    ASSUME HitInv, PutCandidate
    PROVE  HitInv'
<1>1. Inv /\ HandsOK /\ Apart(Held) /\ Inv'
  BY PutCandidateInv DEF HitInv
<1>2. /\ UNCHANGED <<setting, fate, sjobs, reported, results, processor, processor_threads>>
      /\ dpc = "candidates" /\ dpc' \in {"candidates", "failed"}
      /\ current[1].cands # <<>>
      /\ current' = [current EXCEPT ![1].cands = Tail(@)]
  BY DEF PutCandidate, input, engines, main
<1>3. /\ completed_jobs \in Seq(Seq(Cands)) /\ reported \in Seq(Cands)
      /\ vjobs \in Seq(Singles) /\ processor["verify"].jobs \in Seq(Singles)
  BY <1>1 DEF HandsOK
<1>4. PICK job \in SearchJobs \cup VerifyJobs : current = <<job>>
  BY <1>1, <1>2 DEF Inv, Types, DispatcherOK
<1>5. PICK x \in Seq(Cands) : x = job.cands /\ x # <<>> /\ x = current[1].cands
  BY <1>2, <1>4 DEF SearchJobs, VerifyJobs
<1>6. PICK rest \in Seq(Cands) : rest = Tail(x)
  BY <1>5, EndsOf
<1>7. PICK c \in Cands : c = Head(x)
  BY <1>5, EndsOf
<1>8. CandsOf(current) = <<x>> /\ CandsOf(current') = <<rest>>
  <2>1. current' = [current EXCEPT ![1].cands = rest]
    BY <1>2, <1>4, <1>5, <1>6
  <2>. QED  BY <1>4, <1>5, <2>1, JobLeft
<1>9. With(<<x>>, <<rest>>, <<c>>)
  BY <1>5, <1>6, <1>7, FirstCandidate
<1>10. \/ UNCHANGED <<vjobs, completed_jobs>> /\ fate[c] # "hit"
       \/ vjobs' = Append(vjobs, VerifyJob(c)) /\ UNCHANGED completed_jobs
       \/ completed_jobs' = Append(completed_jobs, <<c>>) /\ UNCHANGED vjobs
  <2>1. Head(current[1].cands) = c
    BY <1>5, <1>7
  <2>. QED  BY <2>1 DEF PutCandidate
<1>11. VerifyJob(c) \in Singles /\ VerifyJob(c).cands = <<c>> /\ <<c>> \in Seq(Cands)
  BY DEF VerifyJob, Singles, VerifyJobs
<1>12. HandsOK'
  <2>1. vjobs' \in Seq(Singles)
    BY <1>3, <1>10, <1>11, LongerBy
  <2>2. completed_jobs' \in Seq(Seq(Cands))
    BY <1>3, <1>10, <1>11, LongerBy
  <2>. QED  BY <1>1, <1>2, <1>3, <2>1, <2>2, HandsKept
<1>13. /\ \A r \in Places \ {"current", "vjobs", "completed_jobs"} : Held'[r] = Held[r]
       /\ Held["current"] = <<x>> /\ Held'["current"] = <<rest>>
       /\ Held["vjobs"] = CandsOf(vjobs) /\ Held'["vjobs"] = CandsOf(vjobs')
       /\ Held["completed_jobs"] = completed_jobs /\ Held'["completed_jobs"] = completed_jobs'
       /\ {"current", "vjobs", "completed_jobs"} \subseteq Places
  BY <1>2, <1>8, PlacesOf, PlacesAfter DEF Places
<1>14. CASE UNCHANGED <<vjobs, completed_jobs>> /\ fate[c] # "hit"
  <2>1. \A r \in Places : r # "current" => Held'[r] = Held[r]
    BY <1>13, <1>14
  <2>2. \A e \in In(<< <<c>> >>) : fate[e] # "hit"
    BY <1>14, OneCandidate
  <2>3. Moves("current", "sjobs")
    <3>1. "sjobs" \in Places /\ "current" \in Places /\ "sjobs" # "current"
      BY DEF Places
    <3>2. With(Held'["sjobs"], Held["sjobs"], <<>>)
      BY <2>1, <3>1, WithNothing
    <3>3. With(Held["current"], Held'["current"], <<c>>)
      BY <1>9, <1>13
    <3>. QED  BY <1>1, <2>1, <2>2, <3>1, <3>2, <3>3, Dropped
  <2>. QED  BY <1>1, <1>2, <1>12, <2>3, MoveHit
<1>15. CASE vjobs' = Append(vjobs, VerifyJob(c)) /\ UNCHANGED completed_jobs
  <2>1. \A r \in Places : r \notin {"current", "vjobs"} => Held'[r] = Held[r]
    BY <1>13, <1>15
  <2>2. \A j \in Singles : j.cands \in Seq(Cands)
    BY DEF Singles, VerifyJobs
  <2>3. With(CandsOf(vjobs'), CandsOf(vjobs), <<c>>)
    BY <1>3, <1>11, <1>15, <2>2, JobAppended
  <2>4. Moves("current", "vjobs")
    BY <1>1, <1>9, <1>13, <2>1, <2>3, Handed
  <2>. QED  BY <1>1, <1>2, <1>12, <2>4, MoveHit
<1>16. CASE completed_jobs' = Append(completed_jobs, <<c>>) /\ UNCHANGED vjobs
  <2>1. \A r \in Places : r \notin {"current", "completed_jobs"} => Held'[r] = Held[r]
    BY <1>13, <1>16
  <2>2. With(completed_jobs', completed_jobs, <<c>>)
    BY <1>3, <1>11, <1>16, AtTheEnd
  <2>3. Moves("current", "completed_jobs")
    BY <1>1, <1>9, <1>13, <2>1, <2>2, Handed
  <2>. QED  BY <1>1, <1>2, <1>12, <2>3, MoveHit
<1>. QED  BY <1>10, <1>14, <1>15, <1>16

LEMMA PutVerifiedHit ==
    ASSUME HitInv, PutVerified
    PROVE  HitInv'
<1>1. Inv /\ HandsOK /\ Apart(Held) /\ Inv'
  BY PutVerifiedInv DEF HitInv
<1>2. /\ UNCHANGED <<setting, fate, sjobs, vjobs, reported, results, processor,
                     processor_threads>>
      /\ dpc = "verified" /\ dpc' = "candidates"
      /\ completed_jobs' = Append(completed_jobs, current[1].cands)
      /\ current' = [current EXCEPT ![1].cands = <<>>]
  BY DEF PutVerified, input, engines, main
<1>3. /\ completed_jobs \in Seq(Seq(Cands)) /\ reported \in Seq(Cands)
      /\ vjobs \in Seq(Singles) /\ processor["verify"].jobs \in Seq(Singles)
  BY <1>1 DEF HandsOK
<1>4. PICK job \in SearchJobs \cup VerifyJobs : current = <<job>>
  BY <1>1, <1>2 DEF Inv, Types, DispatcherOK
<1>5. PICK x \in Seq(Cands) : x = job.cands /\ x = current[1].cands
  BY <1>4 DEF SearchJobs, VerifyJobs
<1>6. CandsOf(current) = <<x>> /\ CandsOf(current') = << <<>> >>
  BY <1>2, <1>4, <1>5, JobLeft
<1>7. With(completed_jobs', completed_jobs, x)
  BY <1>2, <1>3, <1>5, AtTheEnd
<1>8. /\ \A r \in Places : r \notin {"current", "completed_jobs"} => Held'[r] = Held[r]
      /\ Held["current"] = <<x>> /\ Held'["current"] = << <<>> >>
      /\ Held["completed_jobs"] = completed_jobs /\ Held'["completed_jobs"] = completed_jobs'
      /\ "current" \in Places /\ "completed_jobs" \in Places
  BY <1>2, <1>6, PlacesOf, PlacesAfter DEF Places
<1>9. Moves("current", "completed_jobs")
  BY <1>1, <1>7, <1>8, WithNothing, Handed
<1>10. HandsOK'
  <2>1. completed_jobs' \in Seq(Seq(Cands))
    BY <1>2, <1>3, <1>5, LongerBy
  <2>. QED  BY <1>1, <1>2, <1>3, <2>1, HandsKept
<1>. QED  BY <1>1, <1>2, <1>9, <1>10, MoveHit

LEMMA EndPutHit ==
    ASSUME HitInv, EndPut
    PROVE  HitInv'
<1>1. Inv /\ HandsOK /\ Apart(Held) /\ Inv'
  BY EndPutInv DEF HitInv
<1>2. /\ UNCHANGED <<setting, fate, sjobs, vjobs, completed_jobs, reported, results, processor,
                     processor_threads>>
      /\ dpc = "candidates" /\ dpc' = "put" /\ current[1].cands = <<>> /\ current' = <<>>
  BY DEF EndPut, input, queues, engines, main
<1>3. /\ completed_jobs \in Seq(Seq(Cands)) /\ reported \in Seq(Cands)
      /\ vjobs \in Seq(Singles) /\ processor["verify"].jobs \in Seq(Singles)
  BY <1>1 DEF HandsOK
<1>4. PICK job \in SearchJobs \cup VerifyJobs : current = <<job>>
  BY <1>1, <1>2 DEF Inv, Types, DispatcherOK
<1>5. CandsOf(current) = << <<>> >> /\ CandsOf(current') = <<>>
  BY <1>2, <1>4, CandsOfOne
<1>6. /\ \A r \in Places : r # "current" => Held'[r] = Held[r]
      /\ Held["current"] = << <<>> >> /\ Held'["current"] = <<>>
      /\ "current" \in Places /\ "sjobs" \in Places
  BY <1>2, <1>5, PlacesOf, PlacesAfter DEF Places
<1>7. Moves("current", "sjobs")
  <2>1. \A c \in In(<< <<>> >>) : fate[c] # "hit"
    BY NoCandidates
  <2>. QED  BY <1>1, <1>6, <2>1, WithNothing, Dropped
<1>8. HandsOK'
  BY <1>1, <1>2, <1>3, HandsKept
<1>. QED  BY <1>1, <1>2, <1>7, <1>8, MoveHit

-----------------------------------------------------------------------------
LEMMA ReportHit ==
    ASSUME HitInv, Report
    PROVE  HitInv'
<1>1. Inv /\ HandsOK /\ Apart(Held) /\ Inv'
  BY MainInv DEF HitInv, MainStep
<1>2. UNCHANGED <<setting, fate, sjobs, vjobs, results, current, dpc, processor,
                  processor_threads>>
  BY DEF Report, input, engines, dispatcher
<1>3. /\ completed_jobs \in Seq(Seq(Cands)) /\ reported \in Seq(Cands)
      /\ vjobs \in Seq(Singles) /\ processor["verify"].jobs \in Seq(Singles)
      /\ dpc \notin {"candidates", "verified", "failed"} => current = <<>>
  BY <1>1 DEF HandsOK
<1>4. CASE UNCHANGED <<completed_jobs, reported>>
  BY <1>1, <1>2, <1>4, FlagsHit
<1>5. CASE /\ completed_jobs # <<>> /\ completed_jobs' = Front(completed_jobs)
           /\ reported' = reported \o Last(completed_jobs)
  <2>1. PICK x \in Seq(Cands) : x = Last(completed_jobs)
    BY <1>3, <1>5, EndsOf
  <2>2. With(completed_jobs, completed_jobs', x)
    BY <1>3, <1>5, <2>1, AtTheBack
  <2>3. With(<<reported'>>, <<reported>>, x)
    BY <1>3, <1>5, <2>1, Joined
  <2>4. /\ \A r \in Places : r \notin {"completed_jobs", "reported"} => Held'[r] = Held[r]
        /\ Held["reported"] = <<reported>> /\ Held'["reported"] = <<reported'>>
        /\ Held["completed_jobs"] = completed_jobs /\ Held'["completed_jobs"] = completed_jobs'
        /\ "reported" \in Places /\ "completed_jobs" \in Places
    BY <1>2, PlacesOf, PlacesAfter DEF Places
  <2>5. Moves("completed_jobs", "reported")
    BY <1>1, <2>2, <2>3, <2>4, Handed
  <2>6. HandsOK'
    <3>1. completed_jobs' \in Seq(Seq(Cands))
      BY <1>3, <1>5, EndsOf
    <3>2. reported' \in Seq(Cands)
      BY <1>3, <1>5, <2>1, ConcatProperties
    <3>. QED  BY <1>1, <1>2, <1>3, <3>1, <3>2, HandsKept
  <2>. QED  BY <1>1, <1>2, <2>5, <2>6, MoveHit
<1>. QED  BY <1>4, <1>5 DEF Report

LEMMA MainHit ==
    ASSUME HitInv, MainStep \/ Interrupt
    PROVE  HitInv'
<1>1. Inv' /\ EnginesOK
  BY MainInv DEF HitInv, Inv, Types
<1>2. CASE Report
  BY <1>2, ReportHit
<1>3. CASE CheckWorking \/ CheckCompleted \/ CheckCounts \/ Checks \/ Interrupt
  <2>1. /\ UNCHANGED <<setting, fate, sjobs, vjobs, completed_jobs, reported>>
        /\ UNCHANGED <<processor, results, current, dpc>>
    BY <1>3 DEF CheckWorking, CheckCompleted, CheckCounts, Checks, Interrupt,
                input, manager, queues, engines, dispatcher
  <2>2. \/ processor_threads' \in {processor_threads, Silenced}
        \/ \E changes : SetPaused(changes)
    BY <1>3 DEF CheckWorking, CheckCompleted, CheckCounts, Checks, Interrupt,
                Throttle, SearchAgain, engines
  <2>3. \A t \in Engines :
           /\ processor_threads'[t].kind = processor_threads[t].kind
           /\ processor_threads'[t].job = processor_threads[t].job
           /\ processor_threads'[t].state = processor_threads[t].state
    <3>1. CASE processor_threads' = processor_threads
      BY <3>1
    <3>2. CASE processor_threads' = Silenced
      BY <1>1, <3>2, SilencedFacts
    <3>3. CASE \E changes : SetPaused(changes)
      BY <1>1, <3>3, SetPausedFacts
    <3>. QED  BY <2>2, <3>1, <3>2, <3>3
  <2>. QED  BY <1>1, <2>1, <2>3, FlagsHit
<1>. QED  BY <1>2, <1>3 DEF MainStep

LEMMA NextHit ==
    ASSUME HitInv, [Next]_vars
    PROVE  HitInv'
<1>1. ASSUME NEW t \in Engines, EngineStep(t) \/ EngineFails(t)
      PROVE  HitInv'
  BY <1>1, StartJobHit, FinishJobHit, EngineStopsHit, EngineFailsHit DEF EngineStep
<1>2. CASE DispatcherStep
  BY <1>2, StartRoundHit, DispatchHit, CollectHit, StartPutHit, PutCandidateHit,
     PutVerifiedHit, EndPutHit, NextThreadHit DEF DispatcherStep
<1>3. CASE MainStep \/ Interrupt
  BY <1>3, MainHit
<1>4. CASE Done \/ UNCHANGED vars
  <2>1. UNCHANGED vars
    BY <1>4 DEF Done
  <2>2. Inv'
    BY <2>1, StutterInv DEF HitInv
  <2>3. /\ UNCHANGED <<setting, fate, sjobs, vjobs, completed_jobs, reported>>
        /\ UNCHANGED <<processor, processor_threads, results, current, dpc>>
    BY <2>1 DEF vars, input, manager, queues, engines, dispatcher, main
  <2>. QED  BY <2>2, <2>3, FlagsHit
<1>. QED  BY <1>1, <1>2, <1>3, <1>4 DEF Next

-----------------------------------------------------------------------------
(* A spot is one candidate of one list of one place. *)
LEMMA SpotFacts ==
    /\ \A s \in Spots(Held) :
          /\ s = <<s[1], s[2], s[3]>> /\ s[1] \in Places
          /\ s[2] \in DOMAIN Held[s[1]] /\ s[3] \in DOMAIN Held[s[1]][s[2]]
    /\ \A p \in Places : \A n \in DOMAIN Held[p] : \A k \in DOMAIN Held[p][n] :
          <<p, n, k>> \in Spots(Held)
<1>1. DOMAIN Held = Places
  BY DEF Held, Places
<1>2. PICK held : held = Held
  OBVIOUS
<1>3. ASSUME NEW s \in Spots(held)
      PROVE  /\ s = <<s[1], s[2], s[3]>> /\ s[1] \in Places
             /\ s[2] \in DOMAIN held[s[1]] /\ s[3] \in DOMAIN held[s[1]][s[2]]
  <2>1. PICK p \in Places :
            \E n \in DOMAIN held[p] : \E k \in DOMAIN held[p][n] : s = <<p, n, k>>
    BY <1>1, <1>2 DEF Spots
  <2>2. PICK n \in DOMAIN held[p] : \E k \in DOMAIN held[p][n] : s = <<p, n, k>>
    BY <2>1
  <2>3. PICK k \in DOMAIN held[p][n] : s = <<p, n, k>>
    BY <2>2
  <2>4. s[1] = p /\ s[2] = n /\ s[3] = k
    BY <2>3
  <2>. QED  BY <2>3, <2>4
<1>4. ASSUME NEW p \in Places, NEW n \in DOMAIN held[p], NEW k \in DOMAIN held[p][n]
      PROVE  <<p, n, k>> \in Spots(held)
  BY <1>1, <1>2 DEF Spots
<1>. QED  BY <1>2, <1>3, <1>4

(* No candidate is ever in two places of a search, and unless a thread has  *)
(* failed, none that is to be reported has gone: for any number of indexes, *)
(* processes and candidates, with or without verification, limit and        *)
(* throttle, and whenever the user interrupts.                              *)
THEOREM EachHitStaysInOnePlace == Spec => []EachHitIsInOnePlace
<1>1. HitInv => EachHitIsInOnePlace
  <2>. SUFFICES ASSUME HitInv PROVE EachHitIsInOnePlace
    OBVIOUS
  <2>1. Apart(Held) /\ (NothingFailed => Kept(Held))
    BY DEF HitInv
  <2>2. PICK held : held = Held
    OBVIOUS
  <2>3. ASSUME NEW s \in Spots(held), NEW t \in Spots(held),
               held[s[1]][s[2]][s[3]] = held[t[1]][t[2]][t[3]]
        PROVE  s = t
    <3>1. /\ s = <<s[1], s[2], s[3]>> /\ s[1] \in Places
          /\ s[2] \in DOMAIN held[s[1]] /\ s[3] \in DOMAIN held[s[1]][s[2]]
          /\ t = <<t[1], t[2], t[3]>> /\ t[1] \in Places
          /\ t[2] \in DOMAIN held[t[1]] /\ t[3] \in DOMAIN held[t[1]][t[2]]
      BY <2>2, SpotFacts
    <3>2. s[1] = t[1]
      <4>1. /\ held[s[1]][s[2]][s[3]] \in In(held[s[1]])
            /\ held[t[1]][t[2]][t[3]] \in In(held[t[1]])
        BY <3>1, InFacts
      <4>. QED  BY <2>1, <2>2, <2>3, <3>1, <4>1 DEF Apart
    <3>3. Once(held[s[1]])
      BY <2>1, <2>2, <3>1 DEF Apart
    <3>4. s[2] = t[2] /\ s[3] = t[3]
      BY <2>3, <3>1, <3>2, <3>3 DEF Once
    <3>. QED  BY <3>1, <3>2, <3>4
  <2>4. ASSUME NothingFailed, NEW c \in DOMAIN fate, fate[c] = "hit"
        PROVE  \E s \in Spots(held) : held[s[1]][s[2]][s[3]] = c
    <3>1. PICK p \in Places : c \in In(held[p])
      BY <2>1, <2>2, <2>4 DEF Kept
    <3>2. PICK n \in DOMAIN held[p] : \E k \in DOMAIN held[p][n] : held[p][n][k] = c
      BY <3>1, InFacts
    <3>3. PICK k \in DOMAIN held[p][n] : held[p][n][k] = c
      BY <3>2
    <3>4. <<p, n, k>> \in Spots(held)
      BY <2>2, SpotFacts
    <3>. QED  BY <3>3, <3>4
  <2>. QED  BY <2>2, <2>3, <2>4 DEF EachHitIsInOnePlace
<1>. QED  BY <1>1, InitHit, NextHit, PTL DEF Spec

-----------------------------------------------------------------------------
(***************************************************************************)
(* Every step of a search is one that SearchResults allows, or none of it. *)
(* What the threads pass on to each other is, at each place, what may be   *)
(* there; and no more candidates are counted than have left the searches,  *)
(* so that a limit that is noticed is one that is exceeded.                *)
(***************************************************************************)

Elems(q) == {q[n] : n \in DOMAIN q}

Passing == Results!Passing
Reportable == Results!Reportable

(* The jobs by what may be in them: found; to be verified; verified *)
Searches == {job \in SearchJobs : Elems(job.cands) \subseteq DOMAIN fate}
Queued   == {job \in VerifyJobs : \E c \in Passing : job.cands = <<c>>}
Judged   == {job \in VerifyJobs : \/ job.cands = <<>>
                                  \/ \E c \in Passing : fate[c] = "hit" /\ job.cands = <<c>>}
Answers  == {<<>>} \cup {<<c>> : c \in Reportable}

JobsOf(kind) == IF kind = "verify" THEN Queued ELSE Searches
DoneBy(kind) == IF kind = "verify" THEN Judged ELSE Searches

FlowOK ==
    /\ sjobs \in Seq(Searches) /\ vjobs \in Seq(Queued) /\ completed_jobs \in Seq(Answers)
    /\ \A kind \in Kinds : /\ processor[kind].jobs \in Seq(JobsOf(kind))
                           /\ processor[kind].done \in Seq(DoneBy(kind))
    /\ \A t \in Engines : processor_threads[t].state = "busy" =>
          \E job \in JobsOf(processor_threads[t].kind) : processor_threads[t].job = <<job>>
    /\ results \in Seq(DoneBy(Thread.kind))
    /\ dpc = "candidates" => \/ \E job \in Searches : current = <<job>>
                             \/ \E job \in VerifyJobs : job.cands = <<>> /\ current = <<job>>
    /\ dpc = "verified" => \E job \in Judged : current = <<job>>

(* The searches whose candidates, or some of them, have not been put yet *)
Ahead ==
    Elems(sjobs) \cup Elems(processor["search"].jobs) \cup Elems(processor["search"].done)
        \cup {processor_threads[t].job[1] : t \in
                 {u \in Engines : processor_threads[u].kind = "search"
                                     /\ processor_threads[u].state = "busy"}}
        \cup (IF Thread.kind = "search" THEN Elems(results) ELSE {})
        \cup (IF dpc = "candidates" THEN Elems(current) ELSE {})

NotPut == UNION {Elems(job.cands) : job \in Ahead}

CountOK ==
    /\ candidate_count <= Cardinality(Passing \ NotPut)
    /\ candidate_limit_reached => Results!Exceeded

FateOK ==
    /\ IsFiniteSet(DOMAIN fate)
    /\ \A c \in DOMAIN fate : fate[c] \in {"hit", "miss", "filtered", "malformed"}

(* Why the dispatcher may have stopped *)
EndsOK ==
    /\ dpc = "failed" => \E c \in DOMAIN fate : fate[c] = "malformed"
    /\ dpc \in {"drain", "ended"} => ~live
    /\ \A t \in Engines : ~processor_threads[t].live => ~live

FlowInv == HitInv /\ FlowOK /\ CountOK /\ FateOK /\ EndsOK
-----------------------------------------------------------------------------
LEMMA ElemsOf ==
    ASSUME NEW S, NEW q \in Seq(S)
    PROVE  /\ Elems(q) \subseteq S
           /\ \A x \in S : Elems(Append(q, x)) = Elems(q) \cup {x}
           /\ q # <<>> => /\ Head(q) \in Elems(q) /\ Elems(Tail(q)) \subseteq Elems(q)
                          /\ Last(q) \in Elems(q) /\ Elems(Front(q)) \subseteq Elems(q)
<1>1. PICK l \in Nat : l = Len(q) /\ DOMAIN q = 1 .. l /\ \A n \in 1 .. l : q[n] \in S
  BY LenProperties
<1>2. Elems(q) \subseteq S
  BY <1>1 DEF Elems
<1>3. ASSUME NEW x \in S PROVE Elems(Append(q, x)) = Elems(q) \cup {x}
  <2>1. PICK r : r = Append(q, x)
    OBVIOUS
  <2>2. DOMAIN r = 1 .. l + 1 /\ r[l + 1] = x /\ \A n \in 1 .. l : r[n] = q[n]
    BY <1>1, <2>1, AppendProperties, LenProperties
  <2>3. \A n \in 1 .. l + 1 : n = l + 1 \/ n \in 1 .. l
    BY <1>1
  <2>4. l + 1 \in 1 .. l + 1 /\ \A n \in 1 .. l : n \in 1 .. l + 1
    BY <1>1
  <2>5. Elems(r) = Elems(q) \cup {x}
    BY <1>1, <2>2, <2>3, <2>4 DEF Elems
  <2>. QED  BY <2>1, <2>5
<1>4. ASSUME q # <<>>
      PROVE  /\ Head(q) \in Elems(q) /\ Elems(Tail(q)) \subseteq Elems(q)
             /\ Last(q) \in Elems(q) /\ Elems(Front(q)) \subseteq Elems(q)
  <2>1. l >= 1 /\ 1 \in DOMAIN q /\ l \in DOMAIN q
    BY <1>1, <1>4, EmptySeq
  <2>2. Head(q) = q[1] /\ Last(q) = q[l]
    BY <1>1, <1>4 DEF Last
  <2>3. Elems(Tail(q)) \subseteq Elems(q)
    <3>1. PICK r : r = Tail(q)
      OBVIOUS
    <3>2. DOMAIN r = 1 .. l - 1 /\ \A n \in 1 .. l - 1 : r[n] = q[n + 1]
      BY <1>1, <1>4, <3>1, TailIs
    <3>3. \A n \in 1 .. l - 1 : n + 1 \in 1 .. l
      BY <1>1
    <3>. QED  BY <1>1, <3>1, <3>2, <3>3 DEF Elems
  <2>4. Elems(Front(q)) \subseteq Elems(q)
    <3>1. PICK r : r = Front(q)
      OBVIOUS
    <3>2. DOMAIN r = 1 .. l - 1 /\ \A n \in 1 .. l - 1 : r[n] = q[n]
      BY <1>1, <3>1 DEF Front
    <3>3. \A n \in 1 .. l - 1 : n \in 1 .. l
      BY <1>1
    <3>. QED  BY <1>1, <3>1, <3>2, <3>3 DEF Elems
  <2>. QED  BY <2>1, <2>2, <2>3, <2>4 DEF Elems
<1>. QED  BY <1>2, <1>3, <1>4

LEMMA ElemsOfFew ==
    /\ Elems(<<>>) = {}
    /\ \A x : Elems(<<x>>) = {x}
<1>1. Elems(<<>>) = {}
  BY DEF Elems
<1>2. ASSUME NEW x PROVE Elems(<<x>>) = {x}
  BY DEF Elems
<1>. QED  BY <1>1, <1>2

(* What depends on the setting and the fates only *)
LEMMA FateFrame ==
    ASSUME setting' = setting, fate' = fate
    PROVE  /\ Passing' = Passing /\ Reportable' = Reportable
           /\ Results!Exceeded' = Results!Exceeded
           /\ Searches' = Searches /\ Queued' = Queued /\ Judged' = Judged /\ Answers' = Answers
           /\ \A kind : JobsOf(kind)' = JobsOf(kind) /\ DoneBy(kind)' = DoneBy(kind)
           /\ FateOK' <=> FateOK
<1>1. /\ Passing' = Passing /\ Reportable' = Reportable
      /\ Results!Exceeded' = Results!Exceeded /\ Engines' = Engines
  BY SettingFrame
  DEF Passing, Reportable, Results!Passing, Results!Reportable, Results!Exceeded
<1>2. /\ Searches' = Searches /\ Queued' = Queued /\ Judged' = Judged /\ Answers' = Answers
  BY <1>1, SettingFrame DEF Searches, Queued, Judged, Answers, VerifyJobs
<1>. QED  BY <1>1, <1>2 DEF JobsOf, DoneBy, FateOK

LEMMA PassingFacts ==
    ASSUME FateOK
    PROVE  /\ IsFiniteSet(Passing) /\ IsFiniteSet(Passing \ NotPut)
           /\ Cardinality(Passing) \in Nat /\ Cardinality(Passing \ NotPut) \in Nat
           /\ Cardinality(Passing \ NotPut) <= Cardinality(Passing)
<1>1. Passing \in SUBSET DOMAIN fate /\ Passing \ NotPut \in SUBSET Passing
  BY DEF Passing, Results!Passing
<1>2. IsFiniteSet(Passing)
  BY <1>1, FS_Subset DEF FateOK
<1>. QED  BY <1>1, <1>2, FS_Subset, FS_CardinalityType

LEMMA InitFlow == Init => FlowInv
<1>. SUFFICES ASSUME Init PROVE FlowInv
  OBVIOUS
<1>1. HitInv
  BY InitHit
<1>2. /\ sjobs = [i \in 1 .. NumIndexes |-> SearchJob(i)]
      /\ vjobs = <<>> /\ completed_jobs = <<>> /\ results = <<>>
      /\ fate \in [{c \in Candidates : c[2] <= found[c[1]]} -> setting.fates]
      /\ found \in [1 .. NumIndexes -> 0 .. setting.candidates] /\ setting \in Settings
      /\ candidate_count = 0 /\ candidate_limit_reached = FALSE /\ dpc = "top" /\ live
  BY DEF Init
<1>3. \A kind \in Kinds : processor[kind].jobs = <<>> /\ processor[kind].done = <<>>
  BY DEF Init, NewProcessor
<1>4. \A t \in Engines : processor_threads[t].state = "loop" /\ processor_threads[t].live
  BY DEF Init, FirstEngines, NewEngine
<1>5. setting.candidates \in Nat
      /\ setting.fates \subseteq {"hit", "miss", "filtered", "malformed"}
  BY <1>2, SettingsAssumption
<1>6. FateOK
  <2>1. Candidates \subseteq (1 .. NumIndexes) \X (1 .. setting.candidates)
    BY DEF Candidates
  <2>2. IsFiniteSet((1 .. NumIndexes) \X (1 .. setting.candidates))
    <3>1. IsFiniteSet(1 .. NumIndexes) /\ IsFiniteSet(1 .. setting.candidates)
      BY <1>5, CountsAssumption, FS_Interval
    <3>. QED  BY <3>1, FS_Product
  <2>3. DOMAIN fate \in SUBSET ((1 .. NumIndexes) \X (1 .. setting.candidates))
    BY <1>2, <2>1
  <2>. QED  BY <1>2, <1>5, <2>2, <2>3, FS_Subset DEF FateOK
<1>7. sjobs \in Seq(Searches)
  <2>1. ASSUME NEW i \in 1 .. NumIndexes PROVE SearchJob(i) \in Searches
    <3>1. SearchJob(i) \in SearchJobs
      <4>1. found[i] \in Nat /\ found[i] <= setting.candidates
        BY <1>2, <1>5
      <4>2. CandidatesOf(i) \in Seq(Cands) /\ Len(CandidatesOf(i)) = found[i]
        BY <4>1 DEF CandidatesOf, Cands
      <4>. QED  BY <4>1, <4>2 DEF SearchJob, SearchJobs
    <3>2. found[i] \in Nat /\ found[i] <= setting.candidates
      BY <1>2, <1>5
    <3>3. SearchJob(i).cands = [k \in 1 .. found[i] |-> <<i, k>>]
      BY DEF SearchJob, CandidatesOf
    <3>4. ASSUME NEW c \in Elems(SearchJob(i).cands) PROVE c \in DOMAIN fate
      <4>1. PICK k \in 1 .. found[i] : c = <<i, k>>
        BY <3>3 DEF Elems
      <4>2. k \in 1 .. setting.candidates /\ k <= found[i]
        BY <1>5, <3>2
      <4>3. c \in Candidates /\ c[1] = i /\ c[2] = k
        BY <4>1, <4>2 DEF Candidates
      <4>. QED  BY <1>2, <4>2, <4>3
    <3>. QED  BY <3>1, <3>4 DEF Searches
  <2>2. sjobs = [i \in 1 .. NumIndexes |-> SearchJob(i)]
    BY <1>2
  <2>. QED  BY <2>1, <2>2, CountsAssumption
<1>8. FlowOK
  <2>1. \A S : <<>> \in Seq(S)
    OBVIOUS
  <2>. QED  BY <1>2, <1>3, <1>4, <1>7, <2>1 DEF FlowOK
<1>9. CountOK
  BY <1>2, <1>6, PassingFacts DEF CountOK
<1>10. EndsOK
  BY <1>2, <1>4 DEF EndsOK
<1>. QED  BY <1>1, <1>6, <1>8, <1>9, <1>10 DEF FlowInv

-----------------------------------------------------------------------------
(* The count holds as long as no candidate gets back into a search. *)
LEMMA CountKept ==
    ASSUME CountOK, FateOK, UNCHANGED <<setting, fate, candidate_count>>,
           candidate_limit_reached' => Results!Exceeded,
           candidate_count \in Nat, NotPut' \subseteq NotPut
    PROVE  CountOK'
<1>1. Passing' = Passing /\ Results!Exceeded' = Results!Exceeded /\ FateOK'
  BY FateFrame
<1>2. Passing \ NotPut \in SUBSET (Passing \ NotPut')
  OBVIOUS
<1>3. IsFiniteSet(Passing \ NotPut') /\ Cardinality(Passing \ NotPut') \in Nat
  BY <1>1, PassingFacts, FS_Subset, FS_CardinalityType DEF Passing
<1>4. Cardinality(Passing \ NotPut) <= Cardinality(Passing \ NotPut')
      /\ Cardinality(Passing \ NotPut) \in Nat
  BY <1>2, <1>3, PassingFacts, FS_Subset
<1>. QED  BY <1>1, <1>3, <1>4 DEF CountOK

LEMMA NoneBack ==
    ASSUME Ahead' \subseteq Ahead
    PROVE  NotPut' \subseteq NotPut
  BY DEF NotPut

-----------------------------------------------------------------------------
LEMMA AheadFacts ==
    /\ Elems(sjobs) \subseteq Ahead
    /\ Elems(processor["search"].jobs) \subseteq Ahead
    /\ Elems(processor["search"].done) \subseteq Ahead
    /\ \A t \in Engines :
          processor_threads[t].kind = "search" /\ processor_threads[t].state = "busy"
             => processor_threads[t].job[1] \in Ahead
    /\ Thread.kind = "search" => Elems(results) \subseteq Ahead
    /\ dpc = "candidates" => Elems(current) \subseteq Ahead
  BY DEF Ahead

(* Nothing moves but flags and main; an engine stops. *)
LEMMA FlagsFlow ==
    ASSUME FlowInv, HitInv',
           UNCHANGED <<setting, fate, sjobs, vjobs, completed_jobs, candidate_count,
                       candidate_limit_reached, processor, results, current>>,
           results = <<>> \/ d' = d,
           dpc' = dpc \/ (dpc \notin {"candidates", "verified", "failed"}
                             /\ dpc' \notin {"candidates", "verified", "failed"}),
           \A t \in Engines :
               /\ processor_threads'[t].kind = processor_threads[t].kind
               /\ processor_threads'[t].job = processor_threads[t].job
               /\ processor_threads'[t].state = "busy" <=> processor_threads[t].state = "busy",
           EndsOK'
    PROVE  FlowInv'
<1>1. FlowOK /\ CountOK /\ FateOK /\ d \in Engines /\ Engines' = Engines /\ candidate_count \in Nat
  BY SettingFrame DEF FlowInv, HitInv, Inv, Types, DispatcherOK, ManagerOK
<1>2. /\ Searches' = Searches /\ Queued' = Queued /\ Judged' = Judged /\ Answers' = Answers
      /\ \A kind : JobsOf(kind)' = JobsOf(kind) /\ DoneBy(kind)' = DoneBy(kind)
      /\ FateOK'
  BY <1>1, FateFrame
<1>3. results' = <<>> \/ Thread.kind' = Thread.kind
  BY <1>1 DEF Thread
<1>4. \A S : <<>> \in Seq(S)
  OBVIOUS
<1>5. results' \in Seq(DoneBy(Thread.kind)')
  <2>1. CASE results' = <<>>
    BY <1>4, <2>1
  <2>2. CASE Thread.kind' = Thread.kind
    BY <1>1, <1>2, <2>2 DEF FlowOK
  <2>. QED  BY <1>3, <2>1, <2>2
<1>6. FlowOK'
  <2>1. /\ (sjobs \in Seq(Searches) /\ vjobs \in Seq(Queued) /\ completed_jobs \in Seq(Answers))'
        /\ \A kind \in Kinds : (/\ processor[kind].jobs \in Seq(JobsOf(kind))
                                /\ processor[kind].done \in Seq(DoneBy(kind)))'
    BY <1>1, <1>2 DEF FlowOK
  <2>2. ASSUME NEW t \in Engines, processor_threads'[t].state = "busy"
        PROVE  \E job \in JobsOf(processor_threads[t].kind)' : processor_threads'[t].job = <<job>>
    <3>1. \E job \in JobsOf(processor_threads[t].kind) : processor_threads[t].job = <<job>>
      BY <1>1, <2>2 DEF FlowOK
    <3>2. JobsOf(processor_threads[t].kind)' = JobsOf(processor_threads[t].kind)
      <4>1. processor_threads'[t].kind = processor_threads[t].kind  OBVIOUS
      <4>. QED  BY <1>2, <4>1
    <3>. QED  BY <3>1, <3>2
  <2>3. /\ dpc' = "candidates" => \/ \E job \in Searches' : current' = <<job>>
                                 \/ \E job \in VerifyJobs : job.cands = <<>> /\ current' = <<job>>
        /\ dpc' = "verified" => \E job \in Judged' : current' = <<job>>
    BY <1>1, <1>2 DEF FlowOK
  <2>4. VerifyJobs' = VerifyJobs
    BY DEF VerifyJobs, Cands
  <2>. QED  BY <1>1, <1>5, <2>1, <2>2, <2>3, <2>4 DEF FlowOK
<1>7. Ahead' \subseteq Ahead
  BY <1>1, <1>3, ElemsOfFew DEF Ahead
<1>. QED  BY <1>1, <1>2, <1>6, <1>7, NoneBack, CountKept DEF FlowInv, CountOK

(* The parts of the next state, by the sets of this one *)
LEMMA AheadWithin ==
    ASSUME NEW S, setting' = setting,
           Elems(sjobs') \subseteq S,
           Elems(processor'["search"].jobs) \subseteq S,
           Elems(processor'["search"].done) \subseteq S,
           \A t \in Engines :
              processor_threads'[t].kind = "search" /\ processor_threads'[t].state = "busy"
                 => processor_threads'[t].job[1] \in S,
           processor_threads'[d'].kind = "search" => Elems(results') \subseteq S,
           dpc' = "candidates" => Elems(current') \subseteq S
    PROVE  Ahead' \subseteq S
<1>1. Engines' = Engines
  BY SettingFrame
<1>. QED  BY <1>1 DEF Ahead, Thread, Elems

LEMMA FlowParts ==
    ASSUME UNCHANGED <<setting, fate>>,
           sjobs' \in Seq(Searches), vjobs' \in Seq(Queued), completed_jobs' \in Seq(Answers),
           \A kind \in Kinds : /\ processor'[kind].jobs \in Seq(JobsOf(kind))
                               /\ processor'[kind].done \in Seq(DoneBy(kind)),
           \A t \in Engines : processor_threads'[t].state = "busy" =>
              \E job \in JobsOf(processor_threads'[t].kind) : processor_threads'[t].job = <<job>>,
           results' \in Seq(DoneBy(processor_threads'[d'].kind)),
           dpc' = "candidates" => \/ \E job \in Searches : current' = <<job>>
                                  \/ \E job \in VerifyJobs : job.cands = <<>> /\ current' = <<job>>,
           dpc' = "verified" => \E job \in Judged : current' = <<job>>
    PROVE  FlowOK'
<1>1. /\ Searches' = Searches /\ Queued' = Queued /\ Judged' = Judged /\ Answers' = Answers
      /\ \A kind : JobsOf(kind)' = JobsOf(kind) /\ DoneBy(kind)' = DoneBy(kind)
  BY FateFrame
<1>2. Engines' = Engines /\ VerifyJobs' = VerifyJobs
  BY SettingFrame DEF VerifyJobs
<1>3. results' \in Seq(DoneBy(Thread.kind)')
  BY <1>1 DEF Thread
<1>. QED  BY <1>1, <1>2, <1>3 DEF FlowOK

LEMMA EndsKept ==
    ASSUME EndsOK, UNCHANGED <<setting, fate, live>>,
           dpc' = dpc \/ dpc' \notin {"failed", "drain", "ended"},
           \A t \in Engines : processor_threads'[t].live = processor_threads[t].live
    PROVE  EndsOK'
  BY SettingFrame DEF EndsOK

LEMMA FlowKept ==
    ASSUME FlowInv, HitInv', FlowOK', EndsOK', NotPut' \subseteq NotPut,
           UNCHANGED <<setting, fate, candidate_count>>,
           candidate_limit_reached' => Results!Exceeded
    PROVE  FlowInv'
<1>1. CountOK /\ FateOK /\ candidate_count \in Nat
  BY DEF FlowInv, HitInv, Inv, Types, ManagerOK
<1>2. FateOK'
  BY <1>1, FateFrame
<1>. QED  BY <1>1, <1>2, CountKept DEF FlowInv

LEMMA Unmoved ==
    ASSUME FlowInv, Ahead' \subseteq Ahead, UNCHANGED candidate_limit_reached
    PROVE  NotPut' \subseteq NotPut /\ (candidate_limit_reached' => Results!Exceeded)
  BY NoneBack DEF FlowInv, CountOK

-----------------------------------------------------------------------------
(* The engines' steps *)
LEMMA StartJobFlow ==
    ASSUME FlowInv, NEW t \in Engines, StartJob(t)
    PROVE  FlowInv'
<1>. DEFINE kind == processor_threads[t].kind
            jobs == processor[kind].jobs
            job == Last(jobs)
<1>1. /\ UNCHANGED <<input, manager, dispatcher, main>>
      /\ processor_threads[t].state = "loop" /\ jobs # <<>>
      /\ processor_threads' = [processor_threads EXCEPT ![t].state = "busy", ![t].job = <<job>>]
      /\ processor' = [processor EXCEPT ![kind] = JobStarted(@)]
  BY DEF StartJob, HasJob, NextJob
<1>2. UNCHANGED <<setting, fate, sjobs, vjobs, completed_jobs, candidate_count,
                  candidate_limit_reached, results, current, dpc, d, live>>
  BY <1>1 DEF input, manager, queues, tallies, flags, dispatcher, main
<1>3. FlowOK /\ EndsOK /\ HitInv /\ HitInv'
  BY StartJobHit DEF FlowInv
<1>4. EnginesOK /\ ProcessorsOK /\ processor_threads \in [Engines -> EngineData] /\ d \in Engines
  BY <1>3 DEF HitInv, Inv, Types, EnginesOK, DispatcherOK
<1>5. kind \in Kinds
  BY <1>4 DEF EngineData
<1>6. /\ processor'[kind].jobs = Front(jobs) /\ processor'[kind].done = processor[kind].done
      /\ \A k \in Kinds : k # kind => processor'[k] = processor[k]
  <2>1. processor[kind] \in [jobs : Seq(JobsFor(kind)), done : Seq(JobsFor(kind))]
        /\ DOMAIN processor = Kinds
    BY <1>4, <1>5 DEF ProcessorsOK
  <2>2. JobStarted(processor[kind]) = [jobs |-> Front(jobs), done |-> processor[kind].done]
    BY <2>1, ProcessorValues
  <2>3. processor'[kind] = JobStarted(processor[kind])
    BY <1>1, <1>5, <2>1
  <2>. QED  BY <1>1, <2>1, <2>2, <2>3
<1>7. /\ processor_threads'[t].job = <<job>> /\ processor_threads'[t].kind = kind
      /\ \A u \in Engines : u # t => processor_threads'[u] = processor_threads[u]
      /\ \A u \in Engines : /\ processor_threads'[u].kind = processor_threads[u].kind
                            /\ processor_threads'[u].live = processor_threads[u].live
  BY <1>1, <1>4 DEF EngineData
<1>8. jobs \in Seq(JobsOf(kind))
  BY <1>3, <1>5 DEF FlowOK
<1>. HIDE DEF kind, jobs, job
<1>9. Front(jobs) \in Seq(JobsOf(kind)) /\ job \in JobsOf(kind)
      /\ job \in Elems(jobs) /\ Elems(Front(jobs)) \subseteq Elems(jobs)
  BY <1>1, <1>8, EndsOf, ElemsOf DEF job
<1>10. FlowOK'
  <2>1. \A k \in Kinds : /\ processor'[k].jobs \in Seq(JobsOf(k))
                         /\ processor'[k].done \in Seq(DoneBy(k))
    BY <1>3, <1>5, <1>6, <1>9 DEF FlowOK
  <2>2. \A u \in Engines : processor_threads'[u].state = "busy" =>
           \E j \in JobsOf(processor_threads'[u].kind) : processor_threads'[u].job = <<j>>
    BY <1>3, <1>7, <1>9 DEF FlowOK
  <2>3. results' \in Seq(DoneBy(processor_threads'[d'].kind))
    BY <1>2, <1>3, <1>4, <1>7 DEF FlowOK, Thread
  <2>. QED  BY <1>2, <1>3, <2>1, <2>2, <2>3, FlowParts DEF FlowOK
<1>11. Ahead' \subseteq Ahead
  <2>1. Elems(processor'["search"].jobs) \subseteq Ahead
        /\ Elems(processor'["search"].done) \subseteq Ahead
    BY <1>6, <1>9, AheadFacts DEF Kinds, jobs
  <2>2. kind = "search" => job \in Ahead
    BY <1>9, AheadFacts DEF jobs
  <2>3. \A u \in Engines :
           processor_threads'[u].kind = "search" /\ processor_threads'[u].state = "busy"
              => processor_threads'[u].job[1] \in Ahead
    BY <1>7, <2>2, AheadFacts
  <2>4. /\ processor_threads'[d'].kind = "search" => Elems(results') \subseteq Ahead
        /\ dpc' = "candidates" => Elems(current') \subseteq Ahead
        /\ Elems(sjobs') \subseteq Ahead
    BY <1>2, <1>4, <1>7, AheadFacts DEF Thread
  <2>. QED  BY <1>2, <2>1, <2>3, <2>4, AheadWithin
<1>12. EndsOK'
  BY <1>2, <1>3, <1>7, EndsKept
<1>. QED  BY <1>2, <1>3, <1>10, <1>11, <1>12, Unmoved, FlowKept

(* The result of a job is one, and a search's is the search itself. *)
LEMMA ResultFlow ==
    ASSUME FateOK, NEW kind \in Kinds, NEW job \in JobsOf(kind)
    PROVE  /\ Result(job) \in DoneBy(kind)
           /\ kind = "search" => Result(job) = job
<1>1. CASE kind = "search"
  BY <1>1 DEF JobsOf, DoneBy, Searches, SearchJobs, Result
<1>2. CASE kind = "verify"
  <2>1. PICK c \in Passing : job \in VerifyJobs /\ job.cands = <<c>> /\ job.kind = "verify"
    BY <1>2 DEF JobsOf, Queued, VerifyJobs
  <2>2. CASE fate[c] = "hit"
    BY <1>2, <2>1, <2>2 DEF Result, DoneBy, Judged
  <2>3. CASE fate[c] # "hit"
    <3>1. Result(job) = [job EXCEPT !.cands = <<>>]
      BY <2>1, <2>3 DEF Result
    <3>2. [job EXCEPT !.cands = <<>>] \in VerifyJobs /\ [job EXCEPT !.cands = <<>>].cands = <<>>
      <4>1. PICK x \in Seq(Cands) : job = [kind |-> "verify", cands |-> x]
        BY <2>1 DEF VerifyJobs
      <4>2. [job EXCEPT !.cands = <<>>] = [kind |-> "verify", cands |-> <<>>]
        BY <4>1
      <4>3. <<>> \in Seq(Cands)
        OBVIOUS
      <4>. QED  BY <4>2, <4>3 DEF VerifyJobs
    <3>. QED  BY <1>2, <3>1, <3>2 DEF DoneBy, Judged
  <2>. QED  BY <2>2, <2>3
<1>. QED  BY <1>1, <1>2 DEF Kinds

LEMMA FinishJobFlow ==
    ASSUME FlowInv, NEW t \in Engines, FinishJob(t)
    PROVE  FlowInv'
<1>. DEFINE kind == processor_threads[t].kind
            done == processor[kind].done
            result == Result(processor_threads[t].job[1])
<1>1. /\ UNCHANGED <<input, manager, dispatcher, main>>
      /\ processor_threads[t].state = "busy"
      /\ processor_threads' = [processor_threads EXCEPT ![t].state = "loop", ![t].job = <<>>]
      /\ processor' = [processor EXCEPT ![kind] = JobFinished(@, result)]
  BY DEF FinishJob
<1>2. UNCHANGED <<setting, fate, sjobs, vjobs, completed_jobs, candidate_count,
                  candidate_limit_reached, results, current, dpc, d, live>>
  BY <1>1 DEF input, manager, queues, tallies, flags, dispatcher, main
<1>3. FlowOK /\ FateOK /\ EndsOK /\ HitInv /\ HitInv'
  BY FinishJobHit DEF FlowInv
<1>4. EnginesOK /\ ProcessorsOK /\ processor_threads \in [Engines -> EngineData] /\ d \in Engines
  BY <1>3 DEF HitInv, Inv, Types, EnginesOK, DispatcherOK
<1>5. kind \in Kinds
  BY <1>4 DEF EngineData
<1>6. PICK job \in JobsOf(kind) : processor_threads[t].job = <<job>>
  BY <1>1, <1>3 DEF FlowOK
<1>7. result = Result(job) /\ result \in DoneBy(kind) /\ (kind = "search" => result = job)
  BY <1>3, <1>5, <1>6, ResultFlow
<1>8. /\ processor'[kind].jobs = processor[kind].jobs
      /\ processor'[kind].done = Append(done, result)
      /\ \A k \in Kinds : k # kind => processor'[k] = processor[k]
  <2>1. processor[kind] \in [jobs : Seq(JobsFor(kind)), done : Seq(JobsFor(kind))]
        /\ DOMAIN processor = Kinds
    BY <1>4, <1>5 DEF ProcessorsOK
  <2>2. JobFinished(processor[kind], result)
           = [jobs |-> processor[kind].jobs, done |-> Append(done, result)]
    BY <2>1, ProcessorValues
  <2>3. processor'[kind] = JobFinished(processor[kind], result)
    BY <1>1, <1>5, <2>1
  <2>. QED  BY <1>1, <2>1, <2>2, <2>3
<1>9. /\ processor_threads'[t].state = "loop" /\ processor_threads'[t].kind = kind
      /\ \A u \in Engines : u # t => processor_threads'[u] = processor_threads[u]
      /\ \A u \in Engines : /\ processor_threads'[u].kind = processor_threads[u].kind
                            /\ processor_threads'[u].live = processor_threads[u].live
  BY <1>1, <1>4 DEF EngineData
<1>10. kind = "search" => job \in Ahead
  <2>1. <<job>>[1] = job
    OBVIOUS
  <2>. QED  BY <1>1, <1>6, <2>1, AheadFacts
<1>11. done \in Seq(DoneBy(kind))
  BY <1>3, <1>5 DEF FlowOK
<1>. HIDE DEF kind, done, result
<1>12. Append(done, result) \in Seq(DoneBy(kind))
       /\ Elems(Append(done, result)) = Elems(done) \cup {result}
  BY <1>7, <1>11, LongerBy, ElemsOf
<1>13. FlowOK'
  <2>1. \A k \in Kinds : /\ processor'[k].jobs \in Seq(JobsOf(k))
                         /\ processor'[k].done \in Seq(DoneBy(k))
    BY <1>3, <1>5, <1>8, <1>12 DEF FlowOK
  <2>2. \A u \in Engines : processor_threads'[u].state = "busy" =>
           \E j \in JobsOf(processor_threads'[u].kind) : processor_threads'[u].job = <<j>>
    BY <1>3, <1>9 DEF FlowOK
  <2>3. results' \in Seq(DoneBy(processor_threads'[d'].kind))
    BY <1>2, <1>3, <1>4, <1>9 DEF FlowOK, Thread
  <2>. QED  BY <1>2, <1>3, <2>1, <2>2, <2>3, FlowParts DEF FlowOK
<1>14. Ahead' \subseteq Ahead
  <2>1. Elems(processor'["search"].jobs) \subseteq Ahead
        /\ Elems(processor'["search"].done) \subseteq Ahead
    BY <1>7, <1>8, <1>10, <1>12, AheadFacts DEF Kinds, done
  <2>2. \A u \in Engines :
           processor_threads'[u].kind = "search" /\ processor_threads'[u].state = "busy"
              => processor_threads'[u].job[1] \in Ahead
    BY <1>9, AheadFacts
  <2>3. /\ processor_threads'[d'].kind = "search" => Elems(results') \subseteq Ahead
        /\ dpc' = "candidates" => Elems(current') \subseteq Ahead
        /\ Elems(sjobs') \subseteq Ahead
    BY <1>2, <1>4, <1>9, AheadFacts DEF Thread
  <2>. QED  BY <1>2, <2>1, <2>2, <2>3, AheadWithin
<1>15. EndsOK'
  BY <1>2, <1>3, <1>9, EndsKept
<1>. QED  BY <1>2, <1>3, <1>13, <1>14, <1>15, Unmoved, FlowKept

LEMMA EngineFailsFlow ==
    ASSUME FlowInv, NEW t \in Engines, EngineFails(t)
    PROVE  FlowInv'
<1>1. /\ UNCHANGED <<input, manager, processor, dispatcher, main>>
      /\ processor_threads' = [processor_threads EXCEPT ![t].state = "failed", ![t].job = <<>>]
  BY DEF EngineFails
<1>2. UNCHANGED <<setting, fate, sjobs, vjobs, completed_jobs, candidate_count,
                  candidate_limit_reached, processor, results, current, dpc, d, live>>
  BY <1>1 DEF input, manager, queues, tallies, flags, dispatcher, main
<1>3. FlowOK /\ EndsOK /\ HitInv /\ HitInv'
  BY EngineFailsHit DEF FlowInv
<1>4. processor_threads \in [Engines -> EngineData] /\ d \in Engines
  BY <1>3 DEF HitInv, Inv, Types, EnginesOK, DispatcherOK
<1>5. /\ processor_threads'[t].state = "failed"
      /\ \A u \in Engines : u # t => processor_threads'[u] = processor_threads[u]
      /\ \A u \in Engines : /\ processor_threads'[u].kind = processor_threads[u].kind
                            /\ processor_threads'[u].live = processor_threads[u].live
  BY <1>1, <1>4 DEF EngineData
<1>6. FlowOK'
  <2>1. \A u \in Engines : processor_threads'[u].state = "busy" =>
           \E j \in JobsOf(processor_threads'[u].kind) : processor_threads'[u].job = <<j>>
    BY <1>3, <1>5 DEF FlowOK
  <2>2. results' \in Seq(DoneBy(processor_threads'[d'].kind))
    BY <1>2, <1>3, <1>4, <1>5 DEF FlowOK, Thread
  <2>. QED  BY <1>2, <1>3, <2>1, <2>2, FlowParts DEF FlowOK
<1>7. Ahead' \subseteq Ahead
  <2>1. \A u \in Engines :
           processor_threads'[u].kind = "search" /\ processor_threads'[u].state = "busy"
              => processor_threads'[u].job[1] \in Ahead
    BY <1>5, AheadFacts
  <2>2. processor_threads'[d'].kind = "search" => Elems(results') \subseteq Ahead
    BY <1>2, <1>4, <1>5, AheadFacts DEF Thread
  <2>. QED  BY <1>2, <2>1, <2>2, AheadFacts, AheadWithin
<1>8. EndsOK'
  BY <1>2, <1>3, <1>5, EndsKept
<1>. QED  BY <1>2, <1>3, <1>6, <1>7, <1>8, Unmoved, FlowKept

LEMMA EngineStopsFlow ==
    ASSUME FlowInv, NEW t \in Engines, EngineStops(t)
    PROVE  FlowInv'
<1>1. /\ UNCHANGED <<setting, fate, sjobs, vjobs, completed_jobs, candidate_count,
                     candidate_limit_reached, processor, results, current, dpc, d, live>>
      /\ processor_threads[t].state = "loop"
      /\ processor_threads' = [processor_threads EXCEPT ![t].state = "stopped"]
  BY DEF EngineStops, input, manager, queues, tallies, flags, dispatcher, main
<1>2. EndsOK /\ HitInv' /\ processor_threads \in [Engines -> EngineData]
  BY EngineStopsHit DEF FlowInv, HitInv, Inv, Types, EnginesOK
<1>3. \A u \in Engines :
         /\ processor_threads'[u].kind = processor_threads[u].kind
         /\ processor_threads'[u].job = processor_threads[u].job
         /\ processor_threads'[u].live = processor_threads[u].live
         /\ processor_threads'[u].state = "busy" <=> processor_threads[u].state = "busy"
  BY <1>1, <1>2 DEF EngineData
<1>4. EndsOK'
  BY <1>1, <1>2, <1>3, EndsKept
<1>. QED  BY <1>1, <1>2, <1>3, <1>4, FlagsFlow

-----------------------------------------------------------------------------
(* The dispatcher's rounds *)
LEMMA StartRoundFlow ==
    ASSUME FlowInv, StartRound
    PROVE  FlowInv'
<1>1. /\ UNCHANGED <<setting, fate, sjobs, vjobs, completed_jobs, candidate_count,
                     candidate_limit_reached, processor, results, current, live>>
      /\ dpc = "top" /\ dpc' = IF live THEN "dispatch" ELSE "drain"
      /\ processor_threads' = IF live THEN processor_threads ELSE Silenced
  BY DEF StartRound, input, manager, queues, tallies, flags, main
<1>2. EndsOK /\ HitInv' /\ EnginesOK /\ results = <<>>
  BY <1>1, StartRoundHit DEF FlowInv, HitInv, Inv, Types, DispatcherOK
<1>3. \A u \in Engines :
         /\ processor_threads'[u].kind = processor_threads[u].kind
         /\ processor_threads'[u].job = processor_threads[u].job
         /\ processor_threads'[u].state = processor_threads[u].state
  BY <1>1, <1>2, SilencedFacts
<1>4. EndsOK'
  BY <1>1, <1>2, SettingFrame DEF EndsOK
<1>. QED  BY <1>1, <1>2, <1>3, <1>4, FlagsFlow

LEMMA NextThreadFlow ==
    ASSUME FlowInv, NextThread
    PROVE  FlowInv'
<1>1. EndsOK /\ HitInv' /\ EnginesOK /\ DispatcherOK
  BY NextThreadHit DEF FlowInv, HitInv, Inv, Types
<1>2. ~MustReplace(Thread)
  <2>1. processor_threads[d] \in EngineData
    BY <1>1 DEF EnginesOK, DispatcherOK
  <2>. QED  BY <2>1 DEF EngineData, MustReplace, Thread
<1>3. /\ UNCHANGED <<setting, fate, sjobs, vjobs, completed_jobs, candidate_count,
                     candidate_limit_reached, processor, processor_threads, results, current,
                     live>>
      /\ dpc = "put" /\ results = <<>>
      /\ (dpc' \in {"drain", "ended"} /\ Draining) \/ dpc' \in {"dispatch", "top"}
  BY <1>2 DEF NextThread, input, manager, queues, tallies, flags, main
<1>4. Draining => ~live
  BY <1>1 DEF Draining, EndsOK, EnginesOK, DispatcherOK
<1>5. EndsOK'
  BY <1>1, <1>3, <1>4, SettingFrame DEF EndsOK
<1>. QED  BY <1>1, <1>3, <1>5, FlagsFlow

LEMMA SetPausedLive ==
    ASSUME EnginesOK, NEW changes, SetPaused(changes)
    PROVE  \A t \in Engines : processor_threads'[t].live = processor_threads[t].live
<1>1. processor_threads \in [Engines -> EngineData]
  BY DEF EnginesOK
<1>2. \A e \in EngineData : \A p : [e EXCEPT !.paused = p].live = e.live
  BY DEF EngineData
<1>. SUFFICES ASSUME NEW t \in Engines
              PROVE  processor_threads'[t].live = processor_threads[t].live
  OBVIOUS
<1>3. PICK e \in EngineData : e = processor_threads[t]
  BY <1>1
<1>4. processor_threads'[t] = e \/ \E p : processor_threads'[t] = [e EXCEPT !.paused = p]
  BY <1>1, <1>3 DEF SetPaused
<1>. QED  BY <1>2, <1>3, <1>4

(* What main does apart from reporting *)
LEMMA MainFlow ==
    ASSUME FlowInv, CheckWorking \/ CheckCompleted \/ CheckCounts \/ Checks \/ Interrupt
    PROVE  FlowInv'
<1>1. EndsOK /\ HitInv' /\ EnginesOK
  BY MainHit DEF FlowInv, HitInv, Inv, Types, MainStep
<1>2. UNCHANGED <<setting, fate, sjobs, vjobs, completed_jobs, candidate_count,
                  candidate_limit_reached, processor, results, current, dpc, d>>
  BY DEF CheckWorking, CheckCompleted, CheckCounts, Checks, Interrupt,
         input, manager, queues, tallies, flags, engines, dispatcher
<1>3. \/ processor_threads' = processor_threads /\ (live' = live \/ live' = FALSE)
      \/ processor_threads' = Silenced /\ live' = FALSE
      \/ live' = live /\ \E changes : SetPaused(changes)
  BY DEF CheckWorking, CheckCompleted, CheckCounts, Checks, Interrupt, Return,
         Throttle, SearchAgain, engines, dispatcher
<1>4. \A t \in Engines :
         /\ processor_threads'[t].kind = processor_threads[t].kind
         /\ processor_threads'[t].job = processor_threads[t].job
         /\ processor_threads'[t].state = processor_threads[t].state
  BY <1>1, <1>3, SilencedFacts, SetPausedFacts
<1>5. \/ live' = FALSE
      \/ live' = live /\ \A t \in Engines : processor_threads'[t].live = processor_threads[t].live
  BY <1>1, <1>3, SetPausedLive
<1>6. EndsOK'
  <2>1. CASE live' = FALSE
    BY <1>1, <1>2, <2>1, SettingFrame DEF EndsOK
  <2>2. CASE live' = live
             /\ \A t \in Engines : processor_threads'[t].live = processor_threads[t].live
    BY <1>1, <1>2, <2>2, EndsKept
  <2>. QED  BY <1>5, <2>1, <2>2
<1>. QED  BY <1>1, <1>2, <1>4, <1>6, FlagsFlow

LEMMA CollectFlow ==
    ASSUME FlowInv, Collect
    PROVE  FlowInv'
<1>. DEFINE kind == Thread.kind
            p == processor[kind]
<1>1. /\ UNCHANGED <<setting, fate, sjobs, vjobs, completed_jobs, candidate_count,
                     candidate_limit_reached, processor_threads, d, current, live>>
      /\ dpc' = "put" /\ results' = p.done
      /\ processor' = [processor EXCEPT ![kind] = ResultsTaken(@)]
  BY DEF Collect, input, manager, queues, tallies, flags, main
<1>2. FlowOK /\ EndsOK /\ HitInv /\ HitInv'
  BY CollectHit DEF FlowInv
<1>3. ProcessorsOK /\ processor_threads \in [Engines -> EngineData] /\ d \in Engines
  BY <1>2 DEF HitInv, Inv, Types, EnginesOK, DispatcherOK
<1>4. kind \in Kinds
  BY <1>3 DEF EngineData, Thread
<1>5. /\ processor'[kind].jobs = p.jobs /\ processor'[kind].done = <<>>
      /\ \A k \in Kinds : k # kind => processor'[k] = processor[k]
  <2>1. p \in [jobs : Seq(JobsFor(kind)), done : Seq(JobsFor(kind))] /\ kind \in DOMAIN processor
    BY <1>3, <1>4 DEF ProcessorsOK
  <2>2. ResultsTaken(p) = [jobs |-> p.jobs, done |-> <<>>]
    BY <2>1, ProcessorValues
  <2>3. processor'[kind] = ResultsTaken(p)
    BY <1>1, <2>1
  <2>. QED  BY <1>1, <2>2, <2>3
<1>. HIDE DEF p
<1>6. FlowOK'
  <2>1. \A S : <<>> \in Seq(S)
    OBVIOUS
  <2>2. \A k \in Kinds : /\ processor'[k].jobs \in Seq(JobsOf(k))
                         /\ processor'[k].done \in Seq(DoneBy(k))
    BY <1>2, <1>4, <1>5, <2>1 DEF FlowOK, p
  <2>3. results' \in Seq(DoneBy(processor_threads'[d'].kind))
    BY <1>1, <1>2, <1>4 DEF FlowOK, Thread, p
  <2>. QED  BY <1>1, <1>2, <2>2, <2>3, FlowParts DEF FlowOK
<1>7. Ahead' \subseteq Ahead
  <2>1. Elems(processor'["search"].jobs) \subseteq Ahead
        /\ Elems(processor'["search"].done) \subseteq Ahead
    BY <1>5, AheadFacts, ElemsOfFew DEF Kinds, p
  <2>2. processor_threads'[d'].kind = "search" => Elems(results') \subseteq Ahead
    BY <1>1, AheadFacts DEF Thread, p
  <2>. QED  BY <1>1, <2>1, <2>2, AheadFacts, AheadWithin
<1>8. EndsOK'
  BY <1>1, <1>2, EndsKept
<1>. QED  BY <1>1, <1>2, <1>6, <1>7, <1>8, Unmoved, FlowKept

LEMMA DispatchFlow ==
    ASSUME FlowInv, Dispatch
    PROVE  FlowInv'
<1>1. /\ UNCHANGED <<setting, fate, completed_jobs, candidate_count, candidate_limit_reached,
                     processor_threads, d, results, current, live>>
      /\ dpc = "dispatch" /\ dpc' = "collect"
  BY DEF Dispatch, input, tallies, flags, main
<1>2. FlowOK /\ EndsOK /\ HitInv /\ HitInv'
  BY DispatchHit DEF FlowInv
<1>3. ProcessorsOK
  BY <1>2 DEF HitInv, Inv, Types
<1>4. EndsOK'
  BY <1>1, <1>2, EndsKept
<1>5. /\ results' \in Seq(DoneBy(processor_threads'[d'].kind))
      /\ processor_threads'[d'].kind = "search" => Elems(results') \subseteq Ahead
  BY <1>1, <1>2, AheadFacts DEF FlowOK, Thread
<1>6. ASSUME NEW kind \in Kinds, NEW job \in JobsOf(kind),
             sjobs' \in Seq(Searches), vjobs' \in Seq(Queued), Elems(sjobs') \subseteq Ahead,
             kind = "search" => job \in Ahead,
             processor' = [processor EXCEPT ![kind] = JobAdded(@, job)]
      PROVE  FlowOK' /\ Ahead' \subseteq Ahead
  <2>1. /\ processor'[kind].jobs = Append(processor[kind].jobs, job)
        /\ processor'[kind].done = processor[kind].done
        /\ \A k \in Kinds : k # kind => processor'[k] = processor[k]
    <3>1. /\ processor[kind] \in [jobs : Seq(JobsFor(kind)), done : Seq(JobsFor(kind))]
          /\ DOMAIN processor = Kinds
      BY <1>3 DEF ProcessorsOK
    <3>2. JobAdded(processor[kind], job)
             = [jobs |-> Append(processor[kind].jobs, job), done |-> processor[kind].done]
      BY <3>1, ProcessorValues
    <3>3. processor'[kind] = JobAdded(processor[kind], job)
      BY <1>6, <3>1
    <3>. QED  BY <1>6, <3>1, <3>2, <3>3
  <2>2. /\ Append(processor[kind].jobs, job) \in Seq(JobsOf(kind))
        /\ Elems(Append(processor[kind].jobs, job)) = Elems(processor[kind].jobs) \cup {job}
    <3>1. processor[kind].jobs \in Seq(JobsOf(kind))
      BY <1>2 DEF FlowOK
    <3>. QED  BY <3>1, LongerBy, ElemsOf
  <2>3. \A k \in Kinds : /\ processor'[k].jobs \in Seq(JobsOf(k))
                         /\ processor'[k].done \in Seq(DoneBy(k))
    BY <1>2, <2>1, <2>2 DEF FlowOK
  <2>4. Elems(processor'["search"].jobs) \subseteq Ahead
        /\ Elems(processor'["search"].done) \subseteq Ahead
    BY <1>6, <2>1, <2>2, AheadFacts DEF Kinds
  <2>5. FlowOK'
    BY <1>1, <1>2, <1>5, <1>6, <2>3, FlowParts DEF FlowOK
  <2>. QED  BY <1>1, <1>5, <1>6, <2>4, <2>5, AheadFacts, AheadWithin
<1>7. CASE UNCHANGED <<sjobs, vjobs, processor>>
  <2>1. FlowOK'
    BY <1>1, <1>2, <1>5, <1>7, FlowParts DEF FlowOK
  <2>2. Ahead' \subseteq Ahead
    BY <1>1, <1>5, <1>7, AheadFacts, AheadWithin
  <2>. QED  BY <1>1, <1>2, <1>4, <2>1, <2>2, Unmoved, FlowKept
<1>8. CASE /\ sjobs # <<>> /\ sjobs' = Front(sjobs) /\ vjobs' = vjobs
           /\ processor' = [processor EXCEPT !["search"] = JobAdded(@, Last(sjobs))]
  <2>1. /\ sjobs' \in Seq(Searches) /\ Last(sjobs) \in Searches
        /\ Last(sjobs) \in Elems(sjobs) /\ Elems(sjobs') \subseteq Elems(sjobs)
    BY <1>2, <1>8, EndsOf, ElemsOf DEF FlowOK
  <2>2. "search" \in Kinds /\ Last(sjobs) \in JobsOf("search")
    BY <2>1 DEF Kinds, JobsOf
  <2>3. FlowOK' /\ Ahead' \subseteq Ahead
    BY <1>2, <1>6, <1>8, <2>1, <2>2, AheadFacts DEF FlowOK
  <2>. QED  BY <1>1, <1>2, <1>4, <2>3, Unmoved, FlowKept
<1>9. CASE /\ vjobs # <<>> /\ vjobs' = Front(vjobs) /\ sjobs' = sjobs
           /\ processor' = [processor EXCEPT !["verify"] = JobAdded(@, Last(vjobs))]
  <2>1. vjobs' \in Seq(Queued) /\ Last(vjobs) \in Queued
    BY <1>2, <1>9, EndsOf DEF FlowOK
  <2>2. "verify" \in Kinds /\ Last(vjobs) \in JobsOf("verify")
    BY <2>1 DEF Kinds, JobsOf
  <2>3. FlowOK' /\ Ahead' \subseteq Ahead
    BY <1>2, <1>6, <1>9, <2>1, <2>2, AheadFacts DEF FlowOK
  <2>. QED  BY <1>1, <1>2, <1>4, <2>3, Unmoved, FlowKept
<1>. QED  BY <1>7, <1>8, <1>9 DEF Dispatch

-----------------------------------------------------------------------------
(* What the dispatcher puts *)
LEMMA SameCount == \A S : Results!Cardinality(S) = Cardinality(S)
  BY DEF Results!Cardinality, Cardinality

LEMMA StartPutFlow ==
    ASSUME FlowInv, StartPut
    PROVE  FlowInv'
<1>. DEFINE job == Head(results)
<1>1. /\ UNCHANGED <<setting, fate, sjobs, vjobs, completed_jobs, candidate_count, processor,
                     processor_threads, d, live>>
      /\ dpc = "put" /\ results # <<>> /\ current' = <<job>> /\ results' = Tail(results)
      /\ dpc' = IF job.kind = "search" THEN "candidates" ELSE "verified"
      /\ candidate_limit_reached' =>
            candidate_limit_reached \/ (limit > 0 /\ candidate_count > limit)
  BY DEF StartPut, input, queues, engines, main
<1>2. FlowOK /\ CountOK /\ FateOK /\ EndsOK /\ HitInv /\ HitInv'
  BY StartPutHit DEF FlowInv
<1>3. /\ candidate_count \in Nat /\ setting \in Settings
      /\ d \in Engines /\ processor_threads \in [Engines -> EngineData]
  BY <1>2 DEF HitInv, Inv, Types, ManagerOK, DispatcherOK, EnginesOK
<1>4. Thread.kind \in Kinds
  BY <1>3 DEF EngineData, Thread
<1>5. results \in Seq(DoneBy(Thread.kind))
  BY <1>2 DEF FlowOK
<1>6. /\ job \in DoneBy(Thread.kind) /\ Tail(results) \in Seq(DoneBy(Thread.kind))
      /\ job \in Elems(results) /\ Elems(Tail(results)) \subseteq Elems(results)
  BY <1>1, <1>5, EndsOf, ElemsOf
<1>. HIDE DEF job
<1>7. /\ job.kind = "search" => job \in Searches /\ Thread.kind = "search"
      /\ job.kind # "search" => job \in Judged
  BY <1>4, <1>6 DEF DoneBy, Searches, SearchJobs, Judged, VerifyJobs, Kinds
<1>8. FlowOK'
  <2>1. results' \in Seq(DoneBy(processor_threads'[d'].kind))
    BY <1>1, <1>6 DEF Thread
  <2>. QED  BY <1>1, <1>2, <1>7, <2>1, FlowParts DEF FlowOK
<1>9. Ahead' \subseteq Ahead
  <2>1. processor_threads'[d'].kind = "search" => Elems(results') \subseteq Ahead
    BY <1>1, <1>6, AheadFacts DEF Thread
  <2>2. dpc' = "candidates" => Elems(current') \subseteq Ahead
    BY <1>1, <1>6, <1>7, AheadFacts, ElemsOfFew
  <2>. QED  BY <1>1, <2>1, <2>2, AheadFacts, AheadWithin
<1>10. limit > 0 /\ candidate_count > limit => Results!Exceeded
  <2>. SUFFICES ASSUME limit > 0, candidate_count > limit PROVE Results!Exceeded
    OBVIOUS
  <2>1. verify /\ limit = setting.limit /\ limit \in Nat
    BY <1>3, SettingFacts DEF limit
  <2>2. Cardinality(Passing) \in Nat /\ Cardinality(Passing \ NotPut) \in Nat
        /\ Cardinality(Passing \ NotPut) <= Cardinality(Passing)
    BY <1>2, PassingFacts
  <2>3. candidate_count <= Cardinality(Passing \ NotPut)
    BY <1>2 DEF CountOK
  <2>4. Cardinality(Passing) > setting.limit
    BY <1>3, <2>1, <2>2, <2>3
  <2>5. setting.verify /\ setting.limit > 0
    BY <2>1 DEF verify
  <2>. QED  BY <2>4, <2>5, SameCount DEF Results!Exceeded, Passing
<1>11. candidate_limit_reached' => Results!Exceeded
  BY <1>1, <1>2, <1>10 DEF CountOK
<1>12. EndsOK'
  BY <1>1, <1>2, EndsKept
<1>. QED  BY <1>1, <1>2, <1>8, <1>9, <1>11, <1>12, NoneBack, FlowKept

(* A job with other candidates *)
LEMMA JobWith ==
    ASSUME setting \in Settings, NEW job \in SearchJobs \cup VerifyJobs, NEW x \in Seq(Cands)
    PROVE  /\ [job EXCEPT !.cands = x].cands = x
           /\ job \in VerifyJobs => [job EXCEPT !.cands = x] \in VerifyJobs
           /\ job \in SearchJobs /\ Len(x) <= Len(job.cands)
                 => [job EXCEPT !.cands = x] \in SearchJobs
           /\ \A q : q = <<job>> => [q EXCEPT ![1].cands = x] = <<[job EXCEPT !.cands = x]>>
<1>1. PICK y \in Seq(Cands) : job = [kind |-> job.kind, cands |-> y] /\ y = job.cands
  BY DEF SearchJobs, VerifyJobs
<1>2. [job EXCEPT !.cands = x] = [kind |-> job.kind, cands |-> x]
  BY <1>1
<1>3. job \in VerifyJobs => [job EXCEPT !.cands = x] \in VerifyJobs
  BY <1>2 DEF VerifyJobs
<1>4. job \in SearchJobs /\ Len(x) <= Len(job.cands) => [job EXCEPT !.cands = x] \in SearchJobs
  <2>. SUFFICES ASSUME job \in SearchJobs, Len(x) <= Len(y)
                PROVE  [kind |-> job.kind, cands |-> x] \in SearchJobs
    BY <1>1, <1>2
  <2>1. job.kind = "search" /\ Len(y) <= setting.candidates
    BY <1>1 DEF SearchJobs
  <2>2. PICK k \in Nat, l \in Nat : k = Len(x) /\ l = Len(y)
    BY LenProperties
  <2>3. Len(x) <= setting.candidates
    BY <2>1, <2>2, SettingFacts
  <2>. QED  BY <2>1, <2>3 DEF SearchJobs
<1>5. ASSUME NEW q, q = <<job>>
      PROVE  [q EXCEPT ![1].cands = x] = <<[job EXCEPT !.cands = x]>>
  BY <1>5
<1>. QED  BY <1>2, <1>3, <1>4, <1>5

LEMMA PutVerifiedFlow ==
    ASSUME FlowInv, PutVerified
    PROVE  FlowInv'
<1>1. /\ UNCHANGED <<setting, fate, sjobs, vjobs, candidate_count, candidate_limit_reached,
                     processor, processor_threads, d, results, live>>
      /\ dpc = "verified" /\ dpc' = "candidates"
      /\ completed_jobs' = Append(completed_jobs, current[1].cands)
      /\ current' = [current EXCEPT ![1].cands = <<>>]
  BY DEF PutVerified, input, tallies, flags, engines, main
<1>2. FlowOK /\ CountOK /\ EndsOK /\ HitInv /\ HitInv'
  BY PutVerifiedHit DEF FlowInv
<1>3. PICK job \in Judged : current = <<job>>
  BY <1>1, <1>2 DEF FlowOK
<1>4. job \in VerifyJobs /\ current[1] = job
  BY <1>3 DEF Judged
<1>5. job.cands \in Answers
  BY <1>3 DEF Judged, Answers, Reportable, Results!Reportable, Passing
<1>6. completed_jobs' \in Seq(Answers)
  <2>1. completed_jobs \in Seq(Answers)
    BY <1>2 DEF FlowOK
  <2>. QED  BY <1>1, <1>4, <1>5, <2>1, LongerBy
<1>7. PICK left \in VerifyJobs : left.cands = <<>> /\ current' = <<left>>
  <2>1. <<>> \in Seq(Cands) /\ setting \in Settings
    BY <1>2 DEF HitInv, Inv, Types, ManagerOK
  <2>2. PICK left : left = [job EXCEPT !.cands = <<>>]
    OBVIOUS
  <2>3. left \in VerifyJobs /\ left.cands = <<>> /\ current' = <<left>>
    BY <1>1, <1>3, <1>4, <2>1, <2>2, JobWith
  <2>. QED  BY <2>3
<1>8. FlowOK'
  <2>1. results' \in Seq(DoneBy(processor_threads'[d'].kind))
    BY <1>1, <1>2 DEF FlowOK, Thread
  <2>. QED  BY <1>1, <1>2, <1>6, <1>7, <2>1, FlowParts DEF FlowOK
<1>9. NotPut' \subseteq NotPut
  <2>1. Ahead' \subseteq Ahead \cup {left}
    <3>1. processor_threads'[d'].kind = "search" => Elems(results') \subseteq Ahead
      BY <1>1, AheadFacts DEF Thread
    <3>2. Elems(current') = {left}
      BY <1>7, ElemsOfFew
    <3>3. PICK S : S = Ahead \cup {left}
      OBVIOUS
    <3>4. Ahead \subseteq S /\ left \in S
      BY <3>3
    <3>5. Ahead' \subseteq S
      BY <1>1, <3>1, <3>2, <3>4, AheadFacts, AheadWithin
    <3>. QED  BY <3>3, <3>5
  <2>2. Elems(left.cands) = {}
    BY <1>7, ElemsOfFew
  <2>. QED  BY <2>1, <2>2 DEF NotPut
<1>10. EndsOK'
  BY <1>1, <1>2, EndsKept
<1>. QED  BY <1>1, <1>2, <1>8, <1>9, <1>10, FlowKept DEF CountOK

LEMMA EndPutFlow ==
    ASSUME FlowInv, EndPut
    PROVE  FlowInv'
<1>1. /\ UNCHANGED <<setting, fate, sjobs, vjobs, completed_jobs, candidate_count,
                     candidate_limit_reached, processor, processor_threads, d, results, live>>
      /\ dpc' = "put" /\ current' = <<>>
  BY DEF EndPut, input, queues, tallies, engines, main
<1>2. FlowOK /\ EndsOK /\ HitInv /\ HitInv'
  BY EndPutHit DEF FlowInv
<1>3. results' \in Seq(DoneBy(processor_threads'[d'].kind))
      /\ (processor_threads'[d'].kind = "search" => Elems(results') \subseteq Ahead)
  BY <1>1, <1>2, AheadFacts DEF FlowOK, Thread
<1>4. FlowOK'
  BY <1>1, <1>2, <1>3, FlowParts DEF FlowOK
<1>5. Ahead' \subseteq Ahead
  BY <1>1, <1>3, AheadFacts, AheadWithin
<1>6. EndsOK'
  BY <1>1, <1>2, EndsKept
<1>. QED  BY <1>1, <1>2, <1>4, <1>5, <1>6, Unmoved, FlowKept

LEMMA ReportFlow ==
    ASSUME FlowInv, Report
    PROVE  FlowInv'
<1>1. /\ UNCHANGED <<setting, fate, sjobs, vjobs, candidate_count, candidate_limit_reached,
                     processor, processor_threads, d, results, current, dpc, live>>
      /\ completed_jobs' = completed_jobs
            \/ (completed_jobs # <<>> /\ completed_jobs' = Front(completed_jobs))
  BY DEF Report, input, tallies, flags, engines, dispatcher
<1>2. FlowOK /\ EndsOK /\ HitInv /\ HitInv'
  BY ReportHit DEF FlowInv
<1>3. completed_jobs' \in Seq(Answers)
  <2>1. completed_jobs \in Seq(Answers)
    BY <1>2 DEF FlowOK
  <2>. QED  BY <1>1, <2>1, EndsOf
<1>4. results' \in Seq(DoneBy(processor_threads'[d'].kind))
      /\ (processor_threads'[d'].kind = "search" => Elems(results') \subseteq Ahead)
  BY <1>1, <1>2, AheadFacts DEF FlowOK, Thread
<1>5. FlowOK'
  BY <1>1, <1>2, <1>3, <1>4, FlowParts DEF FlowOK
<1>6. Ahead' \subseteq Ahead
  BY <1>1, <1>4, AheadFacts, AheadWithin
<1>7. EndsOK'
  BY <1>1, <1>2, EndsKept
<1>. QED  BY <1>1, <1>2, <1>5, <1>6, <1>7, Unmoved, FlowKept

(* The candidates of a job are among those of the place where it is. *)
LEMMA InJobs ==
    ASSUME NEW jobs, NEW job \in Elems(jobs)
    PROVE  Elems(job.cands) \subseteq In(CandsOf(jobs))
<1>1. PICK n \in DOMAIN jobs : job = jobs[n]
  BY DEF Elems
<1>2. PICK place : place = CandsOf(jobs)
  OBVIOUS
<1>3. DOMAIN place = DOMAIN jobs /\ place[n] = job.cands
  BY <1>1, <1>2 DEF CandsOf
<1>4. \A k \in DOMAIN job.cands : job.cands[k] \in In(place)
  BY <1>3, InFacts
<1>. QED  BY <1>2, <1>4 DEF Elems

LEMMA InEngines ==
    ASSUME EnginesOK, NEW t \in Engines, processor_threads[t].state = "busy"
    PROVE  Elems(processor_threads[t].job[1].cands) \subseteq In(Held["engines"])
<1>1. PICK job : processor_threads[t].job = <<job>> /\ DOMAIN processor_threads = Engines
  BY DEF EnginesOK
<1>2. <<job>> # <<>> /\ <<job>>[1] = job
  OBVIOUS
<1>3. PICK place : place = Held["engines"]
  OBVIOUS
<1>4. t \in DOMAIN place /\ place[t] = job.cands
  <2>1. place = [u \in Engines |-> IF processor_threads[u].job = <<>> THEN <<>>
                                   ELSE processor_threads[u].job[1].cands]
    BY <1>1, <1>3, PlacesOf
  <2>. QED  BY <1>1, <1>2, <2>1
<1>5. \A k \in DOMAIN job.cands : job.cands[k] \in In(place)
  BY <1>4, InFacts
<1>. QED  BY <1>1, <1>2, <1>3, <1>5 DEF Elems

(* The first candidate of the search that is being put is in no other, and  *)
(* once it is put, in none.                                                 *)
LEMMA PutOnce ==
    ASSUME FlowInv, PutCandidate
    PROVE  \E job \in Searches, left \in Searches, c \in NotPut :
               /\ current = <<job>> /\ current' = <<left>> /\ job.cands # <<>>
               /\ c = Head(job.cands) /\ c \in Cands /\ c \in DOMAIN fate
               /\ NotPut' \subseteq NotPut /\ c \notin NotPut'
<1>1. /\ UNCHANGED <<setting, fate, sjobs, processor, processor_threads, d, results>>
      /\ dpc = "candidates" /\ current[1].cands # <<>>
      /\ current' = [current EXCEPT ![1].cands = Tail(@)]
  BY DEF PutCandidate, input, engines, main
<1>2. FlowOK /\ HitInv /\ Apart(Held) /\ EnginesOK /\ setting \in Settings /\ d \in Engines
  BY DEF FlowInv, HitInv, Inv, Types, ManagerOK, DispatcherOK
<1>3. PICK job \in Searches : current = <<job>>
  BY <1>1, <1>2 DEF FlowOK
<1>4. job \in SearchJobs /\ current[1] = job /\ Elems(job.cands) \subseteq DOMAIN fate
  BY <1>3 DEF Searches
<1>5. PICK x \in Seq(Cands) : x = job.cands /\ x # <<>>
  BY <1>1, <1>4 DEF SearchJobs
<1>6. PICK c \in Cands : c = Head(x) /\ c \in Elems(x)
  BY <1>5, EndsOf, ElemsOf
<1>7. PICK rest \in Seq(Cands) : /\ rest = Tail(x) /\ Elems(rest) \subseteq Elems(x)
                                 /\ Len(rest) <= Len(x)
  <2>1. Tail(x) \in Seq(Cands) /\ Elems(Tail(x)) \subseteq Elems(x)
        /\ Len(Tail(x)) = Len(x) - 1 /\ Len(x) \in Nat
    BY <1>5, EndsOf, ElemsOf, LenProperties
  <2>2. Len(Tail(x)) <= Len(x)
    BY <2>1
  <2>. QED  BY <2>1, <2>2
<1>8. PICK left : left = [job EXCEPT !.cands = rest]
  OBVIOUS
<1>9. left \in SearchJobs /\ left.cands = rest /\ current' = <<left>>
  <2>1. current' = [current EXCEPT ![1].cands = rest]
    BY <1>1, <1>3, <1>4, <1>5, <1>7
  <2>2. left.cands = rest /\ current' = <<left>>
    BY <1>2, <1>3, <1>4, <1>8, <2>1, JobWith
  <2>3. left \in SearchJobs
    BY <1>2, <1>4, <1>5, <1>7, <1>8, JobWith
  <2>. QED  BY <2>2, <2>3
<1>10. left \in Searches
  BY <1>4, <1>5, <1>7, <1>9 DEF Searches
<1>11. job \in Ahead
  BY <1>1, <1>3, AheadFacts, ElemsOfFew
<1>12. c \notin Elems(rest)
  <2>1. With(<<x>>, <<rest>>, <<c>>)
    BY <1>5, <1>6, <1>7, FirstCandidate
  <2>2. Once(<<x>>)
    <3>1. CandsOf(current) = <<x>> /\ Held["current"] = CandsOf(current) /\ "current" \in Places
      BY <1>3, <1>5, CandsOfOne, PlacesOf DEF Places
    <3>. QED  BY <1>2, <3>1 DEF Apart
  <2>3. c \notin In(<<rest>>)
    BY <2>1, <2>2, OneCandidate DEF With
  <2>. QED  BY <2>3, OneList DEF Elems
<1>13. c \in In(Held["current"])
  <2>1. job \in Elems(current)
    BY <1>3, ElemsOfFew
  <2>. QED  BY <1>5, <1>6, <2>1, InJobs, PlacesOf
<1>14. \A p \in Places : p # "current" => c \notin In(Held[p])
  BY <1>2, <1>13 DEF Apart, Places
<1>15. PICK S : S = {j \in Ahead \cup {left} : c \notin Elems(j.cands)}
  OBVIOUS
<1>16. Ahead' \subseteq S
  <2>1. Elems(sjobs') \subseteq S
    BY <1>1, <1>14, <1>15, AheadFacts, InJobs, PlacesOf DEF Places
  <2>2. Elems(processor'["search"].jobs) \subseteq S
    BY <1>1, <1>14, <1>15, AheadFacts, InJobs, PlacesOf DEF Places
  <2>3. Elems(processor'["search"].done) \subseteq S
    BY <1>1, <1>14, <1>15, AheadFacts, InJobs, PlacesOf DEF Places
  <2>4. \A t \in Engines :
           processor_threads'[t].kind = "search" /\ processor_threads'[t].state = "busy"
              => processor_threads'[t].job[1] \in S
    BY <1>1, <1>2, <1>14, <1>15, AheadFacts, InEngines DEF Places
  <2>5. processor_threads'[d'].kind = "search" => Elems(results') \subseteq S
    BY <1>1, <1>14, <1>15, AheadFacts, InJobs, PlacesOf DEF Places, Thread
  <2>6. Elems(current') \subseteq S
    BY <1>9, <1>12, <1>15, ElemsOfFew
  <2>. QED  BY <1>1, <2>1, <2>2, <2>3, <2>4, <2>5, <2>6, AheadWithin
<1>17. NotPut' \subseteq NotPut /\ c \notin NotPut'
  <2>1. \A j \in Ahead' : (j \in Ahead \/ j = left) /\ c \notin Elems(j.cands)
    BY <1>15, <1>16
  <2>2. Elems(left.cands) \subseteq Elems(job.cands)
    BY <1>5, <1>7, <1>9
  <2>. QED  BY <1>11, <2>1, <2>2 DEF NotPut
<1>18. c \in NotPut /\ c \in DOMAIN fate
  BY <1>4, <1>5, <1>6, <1>11 DEF NotPut
<1>. QED  BY <1>3, <1>5, <1>6, <1>9, <1>10, <1>17, <1>18

LEMMA PutCandidateFlow ==
    ASSUME FlowInv, PutCandidate
    PROVE  FlowInv'
<1>1. /\ UNCHANGED <<setting, fate, sjobs, candidate_limit_reached, processor,
                     processor_threads, d, results, live>>
      /\ dpc = "candidates"
  BY DEF PutCandidate, input, flags, engines, main
<1>2. FlowOK /\ CountOK /\ FateOK /\ EndsOK /\ HitInv /\ HitInv'
  BY PutCandidateHit DEF FlowInv
<1>3. candidate_count \in Nat
  BY <1>2 DEF HitInv, Inv, Types, ManagerOK
<1>4. PICK job \in Searches, left \in Searches, c \in NotPut :
          /\ current = <<job>> /\ current' = <<left>>
          /\ c = Head(job.cands) /\ c \in Cands /\ c \in DOMAIN fate
          /\ NotPut' \subseteq NotPut /\ c \notin NotPut'
  BY PutOnce
<1>5. \/ /\ fate[c] = "malformed" /\ dpc' = "failed"
         /\ UNCHANGED <<vjobs, completed_jobs, candidate_count>>
      \/ UNCHANGED <<dpc, vjobs, completed_jobs, candidate_count>>
      \/ /\ fate[c] \notin {"malformed", "filtered"} /\ UNCHANGED dpc
         /\ \/ vjobs' = Append(vjobs, VerifyJob(c)) /\ UNCHANGED completed_jobs
            \/ /\ ~verify \/ candidate_limit_reached
               /\ completed_jobs' = Append(completed_jobs, <<c>>) /\ UNCHANGED vjobs
         /\ candidate_count' = candidate_count + 1
  <2>1. Head(current[1].cands) = c
    BY <1>4
  <2>. QED  BY <2>1 DEF PutCandidate
<1>6. results' \in Seq(DoneBy(processor_threads'[d'].kind))
  BY <1>1, <1>2 DEF FlowOK, Thread
<1>7. dpc' \in {"candidates", "failed"}
  BY <1>1, <1>5
<1>8. ASSUME vjobs' \in Seq(Queued), completed_jobs' \in Seq(Answers)
      PROVE  FlowOK'
  BY <1>1, <1>2, <1>4, <1>6, <1>7, <1>8, FlowParts DEF FlowOK
<1>9. EndsOK'
  <2>1. CASE fate[c] = "malformed" /\ dpc' = "failed"
    BY <1>1, <1>2, <1>4, <2>1, SettingFrame DEF EndsOK
  <2>2. CASE UNCHANGED dpc
    BY <1>1, <1>2, <2>2, EndsKept
  <2>. QED  BY <1>5, <2>1, <2>2
<1>10. CASE UNCHANGED <<vjobs, completed_jobs, candidate_count>>
  <2>1. FlowOK'
    BY <1>2, <1>8, <1>10 DEF FlowOK
  <2>. QED  BY <1>1, <1>2, <1>4, <1>9, <1>10, <2>1, FlowKept DEF CountOK
<1>11. CASE /\ fate[c] \notin {"malformed", "filtered"}
            /\ \/ vjobs' = Append(vjobs, VerifyJob(c)) /\ UNCHANGED completed_jobs
               \/ /\ ~verify \/ candidate_limit_reached
                  /\ completed_jobs' = Append(completed_jobs, <<c>>) /\ UNCHANGED vjobs
            /\ candidate_count' = candidate_count + 1
  <2>1. c \in Passing
    BY <1>2, <1>4, <1>11 DEF FateOK, Passing, Results!Passing
  <2>2. vjobs' \in Seq(Queued)
    <3>1. VerifyJob(c) \in Queued
      <4>1. <<c>> \in Seq(Cands)
        BY <1>4
      <4>. QED  BY <2>1, <4>1 DEF VerifyJob, Queued, VerifyJobs
    <3>2. vjobs \in Seq(Queued)
      BY <1>2 DEF FlowOK
    <3>. QED  BY <1>11, <3>1, <3>2, LongerBy
  <2>3. completed_jobs' \in Seq(Answers)
    <3>1. ~verify \/ candidate_limit_reached => <<c>> \in Answers
      <4>1. ~verify \/ candidate_limit_reached => ~setting.verify \/ Results!Exceeded
        BY <1>2 DEF CountOK, verify
      <4>. QED  BY <2>1, <4>1 DEF Answers, Reportable, Results!Reportable, Passing
    <3>2. completed_jobs \in Seq(Answers)
      BY <1>2 DEF FlowOK
    <3>. QED  BY <1>11, <3>1, <3>2, LongerBy
  <2>4. CountOK'
    <3>1. Passing' = Passing /\ Results!Exceeded' = Results!Exceeded /\ FateOK'
      BY <1>1, <1>2, FateFrame
    <3>2. PICK old, new : old = Passing \ NotPut /\ new = Passing \ NotPut'
      OBVIOUS
    <3>3. IsFiniteSet(old) /\ Cardinality(old) \in Nat /\ c \notin old
          /\ candidate_count <= Cardinality(old)
      BY <1>2, <1>4, <3>2, PassingFacts DEF CountOK
    <3>4. IsFiniteSet(new) /\ old \cup {c} \in SUBSET new
      <4>1. IsFiniteSet(Passing)
        BY <1>2, PassingFacts
      <4>2. new \in SUBSET Passing
        BY <3>2
      <4>. QED  BY <1>4, <2>1, <3>2, <4>1, <4>2, FS_Subset
    <3>5. Cardinality(old \cup {c}) = Cardinality(old) + 1
      BY <3>3, FS_AddElement
    <3>6. Cardinality(old \cup {c}) <= Cardinality(new) /\ Cardinality(new) \in Nat
      BY <3>4, FS_Subset, FS_CardinalityType
    <3>7. candidate_count' <= Cardinality(new)
      BY <1>3, <1>11, <3>3, <3>5, <3>6
    <3>. QED  BY <1>1, <1>2, <3>1, <3>2, <3>7 DEF CountOK
  <2>5. FateOK'
    BY <1>1, <1>2, FateFrame
  <2>. QED  BY <1>2, <1>8, <1>9, <2>2, <2>3, <2>4, <2>5 DEF FlowInv
<1>. QED  BY <1>5, <1>10, <1>11

LEMMA NextFlow ==
    ASSUME FlowInv, [Next]_vars
    PROVE  FlowInv'
<1>1. ASSUME NEW t \in Engines, EngineStep(t) \/ EngineFails(t)
      PROVE  FlowInv'
  BY <1>1, StartJobFlow, FinishJobFlow, EngineStopsFlow, EngineFailsFlow DEF EngineStep
<1>2. CASE DispatcherStep
  BY <1>2, StartRoundFlow, DispatchFlow, CollectFlow, StartPutFlow, PutCandidateFlow,
     PutVerifiedFlow, EndPutFlow, NextThreadFlow DEF DispatcherStep
<1>3. CASE MainStep \/ Interrupt
  BY <1>3, MainFlow, ReportFlow DEF MainStep
<1>4. CASE Done \/ UNCHANGED vars
  <2>1. UNCHANGED vars
    BY <1>4 DEF Done
  <2>2. HitInv' /\ EndsOK
    BY <2>1, NextHit DEF FlowInv
  <2>3. UNCHANGED <<setting, fate, sjobs, vjobs, completed_jobs, candidate_count,
                    candidate_limit_reached, processor, processor_threads, results, current,
                    d, dpc, live>>
    BY <2>1 DEF vars, input, manager, queues, tallies, flags, engines, dispatcher
  <2>4. EndsOK'
    BY <2>2, <2>3, EndsKept
  <2>. QED  BY <2>2, <2>3, <2>4, FlagsFlow
<1>. QED  BY <1>1, <1>2, <1>3, <1>4 DEF Next

-----------------------------------------------------------------------------
(* What is reported next is reportable and has not been reported. *)
LEMMA ReportImplements ==
    ASSUME FlowInv, Report
    PROVE  Results!Report \/ UNCHANGED Results!vars
<1>1. UNCHANGED <<setting, fate, ret>> /\ mpc = "body" /\ mpc' = "checks"
  BY DEF Report, input
<1>2. FlowOK /\ Apart(Held) /\ reported \in Seq(Cands)
  BY DEF FlowInv, HitInv, HandsOK
<1>3. CASE UNCHANGED reported
  BY <1>1, <1>3 DEF Results!vars, SearchEnded
<1>4. CASE completed_jobs # <<>> /\ reported' = reported \o Last(completed_jobs)
  <2>1. completed_jobs \in Seq(Answers)
    BY <1>2 DEF FlowOK
  <2>2. PICK x \in Answers : x = Last(completed_jobs) /\ x \in Elems(completed_jobs)
    BY <1>4, <2>1, EndsOf, ElemsOf
  <2>3. CASE x = <<>>
    <3>1. reported' = reported
      BY <1>2, <1>4, <2>2, <2>3, ConcatEmptySeq
    <3>. QED  BY <1>3, <3>1
  <2>4. CASE x # <<>>
    <3>1. PICK c \in Reportable : x = <<c>>
      BY <2>2, <2>4 DEF Answers
    <3>2. reported' = Append(reported, c)
      BY <1>2, <1>4, <2>2, <3>1, AppendIsConcat
    <3>3. c \in In(Held["completed_jobs"])
      <4>1. PICK n \in DOMAIN completed_jobs : completed_jobs[n] = <<c>>
        BY <2>2, <3>1 DEF Elems
      <4>2. 1 \in DOMAIN <<c>> /\ <<c>>[1] = c
        OBVIOUS
      <4>. QED  BY <4>1, <4>2, InFacts, PlacesOf
    <3>4. c \notin In(Held["reported"])
      BY <1>2, <3>3 DEF Apart, Places
    <3>5. c \notin {reported[n] : n \in DOMAIN reported}
      BY <3>4, PlacesOf, OneList
    <3>. QED  BY <1>1, <3>1, <3>2, <3>5 DEF Results!Report, Reportable, SearchEnded
  <2>. QED  BY <2>3, <2>4
<1>. QED  BY <1>3, <1>4 DEF Report

LEMMA ReturnImplements ==
    ASSUME FlowInv, CheckCounts \/ Checks
    PROVE  Results!Return \/ UNCHANGED Results!vars
<1>1. UNCHANGED <<setting, fate, reported>> /\ mpc \in {"counts", "candidates", "verified", "checks"}
  BY DEF CheckCounts, Checks, input
<1>2. CountOK /\ EndsOK
  BY DEF FlowInv
<1>3. \/ mpc' \in {"body", "working", "candidates", "verified"} /\ ret' = ret
      \/ Return(0)
      \/ Return(2) /\ candidate_limit_reached
      \/ Return(1) /\ live /\ ~dispatcherAlive
  BY DEF CheckCounts, Checks
<1>4. CASE mpc' \in {"body", "working", "candidates", "verified"} /\ ret' = ret
  BY <1>1, <1>4 DEF Results!vars, SearchEnded
<1>5. CASE Return(0)
  BY <1>1, <1>5 DEF Return, Results!Return, SearchEnded
<1>6. CASE Return(2) /\ candidate_limit_reached
  <2>1. Results!Exceeded
    BY <1>2, <1>6 DEF CountOK
  <2>. QED  BY <1>1, <1>6, <2>1 DEF Return, Results!Return, SearchEnded
<1>7. CASE Return(1) /\ live /\ ~dispatcherAlive
  <2>1. \E c \in DOMAIN fate : fate[c] = "malformed"
    BY <1>2, <1>7 DEF EndsOK, dispatcherAlive
  <2>. QED  BY <1>1, <1>7, <2>1 DEF Return, Results!Return, SearchEnded
<1>. QED  BY <1>3, <1>4, <1>5, <1>6, <1>7

LEMMA StepImplements ==
    ASSUME FlowInv, [Next]_vars
    PROVE  [Results!Next]_(Results!vars)
<1>1. CASE \/ \E t \in Engines : EngineStep(t) \/ EngineFails(t)
           \/ DispatcherStep \/ Done \/ UNCHANGED vars
  <2>1. UNCHANGED <<setting, fate, mpc, ret, reported>>
    BY <1>1 DEF EngineStep, StartJob, FinishJob, EngineStops, EngineFails, DispatcherStep,
                StartRound, Dispatch, Collect, StartPut, PutCandidate, PutVerified, EndPut,
                NextThread, Done, vars, input, main
  <2>. QED  BY <2>1 DEF Results!vars, SearchEnded
<1>2. CASE CheckWorking \/ CheckCompleted
  <2>1. /\ UNCHANGED <<setting, fate, ret, reported>>
        /\ mpc \in {"working", "completed"} /\ mpc' \in {"body", "completed", "counts"}
    BY <1>2 DEF CheckWorking, CheckCompleted, input
  <2>. QED  BY <2>1 DEF Results!vars, SearchEnded
<1>3. CASE CheckCounts \/ Checks
  BY <1>3, ReturnImplements DEF Results!Next
<1>4. CASE Report
  BY <1>4, ReportImplements DEF Results!Next
<1>5. CASE Interrupt
  BY <1>5 DEF Interrupt, input, Results!Next, Results!Interrupt, SearchEnded
<1>. QED  BY <1>1, <1>2, <1>3, <1>4, <1>5 DEF Next, MainStep

LEMMA InitImplements == Init => Results!Init
<1>. SUFFICES ASSUME Init PROVE Results!Init
  OBVIOUS
<1>1. setting \in Settings /\ mpc = "working" /\ ret = 0 /\ reported = <<>>
  BY DEF Init
<1>2. setting.verify \in BOOLEAN /\ setting.limit \in Nat
  BY <1>1, SettingsAssumption
<1>. QED  BY <1>1, <1>2 DEF Results!Init, SearchEnded

(* A search, with its threads, queues and flags, does what SearchResults    *)
(* promises: it hands over each file once, and only those that passed the   *)
(* filter and, unless the limit is exceeded, the verification; and it       *)
(* returns 1 and 2 for their reasons only.                                  *)
THEOREM SearchImplementsResults == Spec => ImplementsSearchResults
<1>1. Init => FlowInv /\ Results!Init
  BY InitFlow, InitImplements
<1>2. FlowInv /\ [Next]_vars => FlowInv' /\ [Results!Next]_(Results!vars)
  BY NextFlow, StepImplements
<1>. QED  BY <1>1, <1>2, PTL DEF Spec, Results!Spec, ImplementsSearchResults
=============================================================================

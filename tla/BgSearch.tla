------------------------------ MODULE BgSearch ------------------------------
(***************************************************************************)
(* A search: biggrep.bgsearch.search, its BgSearchJobManager, and the      *)
(* jobdispatch threads under it.  Three kinds of threads: the one that     *)
(* called search (main), the JobDispatcher, and the ProcessorEngines, of   *)
(* which the searching ones share one Processor and the verifying ones     *)
(* another.  Main and the dispatcher share the manager without a lock;     *)
(* under CPython's interpreter lock a step is what one of them does        *)
(* between two points where the other could tell the difference.           *)
(*                                                                         *)
(* A candidate is <<i, k>>, the k-th that bgparse finds in index i.  Its   *)
(* fate: a hit or a miss of the verification; filtered out by its          *)
(* metadata; or malformed, when the metadata cannot be taken apart.        *)
(***************************************************************************)
EXTENDS JobDispatch, Integers, FiniteSetsExt

CONSTANTS
    NumIndexes,        \* index files
    numprocs,          \* -n
    Settings           \* what a search may be called with, and meet

ASSUME CountsAssumption == NumIndexes \in Nat \ {0} /\ numprocs \in Nat \ {0}

(* verify: -v or -y; limit: -l, 0 for none; throttleat: -t, 0 for never;    *)
(* slack: the 500 of throttleat-500, in the measure of throttleat;          *)
(* failing: whether do() may raise, since bgparse cannot be started;        *)
(* interruptible: whether the user may stop the search; fates: what may     *)
(* become of a candidate; candidates bounds how many one index has, totals  *)
(* says how many all indexes may have together.                             *)
ASSUME SettingsAssumption ==
    Settings \subseteq [verify : BOOLEAN, limit : Nat, throttleat : Nat, slack : Nat,
                        failing : BOOLEAN, interruptible : BOOLEAN,
                        fates : SUBSET {"hit", "miss", "filtered", "malformed"},
                        candidates : Nat, totals : SUBSET Nat]

VARIABLES
    setting,                                 \* one of Settings: fixed
    found, fate,                             \* candidates per index, their fates: fixed
    sjobs, vjobs, completed_jobs,            \* BgSearchJobManager ...
    candidate_count, verify_checked_count, searched_count,
    candidate_limit_reached, working,
    processor,                               \* the two Processors
    processor_threads,                       \* JobDispatcher: the engines ...
    live, dpc, d, results, current,          \* where it is and what it is putting
    mpc, ret, reported,                      \* main: results_callback's files ...
    parsing_halted, enabled_verifiers,
    counted                                  \* what the loop's condition has just read

input == <<setting, found, fate>>
queues == <<sjobs, vjobs, completed_jobs>>
tallies == <<candidate_count, verify_checked_count, searched_count>>
flags == <<candidate_limit_reached, working>>
manager == <<queues, tallies, flags>>
engines == <<processor, processor_threads>>
dispatcher == <<live, dpc, d, results, current>>
throttle == <<parsing_halted, enabled_verifiers>>
main == <<mpc, ret, reported, throttle, counted>>
vars == <<input, manager, engines, dispatcher, main>>

Kinds == {"search", "verify"}
Candidates == {<<i, k>> : i \in 1 .. NumIndexes, k \in 1 .. setting.candidates}
CandidatesOf(i) == [k \in 1 .. found[i] |-> <<i, k>>]

(* a job and its result: the index or file, and the candidates in it *)
SearchJob(i) == [kind |-> "search", cands |-> CandidatesOf(i)]
VerifyJob(c) == [kind |-> "verify", cands |-> <<c>>]

(* Mutant of Result: what bgverify prints is not looked at *)
UncheckedResult(job) == job

Result(job) ==
    IF job.kind = "search" \/ fate[job.cands[1]] = "hit" THEN job
    ELSE [job EXCEPT !.cands = <<>>]

verify == setting.verify
throttleat == setting.throttleat
Slack == setting.slack
limit == IF verify THEN setting.limit ELSE 0

(* search() adds a searching and, if it verifies, a verifying engine for    *)
(* each i in range(numprocs); the position of the i-th in processor_threads *)
EngineOf(kind, i) ==
    IF ~verify THEN i + 1 ELSE IF kind = "search" THEN 2*i + 1 ELSE 2*i + 2

Engines == 1 .. (IF verify THEN 2 ELSE 1) * numprocs

(* the verifying engines start paused; with more than one process, the      *)
(* first searching engine makes room for the first verifying one            *)
FirstEngines ==
    [t \in Engines |->
        LET kind == IF verify /\ t % 2 = 0 THEN "verify" ELSE "search"
            first == t = EngineOf(kind, 0)
        IN  [NewEngine(kind) EXCEPT !.paused =
                IF kind = "search" THEN first /\ numprocs > 1
                ELSE ~(first /\ numprocs > 1)]]

Init ==
    /\ setting \in Settings
    /\ found \in [1 .. NumIndexes -> 0 .. setting.candidates]
    /\ MapThenSumSet(LAMBDA i : found[i], 1 .. NumIndexes) \in setting.totals
    /\ fate \in [{c \in Candidates : c[2] <= found[c[1]]} -> setting.fates]
    /\ sjobs = [i \in 1 .. NumIndexes |-> SearchJob(i)]
    /\ vjobs = <<>> /\ completed_jobs = <<>>
    /\ candidate_count = 0 /\ verify_checked_count = 0 /\ searched_count = 0
    /\ candidate_limit_reached = FALSE /\ working = TRUE
    /\ processor = [kind \in Kinds |-> NewProcessor]
    /\ processor_threads = FirstEngines
    /\ live = TRUE /\ dpc = "top" /\ d = 1 /\ results = <<>> /\ current = <<>>
    /\ mpc = "working" /\ ret = 0 /\ reported = <<>>
    /\ parsing_halted = FALSE /\ enabled_verifiers = 1 /\ counted = 0

-----------------------------------------------------------------------------
(* ProcessorEngine.run *)

StartJob(t) ==
    LET e == processor_threads[t] IN
    /\ e.state = "loop" /\ e.live /\ ~e.paused /\ HasJob(processor[e.kind])
    /\ processor_threads' = [processor_threads EXCEPT
           ![t].state = "busy", ![t].job = <<NextJob(processor[e.kind])>>]
    /\ processor' = [processor EXCEPT ![e.kind] = JobStarted(@)]
    /\ UNCHANGED <<input, manager, dispatcher, main>>

FinishJob(t) ==
    LET e == processor_threads[t] IN
    /\ e.state = "busy"
    /\ processor_threads' = [processor_threads EXCEPT ![t].state = "loop", ![t].job = <<>>]
    /\ processor' = [processor EXCEPT ![e.kind] = JobFinished(@, Result(e.job[1]))]
    /\ UNCHANGED <<input, manager, dispatcher, main>>

EngineStops(t) ==
    LET e == processor_threads[t] IN
    /\ e.state = "loop" /\ ~e.live
    /\ processor_threads' = [processor_threads EXCEPT ![t].state = "stopped"]
    /\ UNCHANGED <<input, manager, processor, dispatcher, main>>

(* do() raises something else than NoWork, which nothing catches *)
EngineFails(t) ==
    LET e == processor_threads[t] IN
    /\ setting.failing /\ e.state = "busy"
    /\ processor_threads' = [processor_threads EXCEPT ![t].state = "failed", ![t].job = <<>>]
    /\ UNCHANGED <<input, manager, processor, dispatcher, main>>

-----------------------------------------------------------------------------
(* JobDispatcher.run *)

Silenced == [t \in DOMAIN processor_threads |-> [processor_threads[t] EXCEPT !.live = FALSE]]

(* while live: another round over the threads; then signal_children_exit and *)
(* the same round without handing out jobs                                   *)
StartRound ==
    /\ dpc = "top"
    /\ dpc' = IF live THEN "dispatch" ELSE "drain"
    /\ processor_threads' = IF live THEN processor_threads ELSE Silenced
    /\ d' = 1
    /\ UNCHANGED <<input, manager, processor, live, results, current, main>>

Thread == processor_threads[d]

(* a job for the thread's processor, if it has none; getJob pops the newest *)
Dispatch ==
    /\ dpc = "dispatch"
    /\ LET wanted == needsJob(processor[Thread.kind]) /\ isAlive(Thread)
       IN  IF wanted /\ Thread.kind = "search" /\ sjobs # <<>>
           THEN /\ sjobs' = Front(sjobs)
                /\ processor' = [processor EXCEPT !["search"] = JobAdded(@, Last(sjobs))]
                /\ UNCHANGED vjobs
           ELSE IF wanted /\ Thread.kind = "verify" /\ vjobs # <<>>
           THEN /\ vjobs' = Front(vjobs)
                /\ processor' = [processor EXCEPT !["verify"] = JobAdded(@, Last(vjobs))]
                /\ UNCHANGED sjobs
           ELSE UNCHANGED <<sjobs, vjobs, processor>>
    /\ dpc' = "collect"
    /\ UNCHANGED <<input, completed_jobs, tallies, flags, processor_threads,
                   live, d, results, current, main>>

(* processResults: the results of the thread's processor are put, in order *)
Collect ==
    /\ dpc \in {"collect", "drain"}
    /\ results' = processor[Thread.kind].done
    /\ processor' = [processor EXCEPT ![Thread.kind] = ResultsTaken(@)]
    /\ dpc' = "put"
    /\ UNCHANGED <<input, manager, processor_threads, live, d, current, main>>

(* putJob, up to the first candidate: the count of what was done, and for a *)
(* search the look at the limit, before its own candidates are counted      *)
StartPut ==
    /\ dpc = "put" /\ results # <<>>
    /\ current' = <<Head(results)>> /\ results' = Tail(results)
    /\ working' = TRUE
    /\ IF Head(results).kind = "search"
       THEN /\ searched_count' = searched_count + 1
            /\ candidate_limit_reached' =
                   (candidate_limit_reached \/ (limit > 0 /\ candidate_count > limit))
            /\ UNCHANGED verify_checked_count
            /\ dpc' = "candidates"
       ELSE /\ verify_checked_count' = verify_checked_count + 1
            /\ UNCHANGED <<searched_count, candidate_limit_reached>>
            /\ dpc' = "verified"
    /\ UNCHANGED <<input, queues, candidate_count, engines, live, d, main>>

(* Mutant of PutCandidate: everything is verified, whatever the limit *)
VerifyBeyondLimit ==
    /\ dpc = "candidates" /\ current[1].cands # <<>>
    /\ vjobs' = Append(vjobs, VerifyJob(Head(current[1].cands)))
    /\ candidate_count' = candidate_count + 1
    /\ current' = [current EXCEPT ![1].cands = Tail(@)]
    /\ UNCHANGED <<input, sjobs, completed_jobs, verify_checked_count, searched_count,
                   flags, engines, live, dpc, d, results, main>>

(* one candidate of a search: dropped, to be verified, or complete; what    *)
(* split_typeify raises ends the dispatcher                                 *)
PutCandidate ==
    /\ dpc = "candidates" /\ current[1].cands # <<>>
    /\ LET c == Head(current[1].cands)
       IN  CASE fate[c] = "malformed" ->
                    dpc' = "failed" /\ UNCHANGED <<vjobs, completed_jobs, candidate_count>>
             [] fate[c] = "filtered" ->
                    UNCHANGED <<dpc, vjobs, completed_jobs, candidate_count>>
             [] OTHER ->
                    /\ IF verify /\ ~candidate_limit_reached
                       THEN vjobs' = Append(vjobs, VerifyJob(c)) /\ UNCHANGED completed_jobs
                       ELSE completed_jobs' = Append(completed_jobs, <<c>>) /\ UNCHANGED vjobs
                    /\ candidate_count' = candidate_count + 1
                    /\ UNCHANGED dpc
    /\ current' = [current EXCEPT ![1].cands = Tail(@)]
    /\ UNCHANGED <<input, sjobs, verify_checked_count, searched_count, flags, engines,
                   live, d, results, main>>

(* a verified job is complete, with the file or without it *)
PutVerified ==
    /\ dpc = "verified"
    /\ completed_jobs' = Append(completed_jobs, current[1].cands)
    /\ current' = [current EXCEPT ![1].cands = <<>>]
    /\ dpc' = "candidates"
    /\ UNCHANGED <<input, sjobs, vjobs, tallies, flags, engines, live, d, results, main>>

EndPut ==
    /\ dpc = "candidates" /\ current[1].cands = <<>>
    /\ working' = FALSE
    /\ dpc' = "put" /\ current' = <<>>
    /\ UNCHANGED <<input, queues, tallies, candidate_limit_reached, engines, live, d,
                   results, main>>

Draining == \A t \in DOMAIN processor_threads : ~processor_threads[t].live

(* the next thread -- a failed one is first replaced -- or the next round;  *)
(* when draining, a thread still alive starts the round again               *)
NextThread ==
    /\ dpc = "put" /\ results = <<>>
    /\ IF Draining
       THEN /\ IF isAlive(Thread) THEN d' = 1 /\ dpc' = "drain"
               ELSE IF d < Len(processor_threads) THEN d' = d + 1 /\ dpc' = "drain"
               ELSE dpc' = "ended" /\ UNCHANGED d
            /\ UNCHANGED processor_threads
       ELSE /\ processor_threads' =
                   IF MustReplace(Thread)
                   THEN Append([processor_threads EXCEPT ![d].live = FALSE],
                               NewEngine(Thread.kind))
                   ELSE processor_threads
            /\ IF d < Len(processor_threads') THEN d' = d + 1 /\ dpc' = "dispatch"
               ELSE dpc' = "top" /\ UNCHANGED d
    /\ UNCHANGED <<input, manager, processor, live, results, current, main>>

dispatcherAlive == dpc \notin {"ended", "failed"}

-----------------------------------------------------------------------------
(* search: the loop's condition, one read after the other *)

Return(code) == mpc' = "returned" /\ ret' = code /\ live' = FALSE

CheckWorking ==
    /\ mpc = "working"
    /\ mpc' = IF working THEN "body" ELSE "completed"
    /\ UNCHANGED <<input, manager, engines, dispatcher, ret, reported,
                   throttle, counted>>

CheckCompleted ==
    /\ mpc = "completed"
    /\ mpc' = IF completed_jobs # <<>> THEN "body" ELSE "counts"
    /\ UNCHANGED <<input, manager, engines, dispatcher, ret, reported,
                   throttle, counted>>

Backlog == candidate_count - verify_checked_count

(* searched_count; if all is searched candidate_count, and after it         *)
(* verify_checked_count                                                     *)
CheckCounts ==
    /\ \/ /\ mpc = "counts" /\ searched_count # NumIndexes
          /\ mpc' = "body" /\ UNCHANGED <<ret, live, counted>>
       \/ /\ mpc = "counts" /\ searched_count = NumIndexes
          /\ IF verify THEN mpc' = "candidates" /\ UNCHANGED <<ret, live>> ELSE Return(0)
          /\ UNCHANGED counted
       \/ /\ mpc = "candidates"
          /\ mpc' = "verified" /\ counted' = candidate_count /\ UNCHANGED <<ret, live>>
       \/ /\ mpc = "verified"
          /\ IF counted = verify_checked_count THEN Return(0)
             ELSE mpc' = "body" /\ UNCHANGED <<ret, live>>
          /\ counted' = 0
    /\ UNCHANGED <<input, manager, engines, dpc, d, results, current, reported, throttle>>

(* getCompletedJob and results_callback *)
Report ==
    /\ mpc = "body"
    /\ IF completed_jobs = <<>> THEN UNCHANGED <<completed_jobs, reported>>
       ELSE /\ completed_jobs' = Front(completed_jobs)
            /\ reported' = reported \o Last(completed_jobs)
    /\ mpc' = "checks"
    /\ UNCHANGED <<input, sjobs, vjobs, tallies, flags, engines, dispatcher, ret,
                   throttle, counted>>

Pausing(kind, p) ==
    {EngineOf(kind, i) : i \in 0 .. numprocs - 1} \X {p}

SetPaused(changes) ==
    processor_threads' = [t \in DOMAIN processor_threads |->
        IF \E p \in BOOLEAN : <<t, p>> \in changes
        THEN [processor_threads[t] EXCEPT !.paused = CHOOSE p \in BOOLEAN : <<t, p>> \in changes]
        ELSE processor_threads[t]]

target_verifiers == numprocs - Len(sjobs)

(* Mutant of SearchAgain: the verifier that was running stays paused *)
OnlySearchAgain == SetPaused(Pausing("verify", TRUE) \cup Pausing("search", FALSE))

SearchAgain ==
    SetPaused((Pausing("verify", TRUE) \ {<<EngineOf("verify", 0), TRUE>>})
              \cup Pausing("search", FALSE) \cup {<<EngineOf("verify", 0), FALSE>>})

(* too many candidates wait: only verify; few enough again: search; else    *)
(* one more verifier for each process that has no index left to search      *)
Throttle ==
    IF parsing_halted
    THEN IF Backlog < throttleat - Slack
         THEN parsing_halted' = FALSE /\ SearchAgain /\ UNCHANGED enabled_verifiers
         ELSE UNCHANGED <<throttle, processor_threads>>
    ELSE IF throttleat > 0 /\ Backlog > throttleat
    THEN /\ parsing_halted' = TRUE /\ UNCHANGED enabled_verifiers
         /\ SetPaused(Pausing("search", TRUE) \cup Pausing("verify", FALSE))
    ELSE IF target_verifiers > 0 /\ target_verifiers > enabled_verifiers
    THEN /\ enabled_verifiers' = target_verifiers /\ UNCHANGED parsing_halted
         /\ SetPaused({EngineOf("verify", i) : i \in 0 .. target_verifiers - 1} \X {FALSE})
    ELSE UNCHANGED <<throttle, processor_threads>>

(* Mutant of Checks: the dispatcher is not looked at *)
ChecksOnlyLimit ==
    /\ mpc = "checks"
    /\ IF candidate_limit_reached
       THEN /\ Return(2)
            /\ UNCHANGED <<processor_threads, throttle>>
       ELSE /\ mpc' = "working" /\ UNCHANGED <<ret, live>>
            /\ IF verify THEN Throttle
               ELSE UNCHANGED <<processor_threads, throttle>>
    /\ UNCHANGED <<input, manager, processor, dpc, d, results, current, reported, counted>>

(* the rest of the loop's body *)
Checks ==
    /\ mpc = "checks"
    /\ IF candidate_limit_reached
       THEN /\ Return(2)
            /\ UNCHANGED <<processor_threads, throttle>>
       ELSE IF live /\ ~dispatcherAlive
       THEN /\ Return(1)
            /\ processor_threads' = Silenced
            /\ UNCHANGED throttle
       ELSE /\ mpc' = "working" /\ UNCHANGED <<ret, live>>
            /\ IF verify THEN Throttle
               ELSE UNCHANGED <<processor_threads, throttle>>
    /\ UNCHANGED <<input, manager, processor, dpc, d, results, current, reported, counted>>

(* Mutant of Interrupt: the dispatcher is not told *)
InterruptOnlyMain ==
    /\ setting.interruptible
    /\ mpc \notin {"returned", "interrupted"}
    /\ mpc' = "interrupted"
    /\ UNCHANGED <<input, manager, engines, dispatcher, ret, reported, throttle, counted>>

(* KeyboardInterrupt, anywhere in the loop: the dispatcher is told to stop  *)
(* and the exception goes on to the caller                                  *)
Interrupt ==
    /\ setting.interruptible
    /\ mpc \notin {"returned", "interrupted"}
    /\ mpc' = "interrupted" /\ live' = FALSE
    /\ UNCHANGED <<input, manager, engines, dpc, d, results, current, ret, reported,
                   throttle, counted>>

-----------------------------------------------------------------------------
EngineStep(t) == StartJob(t) \/ FinishJob(t) \/ EngineStops(t)

DispatcherStep ==
    StartRound \/ Dispatch \/ Collect \/ StartPut \/ PutCandidate \/ PutVerified
    \/ EndPut \/ NextThread

MainStep == CheckWorking \/ CheckCompleted \/ CheckCounts \/ Report \/ Checks

SearchEnded == mpc \in {"returned", "interrupted"}

Over ==
    /\ SearchEnded /\ ~dispatcherAlive
    /\ \A t \in DOMAIN processor_threads : ~isAlive(processor_threads[t])

Done == Over /\ UNCHANGED vars

Next ==
    \/ \E t \in Engines : EngineStep(t) \/ EngineFails(t)
    \/ DispatcherStep
    \/ MainStep
    \/ Interrupt
    \/ Done

(* a step of a thread always changes the variables that say where it is *)
Spec ==
    /\ Init /\ [][Next]_vars
    /\ \A t \in 1 .. 2 * numprocs : WF_processor_threads(t \in Engines /\ EngineStep(t))
    /\ WF_dispatcher(DispatcherStep) /\ WF_mpc(MainStep)

-----------------------------------------------------------------------------
(* Properties *)

(* Wherever candidates are, reported or on their way to be: for each place  *)
(* the sequence of its jobs, and of each job the candidates                 *)
CandsOf(jobs) == [n \in DOMAIN jobs |-> jobs[n].cands]

Held ==
    [sjobs |-> CandsOf(sjobs), vjobs |-> CandsOf(vjobs),
     searching |-> CandsOf(processor["search"].jobs),
     searched  |-> CandsOf(processor["search"].done),
     verifying |-> CandsOf(processor["verify"].jobs),
     verified  |-> CandsOf(processor["verify"].done),
     engines |-> [t \in DOMAIN processor_threads |->
                     IF processor_threads[t].job = <<>> THEN <<>>
                     ELSE processor_threads[t].job[1].cands],
     results |-> CandsOf(results), current |-> CandsOf(current),
     completed_jobs |-> completed_jobs, reported |-> <<reported>>]

Spots(held) ==
    UNION {UNION {{<<p, n, k>> : k \in DOMAIN held[p][n]} : n \in DOMAIN held[p]} :
              p \in DOMAIN held}

NothingFailed ==
    dpc # "failed" /\ \A t \in DOMAIN processor_threads : processor_threads[t].state # "failed"

(* However the engines that share a Processor, the dispatcher and main      *)
(* interleave, no candidate is ever in two places, so none is reported      *)
(* twice; and unless a thread has failed, one that passes filter and        *)
(* verification is always in one: no hand-over loses it.                    *)
EachHitIsInOnePlace ==
    LET held  == Held
        At(s) == held[s[1]][s[2]][s[3]]
    IN  /\ \A s, t \in Spots(held) : At(s) = At(t) => s = t
        /\ NothingFailed =>
              \A c \in DOMAIN fate : fate[c] = "hit" => \E s \in Spots(held) : At(s) = c

(* Whether the loop can get back to the searching and to the verifying: it  *)
(* has a verifier to resume (see CandidatesGetVerified) and, if it halts    *)
(* the parsing, a Backlog below throttleat-500, which for a throttleat of   *)
(* 500 or less is none.                                                     *)
Resumable == verify => numprocs > 1 /\ (throttleat = 0 \/ throttleat > Slack)

(* A search that is Resumable ends, and so does every other once the user   *)
(* interrupts it, at any moment: unless one of its threads has failed, main *)
(* returns, and the dispatcher and all engines stop, so that the program    *)
(* can exit.                                                                *)
Termination == (Resumable \/ SearchEnded) ~> (Over \/ ~NothingFailed)

(* A search does not wait for a dispatcher that an exception in putJob has  *)
(* ended, wherever in its loop's condition main was (search: isAlive).      *)
FailureEndsSearch == dpc = "failed" ~> SearchEnded

(* the candidates that are or will be verified: done, queued, at work, taken *)
VerifyingEngines == {t \in DOMAIN processor_threads :
                        processor_threads[t].kind = "verify" /\ processor_threads[t].state = "busy"}
Taken == IF Thread.kind = "verify" THEN Len(results) ELSE 0

ToVerify ==
    verify_checked_count + Len(vjobs) + Len(processor["verify"].jobs)
        + Cardinality(VerifyingEngines) + Len(processor["verify"].done) + Taken

(* With a limit, the candidates that are or will be verified are at most    *)
(* those of one index more than it: the dispatcher stops queueing them by   *)
(* itself, however late main sees that the limit is reached.                *)
VerifyingIsLimited == limit > 0 => ToVerify <= limit + setting.candidates

(* The threads, the queues and both flags are not to be seen from outside:  *)
(* search hands over each file once and only what may be, whichever engine  *)
(* found or verified it and in whichever order, and nothing after its end;  *)
(* 1 and 2 are returned for their reasons only.                             *)
Results == INSTANCE SearchResults WITH
               asked <- setting,
               state <- IF SearchEnded THEN mpc ELSE "searching",
               value <- ret

ImplementsSearchResults == Results!Spec

(* README.md: bgsearch searches "the indexes for the desired byte           *)
(* sequence(s)".  A search that returns 0 has reported every hit.           *)
EveryHitIsReported ==
    mpc = "returned" /\ ret = 0 =>
        \A c \in DOMAIN fate : fate[c] = "hit" => c \in ToSet(reported)

(* bgsearch.pod, -v: "Invoke bgverify on candidate answers."  Candidates    *)
(* that wait for that do not wait forever.                                  *)
CandidatesGetVerified == (verify /\ Backlog > 0) ~> (Backlog = 0 \/ SearchEnded)
=============================================================================

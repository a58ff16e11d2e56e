----------------------------- MODULE JobDispatch -----------------------------
(***************************************************************************)
(* The values of the jobdispatch package: a Processor, whose two lists are *)
(* shared by the dispatcher and every engine that runs it, each method     *)
(* under its lock; and a ProcessorEngine, a thread that runs it.  BgSearch *)
(* runs the threads.                                                       *)
(***************************************************************************)
EXTENDS Naturals, Sequences, SequencesExt

(* Processor *)
NewProcessor == [jobs |-> <<>>, done |-> <<>>]

needsJob(p) == p.jobs = <<>>
JobAdded(p, job) == [p EXCEPT !.jobs = Append(@, job)]

HasJob(p) == p.jobs # <<>>                   \* _startJob, else it raises NoWork
NextJob(p) == Last(p.jobs)
JobStarted(p) == [p EXCEPT !.jobs = Front(@)]

(* Mutant of JobFinished: the list is replaced, as in getResults *)
OnlyJobFinished(p, result) == [p EXCEPT !.done = <<result>>]

JobFinished(p, result) == [p EXCEPT !.done = Append(@, result)]
ResultsTaken(p) == [p EXCEPT !.done = <<>>]

(* ProcessorEngine: state is where its run() is; job what it works on *)
NewEngine(kind) ==
    [kind |-> kind, state |-> "loop", job |-> <<>>,
     live |-> TRUE, paused |-> FALSE, started |-> FALSE]

isAlive(e) == e.state \in {"loop", "busy"}

(* run() sets start, and no one sets started *)
MustReplace(e) == e.started /\ e.live /\ ~isAlive(e)
=============================================================================

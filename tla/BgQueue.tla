------------------------------- MODULE BgQueue -------------------------------
(***************************************************************************)
(* The template class bgQueue<T> of bgindex_th.cpp: a std::queue, a mutex, *)
(* a condition variable and the flag queuedone.  bgindex uses it for the   *)
(* shingle, the compress and the write queue, so it is given here as a     *)
(* value -- a record -- and the operators that map a queue to the queue    *)
(* after one step of a member function.  The modules that use a queue hold *)
(* the record in a variable.                                               *)
(*                                                                         *)
(* wait_and_pop takes three steps: lock the mutex and evaluate the         *)
(* predicate of the while loop; when it says wait, release the mutex and   *)
(* join the waiters; otherwise pop.  quit() takes no lock, so it can fall  *)
(* between any two of them.                                                *)
(***************************************************************************)
EXTENDS Naturals, Sequences

CONSTANT NoThread     \* the mutex is free

(* items: bgqueue; quit: queuedone; holder: who has bgqmutex;              *)
(* waiters: the threads blocked in bgqcond.wait                            *)
EmptyQueue == [items |-> <<>>, quit |-> FALSE, holder |-> NoThread, waiters |-> {}]

QueueOf(Items, Threads) ==
    [items : Seq(Items), quit : BOOLEAN, holder : Threads \cup {NoThread},
     waiters : SUBSET Threads]

IsFree(q) == q.holder = NoThread

(* A thread can take the mutex in wait_and_pop when nobody has it and the  *)
(* thread is not (still) blocked in the condition variable.                *)
CanLock(q, t) == IsFree(q) /\ t \notin q.waiters

(* while (bgqueue.empty() && !queuedone) *)
MustWait(q) == q.items = <<>> /\ ~q.quit

Locked(q, t) == [q EXCEPT !.holder = t]
Slept(q, t)  == [q EXCEPT !.holder = NoThread, !.waiters = @ \cup {t}]
Released(q)  == [q EXCEPT !.holder = NoThread]
Pushed(q, x) == [q EXCEPT !.items = Append(@, x)]
(* Mutant of Popped: front() without pop() *)
PoppedNothing(q) == Released(q)
Popped(q)    == [q EXCEPT !.items = Tail(@), !.holder = NoThread]

(* quit() is two steps: the flag, then notify_all *)
QuitSet(q)   == [q EXCEPT !.quit = TRUE]
AllWoken(q)  == [q EXCEPT !.waiters = {}]

(* Mutant of OneWoken: push forgets to notify *)
NoneWoken(q) == {q}
(* notify_one: any one waiter wakes, and nothing happens when there is none *)
OneWoken(q) ==
    IF q.waiters = {} THEN {q}
                      ELSE {[q EXCEPT !.waiters = @ \ {t}] : t \in q.waiters}

(* bgqcond.wait may also return without a notify *)
Spurious(q) == {[q EXCEPT !.waiters = @ \ {t}] : t \in q.waiters}
=============================================================================

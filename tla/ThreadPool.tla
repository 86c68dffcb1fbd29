------------------------------ MODULE ThreadPool ------------------------------
(***************************************************************************)
(* The pool that runs the requests of RpcServer (src/src/ThreadPool.cpp):  *)
(* enqueue pushes under mutex_ and notifies one worker after unlocking, a  *)
(* worker waits on cond_ for stop_ or a task, the destructor sets stop_,   *)
(* notifies all and joins.                                                 *)
(*                                                                         *)
(* A critical section of mutex_ is one step. cond_ is the set of workers   *)
(* at "waiting"; a worker leaves it when it is notified, or for no reason  *)
(* at all, and then tests the predicate again.                             *)
(***************************************************************************)
EXTENDS Integers, Sequences, FiniteSets, Functions

CONSTANTS
  Workers,     \* workers_
  Producers,   \* threads that call enqueue
  Tasks        \* tasks, each enqueued at most once

ASSUME PoolAssumption == IsFiniteSet(Workers) /\ IsFiniteSet(Producers)

VARIABLES
  tasks,       \* tasks_
  stop,        \* stop_
  workerPc,    \* workerPc[w]: where worker w stands
  running,     \* running[w]: the tasks w holds, none or one
  producerPc,  \* producerPc[p]: p is idle or has yet to notify
  dtorPc,      \* how far the destructor has got
  enqueued,    \* every task enqueued so far, in order (history)
  started,     \* every task taken by a worker so far, in order (history)
  finished     \* tasks that have returned (history)

vars == <<tasks, stop, workerPc, running, producerPc, dtorPc, enqueued, started,
          finished>>


Ready   == {w \in Workers : workerPc[w] = "ready"}
Waiting == {w \in Workers : workerPc[w] = "waiting"}
Pushed  == {p \in Producers : producerPc[p] = "pushed"}

Init ==
  /\ tasks = <<>>
  /\ stop = FALSE
  /\ workerPc = [w \in Workers |-> "ready"]
  /\ running = [w \in Workers |-> {}]
  /\ producerPc = [p \in Producers |-> "idle"]
  /\ dtorPc = "alive"
  /\ enqueued = <<>>
  /\ started = <<>>
  /\ finished = {}
-----------------------------------------------------------------------------
(* enqueue. Nobody may call it on a pool that is being destroyed.          *)

\* tasks_.push
PushInFront(queue, f) == <<f>> \o queue
Push(queue, f) == Append(queue, f)

Enqueue(p, f) ==
  /\ dtorPc = "alive"
  /\ producerPc[p] = "idle"
  /\ f \notin Range(enqueued)
  /\ tasks' = Push(tasks, f)
  /\ enqueued' = Append(enqueued, f)
  /\ producerPc' = [producerPc EXCEPT ![p] = "pushed"]
  /\ UNCHANGED <<stop, workerPc, running, dtorPc, started, finished>>

\* notify_one: one of the waiting workers, if there is one.
NotifyNobody(p) ==
  /\ producerPc[p] = "pushed"
  /\ UNCHANGED workerPc
  /\ producerPc' = [producerPc EXCEPT ![p] = "idle"]
  /\ UNCHANGED <<tasks, stop, running, dtorPc, enqueued, started, finished>>
NotifyOne(p) ==
  /\ producerPc[p] = "pushed"
  /\ \/ Waiting = {} /\ UNCHANGED workerPc
     \/ \E w \in Waiting : workerPc' = [workerPc EXCEPT ![w] = "ready"]
  /\ producerPc' = [producerPc EXCEPT ![p] = "idle"]
  /\ UNCHANGED <<tasks, stop, running, dtorPc, enqueued, started, finished>>
-----------------------------------------------------------------------------
(* A worker, from locking mutex_ (or being given it back by wait) on.      *)

WaitPredicate == stop \/ tasks # <<>>

WaitOnCond(w) ==
  /\ workerPc[w] = "ready"
  /\ ~WaitPredicate
  /\ workerPc' = [workerPc EXCEPT ![w] = "waiting"]
  /\ UNCHANGED <<tasks, stop, running, producerPc, dtorPc, enqueued, started, finished>>

SpuriousWakeup(w) ==
  /\ workerPc[w] = "waiting"
  /\ workerPc' = [workerPc EXCEPT ![w] = "ready"]
  /\ UNCHANGED <<tasks, stop, running, producerPc, dtorPc, enqueued, started, finished>>

\* if (stop_ && tasks_.empty()) return;
StopAtOnce == stop
MayReturn == stop /\ tasks = <<>>

TakeTask(w) ==
  /\ workerPc[w] = "ready"
  /\ WaitPredicate
  /\ ~MayReturn
  /\ tasks # <<>>
  /\ workerPc' = [workerPc EXCEPT ![w] = "running"]
  /\ running' = [running EXCEPT ![w] = {Head(tasks)}]
  /\ started' = Append(started, Head(tasks))
  /\ tasks' = Tail(tasks)
  /\ UNCHANGED <<stop, producerPc, dtorPc, enqueued, finished>>

WorkerReturn(w) ==
  /\ workerPc[w] = "ready"
  /\ WaitPredicate
  /\ MayReturn
  /\ workerPc' = [workerPc EXCEPT ![w] = "returned"]
  /\ UNCHANGED <<tasks, stop, running, producerPc, dtorPc, enqueued, started, finished>>

\* task() returns, without mutex_.
FinishTask(w) ==
  /\ workerPc[w] = "running"
  /\ workerPc' = [workerPc EXCEPT ![w] = "ready"]
  /\ running' = [running EXCEPT ![w] = {}]
  /\ finished' = finished \cup running[w]
  /\ UNCHANGED <<tasks, stop, producerPc, dtorPc, enqueued, started>>
-----------------------------------------------------------------------------
(* ~ThreadPool.                                                            *)

SetStop ==
  /\ dtorPc = "alive"
  /\ Pushed = {}
  /\ stop' = TRUE
  /\ dtorPc' = "stopping"
  /\ UNCHANGED <<tasks, workerPc, running, producerPc, enqueued, started, finished>>

\* The workers that notify_all takes out of the wait set.
WakeFirst == IF Waiting = {} THEN {} ELSE {CHOOSE w \in Waiting : TRUE}
Woken == Waiting

NotifyAll ==
  /\ dtorPc = "stopping"
  /\ workerPc' = [w \in Workers |-> IF w \in Woken THEN "ready" ELSE workerPc[w]]
  /\ dtorPc' = "joining"
  /\ UNCHANGED <<tasks, stop, running, producerPc, enqueued, started, finished>>

Join ==
  /\ dtorPc = "joining"
  /\ \A w \in Workers : workerPc[w] = "returned"
  /\ dtorPc' = "destroyed"
  /\ UNCHANGED <<tasks, stop, workerPc, running, producerPc, enqueued, started, finished>>

Destroyed ==
  /\ dtorPc = "destroyed"
  /\ UNCHANGED vars
-----------------------------------------------------------------------------
WorkerStep(w) == WaitOnCond(w) \/ TakeTask(w) \/ WorkerReturn(w) \/ FinishTask(w)

Next ==
  \/ \E p \in Producers : (\E f \in Tasks : Enqueue(p, f)) \/ NotifyOne(p)
  \/ \E w \in Workers : WorkerStep(w) \/ SpuriousWakeup(w)
  \/ SetStop \/ NotifyAll \/ Join \/ Destroyed

Spec == Init /\ [][Next]_vars

\* Threads that can run do, tasks return, and a destructor that has begun goes on.
\* Whether anything is enqueued or destroyed is open, and so are spurious wakeups.
FairSpec ==
  /\ Spec
  /\ \A w \in Workers : WF_vars(WorkerStep(w))
  /\ \A p \in Producers : WF_vars(NotifyOne(p))
  /\ WF_vars(NotifyAll \/ Join)
-----------------------------------------------------------------------------
(* Properties.                                                             *)

\* Type invariant.
TypeOK ==
  /\ tasks \in Seq(Tasks)
  /\ stop \in BOOLEAN
  /\ workerPc \in [Workers -> {"ready", "waiting", "running", "returned"}]
  /\ running \in [Workers -> SUBSET Tasks]
  /\ producerPc \in [Producers -> {"idle", "pushed"}]
  /\ dtorPc \in {"alive", "stopping", "joining", "destroyed"}
  /\ enqueued \in Seq(Tasks)
  /\ started \in Seq(Tasks)
  /\ finished \subseteq Tasks

\* Whatever the workers' timing, the tasks are started in the order they were enqueued,
\* none twice and none skipped.
StartedInOrder == enqueued = started \o tasks

\* No task waits while a worker sleeps that nobody is about to wake: as long as some
\* worker is in cond_.wait, every queued task has a worker that is awake and free or a
\* producer that has yet to call notify_one. enqueue notifies after unlocking, once per
\* task, and a worker may be woken for a task that another has taken.
NoLostNotify ==
  Waiting # {} => Len(tasks) <= Cardinality(Ready) + Cardinality(Pushed)

\* The destructor's notify_all leaves nobody asleep: a worker that tested the predicate
\* before stop_ was set is in the wait set by then, and none enters it afterwards.
NobodySleepsThroughStop == dtorPc \in {"joining", "destroyed"} => Waiting = {}

\* When the destructor returns, every task that was ever enqueued has returned: stop_
\* does not discard what is still queued.
DrainedWhenDestroyed ==
  dtorPc = "destroyed" /\ Workers # {} => tasks = <<>> /\ finished = Range(enqueued)

\* Every task enqueued is run to its end.
EnqueuedTaskFinishes == \A f \in Tasks : f \in Range(enqueued) ~> f \in finished

\* The destructor returns.
DestructorReturns == dtorPc = "stopping" ~> dtorPc = "destroyed"
=============================================================================

------------------------------- MODULE EventLoop -------------------------------
(***************************************************************************)
(* Tasks handed to an EventLoop from other threads (src/src/EventLoop.cpp):*)
(* runInLoop, queueInLoop, quit, the eventfd that wakes epoll_wait, and    *)
(* the loop that swaps the queue out and runs it.                          *)
(*                                                                         *)
(* isInLoopThread() compares with threadId_, the thread that CONSTRUCTED   *)
(* the loop (Owner), while loop() runs in LoopThread. rpc_server_main and  *)
(* RpcChannel::getConnection construct a loop in one thread and run it in  *)
(* another.                                                                *)
(***************************************************************************)
EXTENDS Integers, Sequences, Functions

CONSTANTS
  Submitters,   \* threads other than LoopThread that use the loop
  LoopThread,   \* the thread inside loop()
  Owner,        \* the thread whose id the constructor stored in threadId_
  Tasks,        \* functors, each submitted at most once
  Follow,       \* Follow[f]: the task that f itself queues when it runs, or NoTask
  NoTask, NoThread

ASSUME LoopAssumption ==
  /\ LoopThread \notin Submitters
  /\ NoTask \notin Tasks
  /\ NoThread \notin Submitters \cup {LoopThread, Owner}
  /\ Follow \in [Tasks -> Tasks \cup {NoTask}]
  /\ \A f \in Tasks : Follow[f] # f

VARIABLES
  pendingFunctors,  \* pendingFunctors_
  functors,         \* the batch doPendingFunctors has swapped out
  readable,         \* the eventfd counter is not zero
  quitFlag,         \* quit_
  loopPc,           \* where the thread in loop() stands
  submitPc,         \* submitPc[t]: t is idle or has yet to wake the loop
  submitted,        \* every task pushed so far, in order (history)
  ran,              \* every task the loop has run, in order (history)
  ranBy,            \* ranBy[f]: the thread that ran f (history)
  by,               \* by[f]: the thread that submitted f (history)
  quitBy            \* the thread that called quit() (history)

vars == <<pendingFunctors, functors, readable, quitFlag, loopPc, submitPc,
          submitted, ran, ranBy, by, quitBy>>

Init ==
  /\ pendingFunctors = <<>>
  /\ functors = <<>>
  /\ readable = FALSE
  /\ quitFlag = FALSE
  /\ loopPc = "new"
  /\ submitPc = [t \in Submitters |-> "idle"]
  /\ submitted = <<>>
  /\ ran = <<>>
  /\ ranBy = [f \in Tasks |-> NoThread]
  /\ by = [f \in Tasks |-> NoThread]
  /\ quitBy = NoThread

Fresh(f) == by[f] = NoThread

isInLoopThread(t) == t = Owner

\* pendingFunctors_.push_back
PushBack(queue, f) == Append(queue, f)

\* Whether the eventfd is readable after queueInLoop of thread t has passed its test.
NeverWakes(t) == readable
ReadableAfter(t) == readable \/ ~isInLoopThread(t)
-----------------------------------------------------------------------------
(* The submitting threads.                                                 *)

\* queueInLoop up to the end of its critical section.
QueueInLoop(t, f) ==
  /\ submitPc[t] = "idle"
  /\ Fresh(f)
  /\ pendingFunctors' = PushBack(pendingFunctors, f)
  /\ submitted' = Append(submitted, f)
  /\ submitPc' = [submitPc EXCEPT ![t] = "pushed"]
  /\ by' = [by EXCEPT ![f] = t]
  /\ UNCHANGED <<functors, readable, quitFlag, loopPc, ran, ranBy, quitBy>>

\* The rest of queueInLoop and of quit: the test and the write to the eventfd.
WakeupAfter(t) ==
  /\ submitPc[t] = "pushed"
  /\ readable' = ReadableAfter(t)
  /\ submitPc' = [submitPc EXCEPT ![t] = "idle"]
  /\ UNCHANGED <<pendingFunctors, functors, quitFlag, loopPc, submitted, ran, ranBy,
                 by, quitBy>>

\* runInLoop by the thread isInLoopThread() takes for the loop's: the task runs at once,
\* in that thread, which goes through queueInLoop if the task queues another. By any
\* other thread runInLoop is queueInLoop.
RunInLoopNow(t, f) ==
  /\ isInLoopThread(t)
  /\ submitPc[t] = "idle"
  /\ Fresh(f)
  /\ ranBy' = [ranBy EXCEPT ![f] = t]
  /\ LET g == Follow[f]
     IN IF g # NoTask /\ Fresh(g)
        THEN /\ pendingFunctors' = PushBack(pendingFunctors, g)
             /\ submitted' = Append(submitted, g)
             /\ submitPc' = [submitPc EXCEPT ![t] = "pushed"]
             /\ by' = [by EXCEPT ![f] = t, ![g] = t]
        ELSE /\ by' = [by EXCEPT ![f] = t]
             /\ UNCHANGED <<pendingFunctors, submitted, submitPc>>
  /\ UNCHANGED <<functors, readable, quitFlag, loopPc, ran, quitBy>>

Quit(t) ==
  /\ submitPc[t] = "idle"
  /\ ~quitFlag
  /\ quitFlag' = TRUE
  /\ quitBy' = t
  /\ submitPc' = [submitPc EXCEPT ![t] = "pushed"]
  /\ UNCHANGED <<pendingFunctors, functors, readable, loopPc, submitted, ran, ranBy, by>>
-----------------------------------------------------------------------------
(* The thread in loop().                                                   *)

GoTo(from, to) == loopPc = from /\ loopPc' = to

\* Entering loop(), with its assertion that the loop is not running yet.
StartLoop ==
  /\ GoTo("new", "test")
  /\ UNCHANGED <<pendingFunctors, functors, readable, quitFlag, submitPc, submitted,
                 ran, ranBy, by, quitBy>>

\* while (!quit_)
TestQuit ==
  /\ loopPc = "test"
  /\ loopPc' = IF quitFlag THEN "stopped" ELSE "poll"
  /\ UNCHANGED <<pendingFunctors, functors, readable, quitFlag, submitPc, submitted,
                 ran, ranBy, by, quitBy>>

\* epoll_wait reports the eventfd.
PollReady ==
  /\ readable
  /\ GoTo("poll", "event")
  /\ UNCHANGED <<pendingFunctors, functors, readable, quitFlag, submitPc, submitted,
                 ran, ranBy, by, quitBy>>

\* The read callback of wakeupChannel_: reading an eventfd sets its counter to zero.
HandleWakeup ==
  /\ GoTo("event", "swap")
  /\ readable' = FALSE
  /\ UNCHANGED <<pendingFunctors, functors, quitFlag, submitPc, submitted, ran, ranBy,
                 by, quitBy>>

\* epoll_wait comes back without the eventfd: after 1000 ms, or for another channel.
NeverTimesOut == FALSE
PollOther ==
  /\ GoTo("poll", "swap")
  /\ UNCHANGED <<pendingFunctors, functors, readable, quitFlag, submitPc, submitted,
                 ran, ranBy, by, quitBy>>

\* pendingFunctors_ after functors.swap(pendingFunctors_).
KeepPending == pendingFunctors
AfterSwap == <<>>

SwapFunctors ==
  /\ GoTo("swap", "run")
  /\ functors' = pendingFunctors
  /\ pendingFunctors' = AfterSwap
  /\ UNCHANGED <<readable, quitFlag, submitPc, submitted, ran, ranBy, by, quitBy>>

\* One functor of the batch. What it queues goes to the next batch; the loop is not in
\* epoll_wait, so push and test are one step.
RunFunctor ==
  /\ loopPc = "run"
  /\ functors # <<>>
  /\ LET f == Head(functors)
         g == Follow[f]
     IN /\ functors' = Tail(functors)
        /\ ran' = Append(ran, f)
        /\ ranBy' = [ranBy EXCEPT ![f] = LoopThread]
        /\ IF g # NoTask /\ Fresh(g)
           THEN /\ pendingFunctors' = PushBack(pendingFunctors, g)
                /\ submitted' = Append(submitted, g)
                /\ readable' = ReadableAfter(LoopThread)
                /\ by' = [by EXCEPT ![g] = LoopThread]
           ELSE UNCHANGED <<pendingFunctors, submitted, readable, by>>
  /\ UNCHANGED <<quitFlag, loopPc, submitPc, quitBy>>

EndBatch ==
  /\ functors = <<>>
  /\ GoTo("run", "test")
  /\ UNCHANGED <<pendingFunctors, functors, readable, quitFlag, submitPc, submitted,
                 ran, ranBy, by, quitBy>>

\* loop() has returned.
Stopped ==
  /\ loopPc = "stopped"
  /\ UNCHANGED vars
-----------------------------------------------------------------------------
LoopStep ==
  StartLoop \/ TestQuit \/ PollReady \/ HandleWakeup \/ SwapFunctors \/ RunFunctor
  \/ EndBatch

Next ==
  \/ \E t \in Submitters :
       \/ \E f \in Tasks : QueueInLoop(t, f) \/ RunInLoopNow(t, f)
       \/ WakeupAfter(t)
       \/ Quit(t)
  \/ LoopStep
  \/ PollOther
  \/ Stopped

Spec == Init /\ [][Next]_vars

\* The loop's thread runs whenever it can, and a thread that has pushed goes on to wake
\* it. PollOther is left out: the 1000 ms timeout is a hypothesis of TimeoutReachesAll only.
FairSpec == Spec /\ WF_vars(LoopStep) /\ \A t \in Submitters : WF_vars(WakeupAfter(t))
-----------------------------------------------------------------------------
(* Properties.                                                             *)

\* Type invariant.
TypeOK ==
  /\ pendingFunctors \in Seq(Tasks)
  /\ functors \in Seq(Tasks)
  /\ readable \in BOOLEAN
  /\ quitFlag \in BOOLEAN
  /\ loopPc \in {"new", "test", "poll", "event", "swap", "run", "stopped"}
  /\ submitPc \in [Submitters -> {"idle", "pushed"}]
  /\ submitted \in Seq(Tasks)
  /\ ran \in Seq(Tasks)
  /\ ranBy \in [Tasks -> Submitters \cup {LoopThread, NoThread}]
  /\ by \in [Tasks -> Submitters \cup {LoopThread, NoThread}]
  /\ quitBy \in Submitters \cup {NoThread}

\* Every queued task is in exactly one place and the loop runs the tasks in the order
\* they were queued, none twice and none skipped, although doPendingFunctors swaps the
\* queue out while other threads and the tasks themselves keep adding to it.
QueueOrder == submitted = ran \o functors \o pendingFunctors

\* What isInLoopThread() lets through without a wakeup is what the constructing thread
\* itself queues or quits. Everything else never sleeps with the loop: when the loop is in
\* epoll_wait with such a task queued, or told by another thread to quit, the eventfd is
\* readable or a thread that does write is about to make it so (queueInLoop's comment,
\* EventLoop.cpp:106).
NoLostWakeup ==
  /\ loopPc = "poll"
  /\ (\E f \in Range(pendingFunctors) : by[f] # Owner) \/ (quitFlag /\ quitBy # Owner)
  => readable \/ \E t \in Submitters : t # Owner /\ submitPc[t] = "pushed"

\* A task queued by any other thread is run unless the loop is told to stop, and quit() by
\* any other thread ends loop(), without help from the poll timeout or from traffic.
WakeupReachesLoop ==
  /\ \A f \in Tasks :
       (f \in Range(submitted) /\ by[f] # Owner) ~> (ranBy[f] = LoopThread \/ quitFlag)
  /\ (quitFlag /\ quitBy # Owner /\ loopPc # "new") ~> (loopPc = "stopped")

\* The constructing thread wakes nobody: the timeout of epoll_wait alone gets its tasks
\* run and its quit() noticed, and it does.
TimeoutReachesAll ==
  WF_vars(PollOther) =>
    /\ \A f \in Tasks : (f \in Range(submitted)) ~> (ranBy[f] = LoopThread \/ quitFlag)
    /\ (quitFlag /\ loopPc # "new") ~> (loopPc = "stopped")

\* EventLoop.h:23, runInLoop executes the task in the I/O thread: so it does for every
\* thread but the constructing one, for which EventLoop.cpp:94 runs it on the spot.
RunsInLoopThread ==
  \A f \in Tasks : by[f] # Owner => ranBy[f] \in {LoopThread, NoThread}
=============================================================================

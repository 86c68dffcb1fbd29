---------------------------- MODULE EventLoopProofs ----------------------------
(***************************************************************************)
(* What is proved of EventLoop for any number of threads and tasks: its    *)
(* type invariant, that the loop runs the queued tasks in order, that only *)
(* the constructing thread's tasks can run elsewhere, and that no wakeup   *)
(* is lost but those the constructing thread never writes.                 *)
(***************************************************************************)
EXTENDS EventLoop, QueueLemmas, TLAPS

\* The batch is run to its end before the loop goes on, so that a swap never throws
\* tasks away.
BatchDone == loopPc # "run" => functors = <<>>

\* A wakeup is in the eventfd or about to be written.
Waking == readable \/ \E t \in Submitters : t # Owner /\ submitPc[t] = "pushed"

\* From the swap on until epoll_wait returns, whatever another thread than the owner has
\* queued has a wakeup coming; quit_ needs one only once the loop has tested it.
WakeupComing ==
  /\ loopPc \in {"new", "test", "poll", "run"}
  /\ \/ \E f \in Range(pendingFunctors) : by[f] # Owner
     \/ loopPc = "poll" /\ quitFlag /\ quitBy # Owner
  => Waking

\* Appending to the newest part of the queue.
LEMMA AppendLast ==
  \A r, s, t \in Seq(Tasks) : \A e \in Tasks :
    Append(r \o s \o t, e) = r \o s \o Append(t, e)
<1> SUFFICES ASSUME NEW r \in Seq(Tasks), NEW s \in Seq(Tasks), NEW t \in Seq(Tasks),
                    NEW e \in Tasks
             PROVE  Append(r \o s \o t, e) = r \o s \o Append(t, e)
  OBVIOUS
<1> DEFINE q == r \o s
<1>1. q \in Seq(Tasks) /\ q \o t \in Seq(Tasks) /\ <<e>> \in Seq(Tasks)
  BY ConcatProperties
<1> HIDE DEF q
<1>2. Append(q \o t, e) = (q \o t) \o <<e>> /\ Append(t, e) = t \o <<e>>
  BY <1>1, AppendIsConcat
<1>3. (q \o t) \o <<e>> = q \o (t \o <<e>>)
  BY <1>1, ConcatAssociative
<1> QED BY <1>2, <1>3 DEF q

-----------------------------------------------------------------------------
\* A loop that has just been constructed is well typed.
LEMMA TypeInit == Init => TypeOK
<1> SUFFICES ASSUME Init PROVE TypeOK
  OBVIOUS
<1> QED BY LoopAssumption, EmptySeq DEF Init, TypeOK

\* Submitters, quit() and the loop's thread keep the types.
LEMMA TypeStep == TypeOK /\ [Next]_vars => TypeOK'
<1> SUFFICES ASSUME TypeOK, [Next]_vars PROVE TypeOK'
  OBVIOUS
<1> USE LoopAssumption DEF TypeOK
<1>1. ASSUME NEW t \in Submitters, NEW f \in Tasks, QueueInLoop(t, f) PROVE TypeOK'
  BY <1>1, AppendProperties DEF QueueInLoop, PushBack
<1>2. ASSUME NEW t \in Submitters, NEW f \in Tasks, RunInLoopNow(t, f) PROVE TypeOK'
  <2>1. CASE Follow[f] # NoTask /\ Fresh(Follow[f])
    <3>1. Follow[f] \in Tasks
      BY <2>1
    <3>2. /\ pendingFunctors' = Append(pendingFunctors, Follow[f])
          /\ submitted' = Append(submitted, Follow[f])
          /\ submitPc' = [submitPc EXCEPT ![t] = "pushed"]
      BY <1>2, <2>1, Zenon DEF RunInLoopNow, PushBack
    <3>3. pendingFunctors' \in Seq(Tasks) /\ submitted' \in Seq(Tasks)
      BY <3>1, <3>2, AppendProperties
    <3> QED BY <1>2, <3>2, <3>3 DEF RunInLoopNow
  <2>2. CASE ~(Follow[f] # NoTask /\ Fresh(Follow[f]))
    BY <1>2, <2>2 DEF RunInLoopNow
  <2> QED BY <2>1, <2>2
<1>3. ASSUME NEW t \in Submitters, WakeupAfter(t) PROVE TypeOK'
  BY <1>3 DEF WakeupAfter, ReadableAfter, isInLoopThread
<1>4. ASSUME NEW t \in Submitters, Quit(t) PROVE TypeOK'
  BY <1>4 DEF Quit
<1>5. CASE StartLoop \/ TestQuit \/ PollReady \/ HandleWakeup \/ EndBatch \/ PollOther
  BY <1>5 DEF StartLoop, TestQuit, PollReady, HandleWakeup, EndBatch, PollOther, GoTo
<1>6. CASE SwapFunctors
  BY <1>6, EmptySeq DEF SwapFunctors, AfterSwap, GoTo
<1>7. CASE RunFunctor
  <2> DEFINE f == Head(functors)
  <2>1. f \in Tasks /\ Tail(functors) \in Seq(Tasks)
    BY <1>7, HeadTailProperties DEF RunFunctor
  <2>2. CASE Follow[f] # NoTask /\ Fresh(Follow[f])
    <3>1. Follow[f] \in Tasks
      BY <2>1, <2>2
    <3>2. /\ pendingFunctors' = Append(pendingFunctors, Follow[f])
          /\ submitted' = Append(submitted, Follow[f])
          /\ readable' = ReadableAfter(LoopThread)
      BY <1>7, <2>2, Zenon DEF RunFunctor, PushBack
    <3>3. pendingFunctors' \in Seq(Tasks) /\ submitted' \in Seq(Tasks)
      BY <3>1, <3>2, AppendProperties
    <3>4. readable' \in BOOLEAN
      BY <3>2 DEF ReadableAfter, isInLoopThread
    <3> QED BY <1>7, <2>1, <3>3, <3>4, AppendProperties DEF RunFunctor
  <2>3. CASE ~(Follow[f] # NoTask /\ Fresh(Follow[f]))
    BY <1>7, <2>1, <2>3, AppendProperties DEF RunFunctor
  <2> QED BY <2>2, <2>3
<1>8. CASE Stopped \/ UNCHANGED vars
  BY <1>8 DEF Stopped, vars
<1> QED BY <1>1, <1>2, <1>3, <1>4, <1>5, <1>6, <1>7, <1>8 DEF Next, LoopStep

\* Type correctness of EventLoop, for any threads and tasks.
THEOREM TypeCorrect == Spec => []TypeOK
<1> QED BY TypeInit, TypeStep, PTL DEF Spec
-----------------------------------------------------------------------------
\* Pushing, swapping and running keep the order of the tasks.
LEMMA OrderStep ==
  TypeOK /\ TypeOK' /\ BatchDone /\ QueueOrder /\ [Next]_vars => BatchDone' /\ QueueOrder'
<1> SUFFICES ASSUME TypeOK, BatchDone, QueueOrder, [Next]_vars
             PROVE  BatchDone' /\ QueueOrder'
  OBVIOUS
<1>a. ASSUME NEW e \in Tasks
      PROVE  Append(submitted, e) = ran \o functors \o Append(pendingFunctors, e)
  <2>1. pendingFunctors \in Seq(Tasks) /\ functors \in Seq(Tasks) /\ ran \in Seq(Tasks)
    BY DEF TypeOK
  <2> QED BY <2>1, AppendLast DEF QueueOrder
<1>1. ASSUME NEW t \in Submitters, NEW f \in Tasks, QueueInLoop(t, f)
      PROVE  BatchDone' /\ QueueOrder'
  BY <1>1, <1>a DEF QueueInLoop, PushBack, BatchDone, QueueOrder
<1>2. ASSUME NEW t \in Submitters, NEW f \in Tasks, RunInLoopNow(t, f)
      PROVE  BatchDone' /\ QueueOrder'
  <2> DEFINE g == Follow[f]
  <2>1. CASE g # NoTask /\ Fresh(g)
    <3>1. g \in Tasks
      BY <2>1, LoopAssumption
    <3> QED BY <1>2, <2>1, <1>a, <3>1 DEF RunInLoopNow, PushBack, BatchDone, QueueOrder
  <2>2. CASE ~(g # NoTask /\ Fresh(g))
    BY <1>2, <2>2 DEF RunInLoopNow, BatchDone, QueueOrder
  <2> QED BY <2>1, <2>2
<1>3. ASSUME NEW t \in Submitters, WakeupAfter(t) \/ Quit(t)
      PROVE  BatchDone' /\ QueueOrder'
  BY <1>3 DEF WakeupAfter, Quit, BatchDone, QueueOrder
<1>4. CASE StartLoop \/ TestQuit \/ PollReady \/ HandleWakeup \/ EndBatch \/ PollOther
  BY <1>4 DEF StartLoop, TestQuit, PollReady, HandleWakeup, EndBatch, PollOther, GoTo,
              BatchDone, QueueOrder
<1>5. CASE SwapFunctors
  <2>1. functors = <<>> /\ loopPc' = "run"
    BY <1>5 DEF SwapFunctors, GoTo, BatchDone
  <2>2. /\ ran \o functors = ran
        /\ (ran \o pendingFunctors) \o <<>> = ran \o pendingFunctors
    BY <2>1, ConcatEmptySeq, ConcatProperties DEF TypeOK
  <2> QED BY <1>5, <2>1, <2>2 DEF SwapFunctors, AfterSwap, QueueOrder, BatchDone
<1>6. CASE RunFunctor
  <2> DEFINE f == Head(functors)
             g == Follow[f]
  <2>1. f \in Tasks /\ Tail(functors) \in Seq(Tasks)
    BY <1>6, HeadTailProperties DEF RunFunctor, TypeOK
  <2>2. ran' \o functors' = ran \o functors
    BY <1>6, MoveHead DEF RunFunctor, TypeOK
  <2>3. BatchDone'
    BY <1>6 DEF RunFunctor, BatchDone
  <2>4. CASE g # NoTask /\ Fresh(g)
    <3>1. g \in Tasks
      BY <2>1, <2>4, LoopAssumption
    <3>2. submitted' = Append(submitted, g) /\ pendingFunctors' = Append(pendingFunctors, g)
      BY <1>6, <2>4, Zenon DEF RunFunctor, PushBack
    <3> QED BY <1>a, <2>2, <2>3, <3>1, <3>2 DEF QueueOrder
  <2>5. CASE ~(g # NoTask /\ Fresh(g))
    <3>1. UNCHANGED <<submitted, pendingFunctors>>
      BY <1>6, <2>5, Zenon DEF RunFunctor
    <3> QED BY <2>2, <2>3, <3>1 DEF QueueOrder
  <2> QED BY <2>4, <2>5
<1>7. CASE Stopped \/ UNCHANGED vars
  BY <1>7 DEF Stopped, vars, BatchDone, QueueOrder
<1> QED BY <1>1, <1>2, <1>3, <1>4, <1>5, <1>6, <1>7 DEF Next, LoopStep

\* queueInLoop and doPendingFunctors: for any threads, owner and tasks, each queued task
\* is run once, in the order of queueing.
THEOREM TasksRunInOrder == Spec => []QueueOrder
<1>1. Init => BatchDone /\ QueueOrder
  <2>1. (<<>> \o <<>>) \o <<>> = <<>>
    BY EmptySeq, ConcatEmptySeq
  <2> QED BY <2>1 DEF Init, BatchDone, QueueOrder
<1> QED BY <1>1, TypeCorrect, OrderStep, PTL DEF Spec
-----------------------------------------------------------------------------
\* runInLoop and doPendingFunctors, for any threads and tasks: only a task submitted by
\* the thread that constructed the loop ever runs outside the loop's thread.
THEOREM RunsElsewhereOnlyForOwner == Spec => []RunsInLoopThread
<1>1. Init => RunsInLoopThread
  BY DEF Init, RunsInLoopThread
<1>2. TypeOK /\ RunsInLoopThread /\ [Next]_vars => RunsInLoopThread'
  <2> SUFFICES ASSUME TypeOK, RunsInLoopThread, [Next]_vars PROVE RunsInLoopThread'
    OBVIOUS
  <2> USE LoopAssumption
  <2>1. ASSUME NEW t \in Submitters, NEW f \in Tasks, QueueInLoop(t, f)
        PROVE  RunsInLoopThread'
    BY <2>1 DEF QueueInLoop, Fresh, TypeOK, RunsInLoopThread
  <2>2. ASSUME NEW t \in Submitters, NEW f \in Tasks, RunInLoopNow(t, f)
        PROVE  RunsInLoopThread'
    <3>1. ranBy' = [ranBy EXCEPT ![f] = t] /\ t = Owner
      BY <2>2 DEF RunInLoopNow, isInLoopThread
    <3>2. by' = [by EXCEPT ![f] = t, ![Follow[f]] = t] \/ by' = [by EXCEPT ![f] = t]
      BY <2>2 DEF RunInLoopNow
    <3> QED BY <3>1, <3>2 DEF TypeOK, RunsInLoopThread
  <2>3. ASSUME NEW t \in Submitters, WakeupAfter(t) \/ Quit(t) PROVE RunsInLoopThread'
    BY <2>3 DEF WakeupAfter, Quit, RunsInLoopThread
  <2>4. CASE StartLoop \/ TestQuit \/ PollReady \/ HandleWakeup \/ SwapFunctors
             \/ EndBatch \/ PollOther
    BY <2>4 DEF StartLoop, TestQuit, PollReady, HandleWakeup, SwapFunctors, EndBatch,
                PollOther, RunsInLoopThread
  <2>5. CASE RunFunctor
    <3> DEFINE g == Follow[Head(functors)]
    <3>1. ranBy' = [ranBy EXCEPT ![Head(functors)] = LoopThread]
      BY <2>5 DEF RunFunctor
    <3>2. \/ by' = by
          \/ by[g] = NoThread /\ by' = [by EXCEPT ![g] = LoopThread]
      BY <2>5 DEF RunFunctor, Fresh
    <3> HIDE DEF g
    <3> QED BY <3>1, <3>2 DEF TypeOK, RunsInLoopThread
  <2>6. CASE Stopped \/ UNCHANGED vars
    BY <2>6 DEF Stopped, vars, RunsInLoopThread
  <2> QED BY <2>1, <2>2, <2>3, <2>4, <2>5, <2>6 DEF Next, LoopStep
<1> QED BY <1>1, <1>2, TypeCorrect, PTL DEF Spec
-----------------------------------------------------------------------------
\* Whoever pushes or quits while the loop may sleep still has its wakeup to write.
LEMMA WakeupStep ==
  TypeOK /\ WakeupComing /\ [Next]_vars => WakeupComing'
<1> SUFFICES ASSUME TypeOK, WakeupComing, [Next]_vars PROVE WakeupComing'
  OBVIOUS
<1>a. ASSUME NEW g \in Tasks, pendingFunctors' = Append(pendingFunctors, g)
      PROVE  Range(pendingFunctors') = Range(pendingFunctors) \cup {g}
  BY <1>a, RangeAppend DEF TypeOK
<1>b. Range(pendingFunctors) \subseteq Tasks
  BY LenProperties DEF Range, TypeOK
<1>1. ASSUME NEW t \in Submitters, NEW f \in Tasks, QueueInLoop(t, f) PROVE WakeupComing'
  <2>1. Range(pendingFunctors') = Range(pendingFunctors) \cup {f}
    BY <1>1, <1>a DEF QueueInLoop, PushBack
  <2>2. CASE t = Owner
    <3>1. Waking => Waking'
      BY <1>1, <2>2 DEF QueueInLoop, Waking, TypeOK
    <3>2. /\ by' = [by EXCEPT ![f] = Owner]
          /\ UNCHANGED <<loopPc, quitFlag, quitBy>>
      BY <1>1, <2>2 DEF QueueInLoop
    <3> QED BY <2>1, <1>b, <3>1, <3>2 DEF WakeupComing, TypeOK
  <2>3. CASE t # Owner
    BY <1>1, <2>3 DEF QueueInLoop, WakeupComing, Waking, TypeOK
  <2> QED BY <2>2, <2>3
<1>2. ASSUME NEW t \in Submitters, NEW f \in Tasks, RunInLoopNow(t, f)
      PROVE  WakeupComing'
  <2> DEFINE g == Follow[f]
  <2>1. t = Owner /\ UNCHANGED <<loopPc, quitFlag, quitBy, readable>>
    BY <1>2 DEF RunInLoopNow, isInLoopThread
  <2>2. \/ /\ g \in Tasks
           /\ pendingFunctors' = Append(pendingFunctors, g)
           /\ submitPc' = [submitPc EXCEPT ![t] = "pushed"]
           /\ by' = [by EXCEPT ![f] = t, ![g] = t]
        \/ by' = [by EXCEPT ![f] = t] /\ UNCHANGED <<pendingFunctors, submitPc>>
    <3>1. CASE g # NoTask /\ Fresh(g)
      BY <1>2, <3>1, LoopAssumption DEF RunInLoopNow, PushBack
    <3>2. CASE ~(g # NoTask /\ Fresh(g))
      BY <1>2, <3>2 DEF RunInLoopNow
    <3> QED BY <3>1, <3>2
  <2> HIDE DEF g
  <2>3. Waking => Waking'
    BY <2>1, <2>2 DEF Waking, TypeOK
  <2>4. Range(pendingFunctors') \subseteq Range(pendingFunctors) \cup {g}
    BY <2>2, <1>a
  <2>5. (\E h \in Range(pendingFunctors') : by'[h] # Owner)
          => \E h \in Range(pendingFunctors) : by[h] # Owner
    BY <2>1, <2>2, <2>4, <1>b DEF TypeOK
  <2> QED BY <2>1, <2>3, <2>5 DEF WakeupComing
<1>3. ASSUME NEW t \in Submitters, WakeupAfter(t) PROVE WakeupComing'
  BY <1>3 DEF WakeupAfter, ReadableAfter, isInLoopThread, WakeupComing, Waking, TypeOK
<1>4. ASSUME NEW t \in Submitters, Quit(t) PROVE WakeupComing'
  BY <1>4 DEF Quit, WakeupComing, Waking, TypeOK
<1>5. CASE StartLoop \/ TestQuit \/ PollReady \/ HandleWakeup \/ EndBatch \/ PollOther
  BY <1>5 DEF StartLoop, TestQuit, PollReady, HandleWakeup, EndBatch, PollOther, GoTo,
              WakeupComing, Waking
<1>6. CASE SwapFunctors
  BY <1>6, EmptyRange DEF SwapFunctors, AfterSwap, GoTo, WakeupComing
<1>7. CASE RunFunctor
  <2> DEFINE g == Follow[Head(functors)]
  <2>0. Head(functors) \in Tasks
    BY <1>7, HeadTailProperties DEF RunFunctor, TypeOK
  <2>1. UNCHANGED <<loopPc, quitFlag, quitBy, submitPc>>
    BY <1>7 DEF RunFunctor
  <2>2. \/ /\ g \in Tasks
           /\ pendingFunctors' = Append(pendingFunctors, g)
           /\ readable' = ReadableAfter(LoopThread)
           /\ by' = [by EXCEPT ![g] = LoopThread]
        \/ UNCHANGED <<pendingFunctors, readable, by>>
    <3>1. CASE g # NoTask /\ Fresh(g)
      BY <1>7, <2>0, <3>1, LoopAssumption DEF RunFunctor, PushBack
    <3>2. CASE ~(g # NoTask /\ Fresh(g))
      BY <1>7, <3>2 DEF RunFunctor
    <3> QED BY <3>1, <3>2
  <2> HIDE DEF g
  <2>3. Waking => Waking'
    BY <2>1, <2>2 DEF Waking, ReadableAfter
  <2>4. CASE Waking'
    BY <2>4 DEF WakeupComing
  <2>5. CASE ~Waking'
    <3>1. CASE UNCHANGED <<pendingFunctors, readable, by>>
      BY <3>1, <2>1, <2>3, <2>5 DEF WakeupComing
    <3>2. CASE /\ g \in Tasks
               /\ pendingFunctors' = Append(pendingFunctors, g)
               /\ readable' = ReadableAfter(LoopThread)
               /\ by' = [by EXCEPT ![g] = LoopThread]
      <4>1. LoopThread = Owner
        BY <3>2, <2>5 DEF Waking, ReadableAfter, isInLoopThread
      <4>2. Range(pendingFunctors') = Range(pendingFunctors) \cup {g}
        BY <3>2, <1>a
      <4>3. (\E h \in Range(pendingFunctors') : by'[h] # Owner)
              => \E h \in Range(pendingFunctors) : by[h] # Owner
        BY <3>2, <4>1, <4>2, <1>b DEF TypeOK
      <4> QED BY <4>3, <2>1, <2>3, <2>5 DEF WakeupComing
    <3> QED BY <2>2, <3>1, <3>2
  <2> QED BY <2>4, <2>5
<1>8. CASE Stopped \/ UNCHANGED vars
  BY <1>8 DEF Stopped, vars, WakeupComing, Waking
<1> QED BY <1>1, <1>2, <1>3, <1>4, <1>5, <1>6, <1>7, <1>8 DEF Next, LoopStep

\* queueInLoop, quit and the eventfd, for any threads and whoever constructed the loop: it
\* never sleeps in epoll_wait with a task of another thread queued, or told by another
\* thread to quit, unless a thread is about to wake it.
THEOREM NoWakeupLost == Spec => []NoLostWakeup
<1>1. Init => WakeupComing
  BY EmptyRange DEF Init, WakeupComing
<1>2. WakeupComing => NoLostWakeup
  BY DEF WakeupComing, NoLostWakeup, Waking
<1> QED BY <1>1, <1>2, WakeupStep, TypeCorrect, PTL DEF Spec
=============================================================================

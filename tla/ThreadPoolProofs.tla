--------------------------- MODULE ThreadPoolProofs ---------------------------
(***************************************************************************)
(* What is proved of ThreadPool for any number of workers, producers and   *)
(* tasks: its type invariant, the order in which tasks are started, that   *)
(* no notification is lost, and that the destructor leaves neither a       *)
(* sleeping worker nor an unfinished task.                                 *)
(***************************************************************************)
EXTENDS ThreadPool, QueueLemmas, FiniteSetTheorems, TLAPS

\* Appending to the part of the queue that has not been started.
LEMMA PushLast ==
  \A s, t \in Seq(Tasks) : \A e \in Tasks : Append(s \o t, e) = s \o Append(t, e)
<1> SUFFICES ASSUME NEW s \in Seq(Tasks), NEW t \in Seq(Tasks), NEW e \in Tasks
             PROVE  Append(s \o t, e) = s \o Append(t, e)
  OBVIOUS
<1>1. s \o t \in Seq(Tasks) /\ <<e>> \in Seq(Tasks)
  BY ConcatProperties
<1>2. Append(s \o t, e) = (s \o t) \o <<e>> /\ Append(t, e) = t \o <<e>>
  BY <1>1, AppendIsConcat
<1>3. (s \o t) \o <<e>> = s \o (t \o <<e>>)
  BY <1>1, ConcatAssociative
<1> QED BY <1>2, <1>3

-----------------------------------------------------------------------------
\* Producers, workers and the destructor keep the types.
LEMMA TypeStep == TypeOK /\ [Next]_vars => TypeOK'
<1> SUFFICES ASSUME TypeOK, [Next]_vars PROVE TypeOK'
  OBVIOUS
<1> USE DEF TypeOK
<1>1. ASSUME NEW p \in Producers, NEW f \in Tasks, Enqueue(p, f) PROVE TypeOK'
  BY <1>1, AppendProperties DEF Enqueue, Push
<1>2. ASSUME NEW p \in Producers, NotifyOne(p) PROVE TypeOK'
  BY <1>2 DEF NotifyOne, Waiting
<1>3. ASSUME NEW w \in Workers, WaitOnCond(w) \/ WorkerReturn(w) \/ SpuriousWakeup(w)
      PROVE  TypeOK'
  BY <1>3 DEF WaitOnCond, WorkerReturn, SpuriousWakeup
<1>4. ASSUME NEW w \in Workers, TakeTask(w) PROVE TypeOK'
  <2>1. Head(tasks) \in Tasks /\ Tail(tasks) \in Seq(Tasks)
    BY <1>4, HeadTailProperties DEF TakeTask
  <2>2. Append(started, Head(tasks)) \in Seq(Tasks)
    BY <2>1, AppendProperties
  <2>3. [running EXCEPT ![w] = {Head(tasks)}] \in [Workers -> SUBSET Tasks]
    BY <2>1
  <2> QED BY <1>4, <2>1, <2>2, <2>3 DEF TakeTask
<1>5. ASSUME NEW w \in Workers, FinishTask(w) PROVE TypeOK'
  BY <1>5 DEF FinishTask
<1>6. CASE SetStop \/ NotifyAll \/ Join
  BY <1>6 DEF SetStop, NotifyAll, Join
<1>7. CASE Destroyed \/ UNCHANGED vars
  BY <1>7 DEF Destroyed, vars
<1> QED BY <1>1, <1>2, <1>3, <1>4, <1>5, <1>6, <1>7 DEF Next, WorkerStep

\* Type correctness of ThreadPool, for any workers, producers and tasks.
THEOREM TypeCorrect == Spec => []TypeOK
<1>1. Init => TypeOK
  BY EmptySeq DEF Init, TypeOK
<1> QED BY <1>1, TypeStep, PTL DEF Spec
-----------------------------------------------------------------------------
\* Tasks are pushed at the back and taken from the front.
LEMMA OrderStep == TypeOK /\ StartedInOrder /\ [Next]_vars => StartedInOrder'
<1> SUFFICES ASSUME TypeOK, StartedInOrder, [Next]_vars PROVE StartedInOrder'
  OBVIOUS
<1>1. ASSUME NEW p \in Producers, NEW f \in Tasks, Enqueue(p, f) PROVE StartedInOrder'
  <2>1. Append(enqueued, f) = started \o Append(tasks, f)
    BY PushLast DEF TypeOK, StartedInOrder
  <2> QED BY <1>1, <2>1 DEF Enqueue, Push, StartedInOrder
<1>2. ASSUME NEW w \in Workers, TakeTask(w) PROVE StartedInOrder'
  BY <1>2, MoveHead DEF TakeTask, TypeOK, StartedInOrder
<1>3. CASE UNCHANGED <<enqueued, started, tasks>>
  BY <1>3 DEF StartedInOrder
<1> QED BY <1>1, <1>2, <1>3
        DEF Next, WorkerStep, NotifyOne, WaitOnCond, WorkerReturn, SpuriousWakeup,
            FinishTask, SetStop, NotifyAll, Join, Destroyed, vars

\* enqueue and the worker loop: tasks are started once each, in the order of enqueue.
THEOREM TasksStartInOrder == Spec => []StartedInOrder
<1>1. Init => StartedInOrder
  <2>1. <<>> \o <<>> = <<>>
    BY EmptySeq, ConcatEmptySeq
  <2> QED BY <2>1 DEF Init, StartedInOrder
<1> QED BY <1>1, TypeCorrect, OrderStep, PTL DEF Spec
-----------------------------------------------------------------------------
\* Counting: what adding or removing one worker or producer does.
LEMMA CountSets ==
  /\ IsFiniteSet(Ready) /\ Cardinality(Ready) \in Nat
  /\ IsFiniteSet(Pushed) /\ Cardinality(Pushed) \in Nat
<1>1. Ready \subseteq Workers /\ Pushed \subseteq Producers
  BY DEF Ready, Pushed
<1>2. IsFiniteSet(Ready) /\ IsFiniteSet(Pushed)
  BY <1>1, PoolAssumption, FS_Subset
<1> QED BY <1>2, FS_CardinalityType

\* One more element in a finite set.
LEMMA CountAdd ==
  ASSUME NEW S, NEW x, IsFiniteSet(S), x \notin S
  PROVE  Cardinality(S \cup {x}) = Cardinality(S) + 1
BY FS_AddElement

\* One element less.
LEMMA CountRemove ==
  ASSUME NEW S, NEW x, IsFiniteSet(S), x \in S
  PROVE  Cardinality(S \ {x}) = Cardinality(S) - 1
BY FS_RemoveElement

\* Every queued task keeps a worker awake or a notification to come.
LEMMA NotifyStep == TypeOK /\ NoLostNotify /\ [Next]_vars => NoLostNotify'
<1> SUFFICES ASSUME TypeOK, NoLostNotify, [Next]_vars, Waiting' # {}
             PROVE  Len(tasks') <= Cardinality(Ready') + Cardinality(Pushed')
  BY DEF NoLostNotify
<1>a. Len(tasks) \in Nat
  BY LenProperties DEF TypeOK
<1>b. Len(<<>>) = 0
  BY EmptySeq
<1>c. /\ Cardinality(Ready') \in Nat /\ Cardinality(Pushed') \in Nat
  BY CountSets, PoolAssumption, FS_Subset, FS_CardinalityType DEF Ready, Pushed
<1>1. ASSUME NEW p \in Producers, NEW f \in Tasks, Enqueue(p, f)
      PROVE  Len(tasks') <= Cardinality(Ready') + Cardinality(Pushed')
  <2>1. Pushed' = Pushed \cup {p} /\ p \notin Pushed
    BY <1>1 DEF Enqueue, Pushed, TypeOK
  <2>2. Ready' = Ready /\ Waiting' = Waiting
    BY <1>1 DEF Enqueue, Ready, Waiting
  <2>3. Len(tasks') = Len(tasks) + 1
    BY <1>1, AppendProperties DEF Enqueue, Push, TypeOK
  <2>4. Cardinality(Pushed') = Cardinality(Pushed) + 1
    BY <2>1, CountSets, CountAdd
  <2> QED BY <1>a, <2>2, <2>3, <2>4, CountSets DEF NoLostNotify
<1>2. ASSUME NEW p \in Producers, NotifyOne(p)
      PROVE  Len(tasks') <= Cardinality(Ready') + Cardinality(Pushed')
  <2>1. Pushed' = Pushed \ {p} /\ p \in Pushed /\ tasks' = tasks
    BY <1>2 DEF NotifyOne, Pushed, TypeOK
  <2>2. PICK w \in Waiting : workerPc' = [workerPc EXCEPT ![w] = "ready"]
    BY <1>2 DEF NotifyOne, Waiting
  <2>3. Ready' = Ready \cup {w} /\ w \notin Ready
    BY <2>2 DEF Ready, Waiting, TypeOK
  <2>4. /\ Cardinality(Pushed') = Cardinality(Pushed) - 1
        /\ Cardinality(Ready') = Cardinality(Ready) + 1
    BY <2>1, <2>3, CountSets, CountAdd, CountRemove
  <2> QED BY <1>a, <2>1, <2>2, <2>4, CountSets DEF NoLostNotify
<1>3. ASSUME NEW w \in Workers, WaitOnCond(w) \/ WorkerReturn(w)
      PROVE  Len(tasks') <= Cardinality(Ready') + Cardinality(Pushed')
  <2>1. tasks' = <<>>
    BY <1>3 DEF WaitOnCond, WorkerReturn, WaitPredicate, MayReturn
  <2> QED BY <1>b, <1>c, <2>1
<1>4. ASSUME NEW w \in Workers, SpuriousWakeup(w) \/ FinishTask(w)
      PROVE  Len(tasks') <= Cardinality(Ready') + Cardinality(Pushed')
  <2>1. Ready' = Ready \cup {w} /\ w \notin Ready /\ Pushed' = Pushed /\ tasks' = tasks
    BY <1>4 DEF SpuriousWakeup, FinishTask, Ready, Pushed, TypeOK
  <2>2. Waiting # {}
    BY <1>4 DEF SpuriousWakeup, FinishTask, Waiting, TypeOK
  <2>3. Cardinality(Ready') = Cardinality(Ready) + 1
    BY <2>1, CountSets, CountAdd
  <2> QED BY <1>a, <2>1, <2>2, <2>3, CountSets DEF NoLostNotify
<1>5. ASSUME NEW w \in Workers, TakeTask(w)
      PROVE  Len(tasks') <= Cardinality(Ready') + Cardinality(Pushed')
  <2>1. Ready' = Ready \ {w} /\ w \in Ready /\ Pushed' = Pushed /\ Waiting' = Waiting
    BY <1>5 DEF TakeTask, Ready, Pushed, Waiting, TypeOK
  <2>2. Len(tasks') = Len(tasks) - 1
    BY <1>5, HeadTailProperties DEF TakeTask, TypeOK
  <2>3. Cardinality(Ready') = Cardinality(Ready) - 1
    BY <2>1, CountSets, CountRemove
  <2> QED BY <1>a, <2>1, <2>2, <2>3, CountSets DEF NoLostNotify
<1>6. CASE SetStop \/ Join \/ Destroyed \/ UNCHANGED vars
  <2>1. Ready' = Ready /\ Pushed' = Pushed /\ Waiting' = Waiting /\ tasks' = tasks
    BY <1>6 DEF SetStop, Join, Destroyed, vars, Ready, Pushed, Waiting
  <2> QED BY <2>1 DEF NoLostNotify
<1>7. CASE NotifyAll
  BY <1>7 DEF NotifyAll, Woken, Waiting
<1> QED BY <1>1, <1>2, <1>3, <1>4, <1>5, <1>6, <1>7 DEF Next, WorkerStep

\* enqueue's notify_one after unlocking and the workers' wait, for any finite number of
\* workers and producers: while a worker sleeps, every queued task has a worker that is
\* awake and free or a notification on its way.
THEOREM NoNotifyLost == Spec => []NoLostNotify
<1>1. Init => NoLostNotify
  <2> SUFFICES ASSUME Init PROVE Waiting = {}
    BY DEF NoLostNotify
  <2> QED BY DEF Init, Waiting
<1> QED BY <1>1, TypeCorrect, NotifyStep, PTL DEF Spec
-----------------------------------------------------------------------------
(* The destructor.                                                         *)

\* stop_ is set by the destructor's first step and by nothing else, and workers sleep
\* only before its second.
StopWithDtor ==
  /\ stop <=> dtorPc # "alive"
  /\ NobodySleepsThroughStop

\* A worker returns only once nothing is queued, and nothing is queued after that; the
\* destructor is over when all have returned.
ReturnedAfterDrain ==
  /\ \A w \in Workers : workerPc[w] = "returned" => stop /\ tasks = <<>>
  /\ dtorPc = "destroyed" => \A w \in Workers : workerPc[w] = "returned"

\* A task that was started has finished or is held by a worker that is running.
StartedAccounted ==
  /\ \A f \in Range(started) : f \in finished \/ \E w \in Workers : f \in running[w]
  /\ finished \subseteq Range(started)
  /\ \A w \in Workers : running[w] \subseteq Range(started)
  /\ \A w \in Workers : workerPc[w] # "running" => running[w] = {}

\* stop_ is set exactly while the destructor has got that far.
LEMMA StopStep == TypeOK /\ StopWithDtor /\ [Next]_vars => StopWithDtor'
<1> SUFFICES ASSUME TypeOK, StopWithDtor, [Next]_vars PROVE StopWithDtor'
  OBVIOUS
<1> USE DEF StopWithDtor, NobodySleepsThroughStop, Waiting
<1>1. ASSUME NEW p \in Producers, NEW f \in Tasks, Enqueue(p, f) PROVE StopWithDtor'
  BY <1>1 DEF Enqueue
<1>2. ASSUME NEW p \in Producers, NotifyOne(p) PROVE StopWithDtor'
  BY <1>2 DEF NotifyOne, TypeOK
<1>3. ASSUME NEW w \in Workers, WorkerStep(w) PROVE StopWithDtor'
  BY <1>3 DEF WorkerStep, WaitOnCond, WaitPredicate, TakeTask, WorkerReturn, FinishTask,
              TypeOK
<1>4. ASSUME NEW w \in Workers, SpuriousWakeup(w) PROVE StopWithDtor'
  BY <1>4 DEF SpuriousWakeup, TypeOK
<1>5. CASE SetStop \/ NotifyAll \/ Join
  BY <1>5 DEF SetStop, NotifyAll, Join, Woken, TypeOK
<1>6. CASE Destroyed \/ UNCHANGED vars
  BY <1>6 DEF Destroyed, vars
<1> QED BY <1>1, <1>2, <1>3, <1>4, <1>5, <1>6 DEF Next

\* ~ThreadPool: once notify_all has been called no worker sleeps, whatever it was doing
\* when stop_ was set.
THEOREM StopWakesEverybody == Spec => []NobodySleepsThroughStop
<1>1. Init => StopWithDtor
  BY DEF Init, StopWithDtor, NobodySleepsThroughStop
<1>2. StopWithDtor => NobodySleepsThroughStop
  BY DEF StopWithDtor
<1> QED BY <1>1, <1>2, TypeCorrect, StopStep, PTL DEF Spec

\* A worker leaves only when nothing is queued any more.
LEMMA DrainStep ==
  TypeOK /\ StopWithDtor /\ ReturnedAfterDrain /\ [Next]_vars => ReturnedAfterDrain'
<1> SUFFICES ASSUME TypeOK, StopWithDtor, ReturnedAfterDrain, [Next]_vars
             PROVE  ReturnedAfterDrain'
  OBVIOUS
<1> USE DEF ReturnedAfterDrain
<1>1. ASSUME NEW p \in Producers, NEW f \in Tasks, Enqueue(p, f) PROVE ReturnedAfterDrain'
  BY <1>1 DEF Enqueue, StopWithDtor
<1>2. ASSUME NEW p \in Producers, NotifyOne(p) PROVE ReturnedAfterDrain'
  BY <1>2 DEF NotifyOne, Waiting, TypeOK
<1>3. ASSUME NEW w \in Workers, WaitOnCond(w) \/ FinishTask(w) \/ SpuriousWakeup(w)
      PROVE  ReturnedAfterDrain'
  BY <1>3 DEF WaitOnCond, FinishTask, SpuriousWakeup, TypeOK
<1>4. ASSUME NEW w \in Workers, TakeTask(w) PROVE ReturnedAfterDrain'
  BY <1>4 DEF TakeTask, TypeOK
<1>5. ASSUME NEW w \in Workers, WorkerReturn(w) PROVE ReturnedAfterDrain'
  BY <1>5 DEF WorkerReturn, MayReturn, TypeOK
<1>6. CASE SetStop \/ NotifyAll \/ Join
  BY <1>6 DEF SetStop, NotifyAll, Join, Woken, Waiting, TypeOK
<1>7. CASE Destroyed \/ UNCHANGED vars
  BY <1>7 DEF Destroyed, vars
<1> QED BY <1>1, <1>2, <1>3, <1>4, <1>5, <1>6, <1>7 DEF Next, WorkerStep

\* What was started has finished or is being run.
LEMMA AccountStep == TypeOK /\ StartedAccounted /\ [Next]_vars => StartedAccounted'
<1> SUFFICES ASSUME TypeOK, StartedAccounted, [Next]_vars PROVE StartedAccounted'
  OBVIOUS
<1>1. ASSUME NEW w \in Workers, TakeTask(w) PROVE StartedAccounted'
  <2>1. Head(tasks) \in Tasks
    BY <1>1, HeadTailProperties DEF TakeTask, TypeOK
  <2>2. Range(started') = Range(started) \cup {Head(tasks)}
    BY <1>1, <2>1, RangeAppend DEF TakeTask, TypeOK
  <2>3. running[w] = {} /\ running' = [running EXCEPT ![w] = {Head(tasks)}]
    BY <1>1 DEF TakeTask, StartedAccounted
  <2> QED BY <1>1, <2>2, <2>3 DEF TakeTask, StartedAccounted, TypeOK
<1>2. ASSUME NEW w \in Workers, FinishTask(w) PROVE StartedAccounted'
  BY <1>2 DEF FinishTask, StartedAccounted, TypeOK
<1>3. ASSUME NEW w \in Workers, WaitOnCond(w) \/ WorkerReturn(w) \/ SpuriousWakeup(w)
      PROVE  StartedAccounted'
  BY <1>3 DEF WaitOnCond, WorkerReturn, SpuriousWakeup, StartedAccounted, TypeOK
<1>4. ASSUME NEW p \in Producers, NotifyOne(p) PROVE StartedAccounted'
  BY <1>4 DEF NotifyOne, Waiting, StartedAccounted, TypeOK
<1>5. ASSUME NEW p \in Producers, NEW f \in Tasks, Enqueue(p, f) PROVE StartedAccounted'
  BY <1>5 DEF Enqueue, StartedAccounted
<1>6. CASE SetStop \/ NotifyAll \/ Join
  BY <1>6 DEF SetStop, NotifyAll, Join, Woken, Waiting, StartedAccounted, TypeOK
<1>7. CASE Destroyed \/ UNCHANGED vars
  BY <1>7 DEF Destroyed, vars, StartedAccounted
<1> QED BY <1>1, <1>2, <1>3, <1>4, <1>5, <1>6, <1>7 DEF Next, WorkerStep

\* ~ThreadPool of a pool with at least one worker: when it returns, every task that was
\* ever enqueued has been run to its end.
THEOREM DestroyedIsDrained == Spec => []DrainedWhenDestroyed
<1>1. Init => StopWithDtor /\ ReturnedAfterDrain /\ StartedAccounted
  <2> SUFFICES ASSUME Init PROVE StopWithDtor /\ ReturnedAfterDrain /\ StartedAccounted
    OBVIOUS
  <2>1. StopWithDtor /\ ReturnedAfterDrain
    BY DEF Init, StopWithDtor, NobodySleepsThroughStop, ReturnedAfterDrain
  <2>2. Range(started) = {}
    BY EmptySeq DEF Init, Range
  <2> QED BY <2>1, <2>2 DEF Init, StartedAccounted
<1>2. TypeOK /\ StartedInOrder /\ ReturnedAfterDrain /\ StartedAccounted
        => DrainedWhenDestroyed
  <2> SUFFICES ASSUME TypeOK, StartedInOrder, ReturnedAfterDrain, StartedAccounted,
                      dtorPc = "destroyed", Workers # {}
               PROVE  tasks = <<>> /\ finished = Range(enqueued)
    BY DEF DrainedWhenDestroyed
  <2>1. tasks = <<>>
    BY DEF ReturnedAfterDrain
  <2>2. enqueued = started
    BY <2>1, ConcatEmptySeq DEF StartedInOrder, TypeOK
  <2>3. \A w \in Workers : running[w] = {}
    BY DEF ReturnedAfterDrain, StartedAccounted
  <2> QED BY <2>1, <2>2, <2>3 DEF StartedAccounted
<1> QED BY <1>1, <1>2, TypeCorrect, TasksStartInOrder, StopStep, DrainStep, AccountStep,
           PTL DEF Spec
=============================================================================

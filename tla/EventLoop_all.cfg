\* As in rpc_server: main constructs the loop and another thread runs it; main and two
\* workers submit tasks and quit, and one task queues a further one.
CONSTANTS
  f1 = f1  f2 = f2  f3 = f3
  NoTask = NoTask  NoThread = NoThread
  LoopThread = io
  Submitters = {main, w1, w2}
  Owner = main
  Tasks <- ThreeTasks
  Follow <- Chain
SPECIFICATION FairSpec
INVARIANTS QueueOrder NoLostWakeup
PROPERTIES WakeupReachesLoop TimeoutReachesAll

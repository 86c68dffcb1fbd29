\* More workers than producers and more tasks than workers.
CONSTANTS
  Workers = {w1, w2, w3}
  Producers = {p1, p2}
  Tasks = {t1, t2, t3, t4}
SPECIFICATION FairSpec
INVARIANTS StartedInOrder NoLostNotify NobodySleepsThroughStop DrainedWhenDestroyed
PROPERTIES EnqueuedTaskFinishes DestructorReturns

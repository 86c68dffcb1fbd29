CONSTANTS
  Threads = {t1, t2}
  Clients = {k1, k2, k3}
  Addresses = {1, 2}
  Garbage = 9
  NoFile = NoFile
  retryTimes = 1
  Width = 1
  MaxChanges = 2
  Uses <- SharedOrNot
  type <- Balancers
  t1 = t1
  t2 = t2
  k1 = k1
  k2 = k2
  k3 = k3
SPECIFICATION FairSpec
INVARIANTS
  DiskIsWhole
  CallerGetsRegistered
  RoundRobinTurns
PROPERTIES
  LookupEnds
  StaleListIsReplaced

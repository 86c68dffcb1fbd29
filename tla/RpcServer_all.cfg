\* Two clients and two descriptors: c1 sends a malformed request, c2 a good one and one
\* without bytes.
CONSTANTS
  c1 = c1  c2 = c2
  Listener = Listener  NoConn = NoConn  NoFd = NoFd
  Conns = {c1, c2}
  Fds = {d1, d2}
  Kind <- Mixed
SPECIFICATION FairSpec
INVARIANTS
  TypeOK ResponseReachesItsClient RequestInOnePlace RegistrationIsCurrent
PROPERTIES LoopLeavesNoDanglingEvent HungUpIsReleased RequestIsAnswered

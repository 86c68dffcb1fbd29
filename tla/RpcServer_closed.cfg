\* A client that hangs up.
CONSTANTS
  c1 = c1  c2 = c2
  Listener = Listener  NoConn = NoConn  NoFd = NoFd
  Conns = {c1}
  Fds = {d1}
  Kind <- AllGood
SPECIFICATION Spec
INVARIANT DestroyedIsNotAccessed

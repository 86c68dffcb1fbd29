\* One descriptor, which the second client gets after the first has hung up.
CONSTANTS
  c1 = c1  c2 = c2
  Listener = Listener  NoConn = NoConn  NoFd = NoFd
  Conns = {c1, c2}
  Fds = {d1}
  Kind <- AllGood
SPECIFICATION Spec
INVARIANT EstablishedIsRegistered

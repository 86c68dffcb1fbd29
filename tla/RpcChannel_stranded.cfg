\* Nothing fails; two asynchronous calls share one address.
CONSTANTS
  retried = retried  once = once  async1 = async1  async2 = async2  foreign = foreign
  NoConn = NoConn  NoCall = NoCall  NoAddr = NoAddr  Unparsed = Unparsed
  Calls <- PairCalls
  AsyncCalls <- PairCalls
  Idempotent = {}
  ForeignController = {}
  MaxCalls = 2
  MaxRetries = 0
  Addrs = {a1}
  ConnIds = {k1, k2}
  Kinds = {"ok"}
  Faults = FALSE
SPECIFICATION FairSpec
PROPERTIES DeliveredIsHandled

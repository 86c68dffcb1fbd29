\* Any two of four calls share one address, and everything that can fail fails.
CONSTANTS
  retried = retried  once = once  async1 = async1  async2 = async2  foreign = foreign
  NoConn = NoConn  NoCall = NoCall  NoAddr = NoAddr  Unparsed = Unparsed
  Calls <- AllCalls
  AsyncCalls = {async1, foreign}
  Idempotent = {retried}
  ForeignController = {foreign}
  MaxCalls = 2
  MaxRetries = 1
  Addrs = {a1}
  ConnIds = {k1, k2}
  Kinds = {"ok", "error", "empty"}
  Faults = TRUE
SPECIFICATION FairSpec
INVARIANTS OwnResult ReplyOfThisAttempt RunsWithinBudget NoPendingLeak
           ControllerAgrees DoneAtMostOnce
PROPERTIES ImplementsRpcCall SyncCallEnds

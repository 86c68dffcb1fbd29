------------------------------ MODULE RpcChannel ------------------------------
(***************************************************************************)
(* The client side of an RPC: RpcChannel (src/src/rpc/rpc_channel.cpp).    *)
(*                                                                         *)
(* Every call runs in a thread of its caller; all responses are read by    *)
(* the one thread of the static clientLoop. The threads meet in            *)
(* connections_ (under connMutex_), in pendingSync_ and pendingAsync_      *)
(* (under pendingMutex_) and in the atomic nextId_; a step of this module  *)
(* is what a thread does between two of those points.                      *)
(*                                                                         *)
(* The server is the environment: it runs the requests of a connection in  *)
(* any order (RpcServer hands them to a thread pool) and answers each      *)
(* once. A connection may break at any time. A frame is atomic here; how   *)
(* bytes become frames is the business of Buffer and RpcCodec.             *)
(***************************************************************************)
EXTENDS Integers, Sequences, FiniteSets

CONSTANTS
  Calls,              \* CallMethod invocations, each with a controller of its own
  AsyncCalls,         \* the ones that pass a done closure
  Idempotent,         \* the ones whose controller says isIdempotent()
  ForeignController,  \* the ones whose controller is not a CustomController
  MaxCalls,           \* bounds how many of the calls are ever made
  MaxRetries,         \* maxRetries() of every controller
  Addrs,              \* server addresses the registry may return
  ConnIds,            \* TcpConnection objects; bounds how many are ever opened
  Kinds,              \* what the server answers, a subset of AllKinds
  Faults,             \* TRUE: connections break, close() is called, lookups fail
  NoConn, NoCall, NoAddr,
  Unparsed            \* a caller's message into which a result could not be parsed

AllKinds == {"ok",     \* NO_ERROR with a result
             "empty",  \* NO_ERROR with an empty result: serialises to no bytes at all
             "error"}  \* any other error code

ASSUME ChannelAssumption ==
  /\ AsyncCalls \subseteq Calls
  /\ Idempotent \subseteq Calls
  /\ ForeignController \subseteq Calls
  /\ MaxRetries \in Nat
  /\ MaxCalls \in Nat
  /\ Kinds \subseteq AllKinds
  /\ Faults \in BOOLEAN
  /\ NoConn \notin ConnIds
  /\ NoCall \notin Calls
  /\ Unparsed \notin Calls \cup {NoCall}
  /\ NoAddr \notin Addrs

VARIABLES
  \* The thread of each call.
  pc,            \* where CallMethod stands
  addr,          \* the address select() chose
  conn,          \* the connection doCall holds a shared_ptr to
  id,            \* the id of the attempt
  tries,         \* attempts that failed, i of CallMethod's loop
  reply,         \* value of the attempt's promise: empty, or the one response
  failed,        \* failed_ of the controller
  result,        \* the call whose arguments the result in the caller's message was
                 \* computed from, or Unparsed
  doneRuns,      \* how often done->Run() ran
  \* The channel.
  connections,   \* connections_: address -> connection
  nextId,        \* nextId_
  pendingSync,   \* pendingSync_
  pendingAsync,  \* pendingAsync_
  io,            \* the callback clientLoop is running without a lock, if any
  \* The connections and the server behind them.
  created,       \* connections opened so far
  shut,          \* connections close() has shut down for writing
  down,          \* connections the peer or the network has broken
  requests,      \* requests on their way to a worker of the server
  responses,     \* responses[k]: responses on their way back
  inbuf,         \* inbuf[k]: whole frames in inputBuffer_ not yet decoded
  runs           \* runs[c]: requests of c the server has run

callVars == <<pc, addr, conn, id, tries, reply, failed, result, doneRuns>>
chanVars == <<connections, nextId, pendingSync, pendingAsync, io>>
netVars  == <<created, shut, down, requests, responses, inbuf, runs>>
vars     == <<callVars, chanVars, netVars>>

Pending  == [id : Nat, call : Calls]
Request  == [conn : ConnIds, id : Nat, call : Calls]
Response == [id : Nat, call : Calls, kind : Kinds]
Callback == [conn : ConnIds, call : Calls, rsp : Response]

Locations == {"idle", "attempt", "lookup", "open", "issue", "send", "wait",
              "expired", "returned"}

Init ==
  /\ pc = [c \in Calls |-> "idle"]
  /\ addr = [c \in Calls |-> NoAddr]
  /\ conn = [c \in Calls |-> NoConn]
  /\ id = [c \in Calls |-> 0]
  /\ tries = [c \in Calls |-> 0]
  /\ reply = [c \in Calls |-> {}]
  /\ failed = [c \in Calls |-> FALSE]
  /\ result = [c \in Calls |-> NoCall]
  /\ doneRuns = [c \in Calls |-> 0]
  /\ connections = [a \in Addrs |-> NoConn]
  /\ nextId = 0
  /\ pendingSync = {}
  /\ pendingAsync = {}
  /\ io = {}
  /\ created = {}
  /\ shut = {}
  /\ down = {}
  /\ requests = {}
  /\ responses = [k \in ConnIds |-> <<>>]
  /\ inbuf = [k \in ConnIds |-> <<>>]
  /\ runs = [c \in Calls |-> 0]

-----------------------------------------------------------------------------
(* The pending maps and the references that keep a connection alive.       *)

\* pending[id] = ...: replaces the entry of an id that is already there.
InsertPending(pending, i, c) ==
  {p \in pending : p.id # i} \cup {[id |-> i, call |-> c]}

\* pending.erase(id)
ForgetNothing(pending, i) == pending
ErasePending(pending, i) == {p \in pending : p.id # i}

\* A TcpConnection lives while connections_, a doCall in progress or the callback
\* in progress holds a shared_ptr to it. The last holder's release closes the
\* socket, in whichever thread that happens.
Alive(k) ==
  \/ \E a \in Addrs : connections[a] = k
  \/ \E c \in Calls : conn[c] = k
  \/ \E cb \in io : cb.conn = k

-----------------------------------------------------------------------------
(* CallMethod and its retry loop.                                          *)

\* Another round of the loop: i <= maxRetries, and only an idempotent call gets
\* past the first round.
RetryAnything(c) == tries[c] < MaxRetries
CanRetry(c) == tries[c] < MaxRetries /\ c \in Idempotent

\* failed_ after a failed attempt: Reset() clears it before the next round,
\* SetFailed("all retries exhausted") sets it after the last one.
NeverReset(c) == TRUE
FailedAfterAttempt(c) == ~CanRetry(c)

\* Leaving doCall with false and going round the loop, or leaving doCallAsync
\* through SetFailed and done->Run().
AttemptFails(c) ==
  /\ conn' = [conn EXCEPT ![c] = NoConn]
  /\ reply' = [reply EXCEPT ![c] = {}]
  /\ IF c \in AsyncCalls
     THEN /\ pc' = [pc EXCEPT ![c] = "returned"]
          /\ failed' = [failed EXCEPT ![c] = TRUE]
          /\ doneRuns' = [doneRuns EXCEPT ![c] = @ + 1]
          /\ UNCHANGED tries
     ELSE /\ pc' = [pc EXCEPT ![c] = IF CanRetry(c) THEN "attempt" ELSE "returned"]
          /\ failed' = [failed EXCEPT ![c] = FailedAfterAttempt(c)]
          /\ tries' = [tries EXCEPT ![c] = @ + 1]
          /\ UNCHANGED doneRuns
  /\ UNCHANGED <<addr, id, result>>

\* One more call, within the bound.
MayCall == Cardinality({c \in Calls : pc[c] # "idle"}) < MaxCalls

CallMethod(c) ==
  /\ pc[c] = "idle"
  /\ MayCall
  /\ c \notin ForeignController
  /\ pc' = [pc EXCEPT ![c] = "attempt"]
  /\ UNCHANGED <<addr, conn, id, tries, reply, failed, result, doneRuns>>
  /\ UNCHANGED <<chanVars, netVars>>

\* The dynamic_cast fails: SetFailed, done->Run() if there is a closure.
RejectController(c) ==
  /\ pc[c] = "idle"
  /\ MayCall
  /\ c \in ForeignController
  /\ pc' = [pc EXCEPT ![c] = "returned"]
  /\ failed' = [failed EXCEPT ![c] = TRUE]
  /\ doneRuns' = [doneRuns EXCEPT ![c] = IF c \in AsyncCalls THEN @ + 1 ELSE @]
  /\ UNCHANGED <<addr, conn, id, tries, reply, result>>
  /\ UNCHANGED <<chanVars, netVars>>
-----------------------------------------------------------------------------
(* doCall and doCallAsync, up to the request being written.                *)

\* getAddresses() and select(): no address at all, or one of them.
SelectAddress(c) ==
  /\ pc[c] = "attempt"
  /\ \/ Faults /\ AttemptFails(c)
     \/ /\ \E a \in Addrs : addr' = [addr EXCEPT ![c] = a]
        /\ pc' = [pc EXCEPT ![c] = "lookup"]
        /\ UNCHANGED <<conn, id, tries, reply, failed, result, doneRuns>>
  /\ UNCHANGED <<chanVars, netVars>>

\* getConnection, first critical section: whatever connections_ holds is returned,
\* broken or not.
FindConnection(c) ==
  /\ pc[c] = "lookup"
  /\ LET k == connections[addr[c]]
     IN /\ conn' = [conn EXCEPT ![c] = k]
        /\ pc' = [pc EXCEPT ![c] = IF k = NoConn THEN "open" ELSE "issue"]
  /\ UNCHANGED <<addr, id, tries, reply, failed, result, doneRuns>>
  /\ UNCHANGED <<chanVars, netVars>>

\* A connection that has not been used; which one makes no difference.
NewConn == CHOOSE k \in ConnIds \ created : TRUE

\* getConnection, the rest: the address does not parse or socket()/connect() fails;
\* or a new connection is put into connections_, replacing one that another thread
\* has put there since the lookup.
OpenConnection(c) ==
  /\ pc[c] = "open"
  /\ \/ Faults /\ AttemptFails(c) /\ UNCHANGED <<connections, created>>
     \/ /\ ConnIds \ created # {}
        /\ LET k == NewConn
           IN /\ created' = created \cup {k}
              /\ connections' = [connections EXCEPT ![addr[c]] = k]
              /\ conn' = [conn EXCEPT ![c] = k]
        /\ pc' = [pc EXCEPT ![c] = "issue"]
        /\ UNCHANGED <<addr, id, tries, reply, failed, result, doneRuns>>
  /\ UNCHANGED <<nextId, pendingSync, pendingAsync, io>>
  /\ UNCHANGED <<shut, down, requests, responses, inbuf, runs>>

\* nextId_ after a fetch_add(1).
NoIncrement(n) == n
FetchAdd(n) == n + 1

\* Takes an id and enters the pending map. Nobody else knows the id in between.
Issue(c) ==
  /\ pc[c] = "issue"
  /\ id' = [id EXCEPT ![c] = nextId]
  /\ nextId' = FetchAdd(nextId)
  /\ IF c \in AsyncCalls
     THEN /\ pendingAsync' = InsertPending(pendingAsync, nextId, c)
          /\ UNCHANGED pendingSync
     ELSE /\ pendingSync' = InsertPending(pendingSync, nextId, c)
          /\ UNCHANGED pendingAsync
  /\ pc' = [pc EXCEPT ![c] = "send"]
  /\ UNCHANGED <<addr, conn, tries, reply, failed, result, doneRuns>>
  /\ UNCHANGED <<connections, io, netVars>>

\* conn->send(packed). What is written to a broken or shut connection is lost.
\* doCallAsync then returns and lets go of the connection.
SendRequest(c) ==
  /\ pc[c] = "send"
  /\ requests' = IF conn[c] \in shut \cup down
                 THEN requests
                 ELSE requests \cup {[conn |-> conn[c], id |-> id[c], call |-> c]}
  /\ IF c \in AsyncCalls
     THEN /\ pc' = [pc EXCEPT ![c] = "returned"]
          /\ conn' = [conn EXCEPT ![c] = NoConn]
     ELSE /\ pc' = [pc EXCEPT ![c] = "wait"]
          /\ UNCHANGED conn
  /\ UNCHANGED <<addr, id, tries, reply, failed, result, doneRuns>>
  /\ UNCHANGED <<chanVars, created, shut, down, responses, inbuf, runs>>
-----------------------------------------------------------------------------
(* doCall, from the wait to the end of the attempt.                        *)

\* What response->ParseFromString(result) may make of the caller's message: the bytes may
\* not be a message of its class, and the return value is ignored.
Filled(r) == {r.call, Unparsed}

\* wait_for returns ready: an error response fails the attempt, any other is parsed
\* into the caller's message and ends the call, whether that succeeds or not.
GetFuture(c) ==
  /\ pc[c] = "wait"
  /\ \E r \in reply[c] :
       IF r.kind = "error"
       THEN AttemptFails(c)
       ELSE /\ \E m \in Filled(r) : result' = [result EXCEPT ![c] = m]
            /\ pc' = [pc EXCEPT ![c] = "returned"]
            /\ conn' = [conn EXCEPT ![c] = NoConn]
            /\ UNCHANGED <<addr, id, tries, reply, failed, doneRuns>>
  /\ UNCHANGED <<chanVars, netVars>>

\* wait_for returns timeout: the promise had no value when the time was up.
WaitForever(c) == FALSE
WaitTimeout(c) ==
  /\ pc[c] = "wait"
  /\ reply[c] = {}
  /\ pc' = [pc EXCEPT ![c] = "expired"]
  /\ UNCHANGED <<addr, conn, id, tries, reply, failed, result, doneRuns>>
  /\ UNCHANGED <<chanVars, netVars>>

\* removePending(id), after which the attempt has failed. The response may have set
\* the promise since the timeout: it is dropped with the future.
RemovePending(c) ==
  /\ pc[c] = "expired"
  /\ pendingSync' = ErasePending(pendingSync, id[c])
  /\ AttemptFails(c)
  /\ UNCHANGED <<connections, nextId, pendingAsync, io, netVars>>
-----------------------------------------------------------------------------
(* The thread of clientLoop.                                               *)

\* onRpcResponse on one decoded frame r of connection k. A frame whose payload is
\* empty was consumed by tryUnpackWithId but is taken for an incomplete one.
OnRpcResponse(k, r) ==
  \/ /\ r.kind = "empty"
     /\ UNCHANGED <<reply, pendingSync, pendingAsync, io>>
  \/ /\ r.kind # "empty"
     /\ \E p \in pendingSync :
          /\ p.id = r.id
          /\ reply' = [reply EXCEPT ![p.call] = {r}]
     /\ pendingSync' = ErasePending(pendingSync, r.id)
     /\ UNCHANGED <<pendingAsync, io>>
  \/ /\ r.kind # "empty"
     /\ \A p \in pendingSync : p.id # r.id
     /\ \E p \in pendingAsync :
          /\ p.id = r.id
          /\ io' = {[conn |-> k, call |-> p.call, rsp |-> r]}
     /\ pendingAsync' = ErasePending(pendingAsync, r.id)
     /\ UNCHANGED <<reply, pendingSync>>
  \/ /\ r.kind # "empty"
     /\ \A p \in pendingSync \cup pendingAsync : p.id # r.id
     /\ UNCHANGED <<reply, pendingSync, pendingAsync, io>>

\* handleRead of connection k: a read brings n whole frames (none when it ends inside
\* the first), then onRpcResponse decodes one frame, the oldest, and returns.
HandleRead(k) ==
  /\ io = {}
  /\ Alive(k)
  /\ responses[k] # <<>>
  /\ \E n \in 0 .. Len(responses[k]) :
       LET avail == inbuf[k] \o SubSeq(responses[k], 1, n)
       IN /\ avail # <<>>
          /\ responses' = [responses EXCEPT
                             ![k] = SubSeq(responses[k], n + 1, Len(responses[k]))]
          /\ inbuf' = [inbuf EXCEPT ![k] = Tail(avail)]
          /\ OnRpcResponse(k, Head(avail))
  /\ UNCHANGED <<pc, addr, conn, id, tries, failed, result, doneRuns>>
  /\ UNCHANGED <<connections, nextId, created, shut, down, requests, runs>>

\* The unlocked end of onRpcResponse for an asynchronous call.
RunDone ==
  /\ \E cb \in io :
       /\ IF cb.rsp.kind = "error"
          THEN failed' = [failed EXCEPT ![cb.call] = TRUE] /\ UNCHANGED result
          ELSE \E m \in Filled(cb.rsp) :
                 result' = [result EXCEPT ![cb.call] = m] /\ UNCHANGED failed
       /\ doneRuns' = [doneRuns EXCEPT ![cb.call] = @ + 1]
  /\ io' = {}
  /\ UNCHANGED <<pc, addr, conn, id, tries, reply>>
  /\ UNCHANGED <<connections, nextId, pendingSync, pendingAsync, netVars>>

\* RpcChannel::close(): shuts every connection down and lets go of all of them.
Close ==
  /\ Faults
  /\ \E a \in Addrs : connections[a] # NoConn
  /\ shut' = shut \cup {k \in ConnIds : \E a \in Addrs : connections[a] = k}
  /\ connections' = [a \in Addrs |-> NoConn]
  /\ UNCHANGED <<callVars, nextId, pendingSync, pendingAsync, io>>
  /\ UNCHANGED <<created, down, requests, responses, inbuf, runs>>
-----------------------------------------------------------------------------
(* The environment: server and network.                                    *)

\* The server runs a request and answers it, whatever has become of the caller. The
\* answer is lost if the client no longer has the connection.
ServerRun(r) ==
  /\ requests' = requests \ {r}
  /\ runs' = [runs EXCEPT ![r.call] = @ + 1]
  /\ \E kind \in Kinds :
       responses' = IF r.conn \in down \/ ~Alive(r.conn)
                    THEN responses
                    ELSE [responses EXCEPT ![r.conn] =
                            Append(@, [id |-> r.id, call |-> r.call, kind |-> kind])]
  /\ UNCHANGED <<callVars, chanVars, created, shut, down, inbuf>>

\* A connection breaks: refused after EINPROGRESS, reset, closed by the peer. Client
\* connections have no closeCallback_, so connections_ keeps the broken connection.
\* Answers on their way are lost; requests that had arrived may still be run.
Break(k) ==
  /\ Faults
  /\ down' = down \cup {k}
  /\ responses' = [responses EXCEPT ![k] = <<>>]
  /\ UNCHANGED <<callVars, chanVars, created, shut, requests, inbuf, runs>>

\* Every call that was made has its answer or its failure and clientLoop keeps polling.
Quiescent ==
  /\ \A c \in Calls : pc[c] = "returned" \/ (pc[c] = "idle" /\ ~MayCall)
  /\ UNCHANGED vars
-----------------------------------------------------------------------------
Caller(c) ==
  \/ SelectAddress(c) \/ FindConnection(c) \/ OpenConnection(c) \/ Issue(c)
  \/ SendRequest(c) \/ GetFuture(c) \/ WaitTimeout(c) \/ RemovePending(c)

Next ==
  \/ \E c \in Calls : CallMethod(c) \/ RejectController(c) \/ Caller(c)
  \/ \E k \in ConnIds : HandleRead(k)
  \/ RunDone
  \/ Close
  \/ \E r \in requests : ServerRun(r)
  \/ \E k \in created \ down : Break(k)
  \/ Quiescent

Spec == Init /\ [][Next]_vars

\* A caller's thread and clientLoop keep running, and time passes in wait_for. Whether
\* a call is made, whether the server answers and whether anything breaks is open.
Fairness ==
  /\ \A c \in Calls : WF_vars(Caller(c))
  /\ \A k \in ConnIds : WF_vars(HandleRead(k))
  /\ WF_vars(RunDone)

FairSpec == Spec /\ Fairness
-----------------------------------------------------------------------------
(* Properties.                                                             *)

\* Type invariant: every variable keeps its shape; at most one value per promise and
\* at most one callback at a time.
TypeOK ==
  /\ pc \in [Calls -> Locations]
  /\ addr \in [Calls -> Addrs \cup {NoAddr}]
  /\ conn \in [Calls -> ConnIds \cup {NoConn}]
  /\ id \in [Calls -> Nat]
  /\ tries \in [Calls -> Nat]
  /\ reply \in [Calls -> SUBSET Response]
  /\ failed \in [Calls -> BOOLEAN]
  /\ result \in [Calls -> Calls \cup {NoCall, Unparsed}]
  /\ doneRuns \in [Calls -> Nat]
  /\ connections \in [Addrs -> ConnIds \cup {NoConn}]
  /\ nextId \in Nat
  /\ pendingSync \subseteq Pending
  /\ pendingAsync \subseteq Pending
  /\ io \subseteq Callback
  /\ created \subseteq ConnIds
  /\ shut \subseteq ConnIds
  /\ down \subseteq ConnIds
  /\ requests \subseteq Request
  /\ responses \in [ConnIds -> Seq(Response)]
  /\ inbuf \in [ConnIds -> Seq(Response)]
  /\ runs \in [Calls -> Nat]

\* A call that returns a result returns the one computed from its own arguments,
\* however many calls share a connection, in whatever order their responses come and
\* however late: the id that packWithId sends along tells the responses apart.
OwnResult == \A c \in Calls : result[c] \in {c, NoCall, Unparsed}

\* The response a waiting doCall finds in its future answers the attempt it is making,
\* never an earlier attempt of the same call that has timed out.
ReplyOfThisAttempt == \A c \in Calls : \A r \in reply[c] : r.id = id[c]

\* What RpcCall sees of a call, once it has been made: whether an answer, parsed or not,
\* or a failure has been reported.
CallStatus(c) ==
  CASE pc[c] = "idle" -> "idle"
    [] pc[c] # "idle" /\ result[c] # NoCall -> "ok"
    [] pc[c] # "idle" /\ result[c] = NoCall /\ failed[c] -> "failed"
    [] OTHER -> "calling"

Abstract == INSTANCE RpcCall WITH status <- [c \in Calls |-> CallStatus(c)], execs <- runs

\* What Budget of RpcCall allows: a server never runs an asynchronous or a
\* non-idempotent call twice, nor an idempotent one more than maxRetries() + 1 times,
\* whatever is lost, late or retried.
RunsWithinBudget == \A c \in Calls : runs[c] <= Abstract!Budget(c)

\* pendingSync_ holds nothing but the attempts being made: a call that timed out or was
\* answered leaves no entry behind, which would hold its promise for ever.
NoPendingLeak ==
  \A p \in pendingSync : pc[p.call] \in {"send", "wait", "expired"} /\ p.id = id[p.call]

\* An asynchronous call ends once: done->Run() runs at most once, not while the call is
\* still pending or being called back, and never for a synchronous call.
DoneAtMostOnce ==
  \A c \in Calls :
    /\ doneRuns[c] <= (IF c \in AsyncCalls THEN 1 ELSE 0)
    /\ (\E p \in pendingAsync : p.call = c) \/ (\E cb \in io : cb.call = c)
         => doneRuns[c] = 0

\* When a synchronous call is over, its controller says Failed() exactly if no attempt got
\* a response with NO_ERROR, also after retries that failed before one that did not. It
\* does not say whether the result of that response could be parsed: doCall does not ask
\* (rpc_channel.cpp:182), and a message that was not filled in counts as a success.
ControllerAgrees ==
  \A c \in Calls \ AsyncCalls :
    pc[c] = "returned" => (failed[c] <=> result[c] = NoCall)

\* The channel does what RpcCall promises.
ImplementsRpcCall == Abstract!CallSpec

\* A synchronous call ends, with a result or a failure, even if no response ever comes:
\* as each is made once, again and again none is in progress.
SyncCallEnds ==
  []<>(\A c \in Calls \ AsyncCalls : pc[c] \in {"idle", "returned"})

\* README.md:46 says the channel matches responses to requests. So a response that has
\* reached the input buffer of a connection the client still has is handled at some time.
DeliveredIsHandled ==
  \A k \in ConnIds : inbuf[k] # <<>> ~> (inbuf[k] = <<>> \/ ~Alive(k))

\* The same sentence about asynchronous calls: while a call waits for its response the
\* channel has the connection that the request went out on.
PendingKeepsConnection ==
  \A r \in requests : (\E p \in pendingAsync : p.id = r.id) => Alive(r.conn)
=============================================================================

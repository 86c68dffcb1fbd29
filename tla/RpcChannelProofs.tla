--------------------------- MODULE RpcChannelProofs ---------------------------
(***************************************************************************)
(* What is proved of RpcChannel for any calls, addresses, connections and  *)
(* number of retries: its type invariant, that a call only ever gets the   *)
(* result of its own request, that pendingSync_ holds only attempts being  *)
(* made, that a late answer reaches no later attempt, and that the         *)
(* controller of a synchronous call tells the truth; and that it           *)
(* implements RpcCall: the server never runs a call more often than its    *)
(* budget allows, a done closure runs at most once, and every step of the  *)
(* channel is a step of the abstract call or changes nothing of it.        *)
(***************************************************************************)
EXTENDS RpcChannel, SequenceTheorems, FiniteSets, FiniteSetTheorems, TLAPS

\* What handleRead and onRpcResponse do to the frames of a connection: bytes move from
\* the socket to the buffer, the oldest frame is taken, and no frame is made up.
LEMMA ReadFrames ==
  ASSUME NEW S, NEW buf \in Seq(S), NEW sock \in Seq(S), NEW n \in 0 .. Len(sock),
         buf \o SubSeq(sock, 1, n) # <<>>
  PROVE  /\ SubSeq(sock, n + 1, Len(sock)) \in Seq(S)
         /\ Head(buf \o SubSeq(sock, 1, n)) \in S
         /\ Tail(buf \o SubSeq(sock, 1, n)) \in Seq(S)
<1>1. Len(sock) \in Nat /\ \A i \in 1 .. Len(sock) : sock[i] \in S
  BY LenProperties, ElementOfSeq
<1>2. SubSeq(sock, 1, n) \in Seq(S)
  BY <1>1, SubSeqProperties
<1>3. SubSeq(sock, n + 1, Len(sock)) \in Seq(S)
  BY <1>1, SubSeqProperties
<1>4. buf \o SubSeq(sock, 1, n) \in Seq(S)
  BY <1>2, ConcatProperties
<1> QED BY <1>3, <1>4, HeadTailProperties

-----------------------------------------------------------------------------
\* getConnection has an address to look up, and from then on doCall has a connection to
\* write to. Type correctness rests on it: no null connection is ever used.
Prepared ==
  \A c \in Calls :
    /\ pc[c] \in {"lookup", "open"} => addr[c] \in Addrs
    /\ pc[c] \in {"issue", "send", "wait", "expired"} => conn[c] \in ConnIds

\* The part of the state a failed attempt writes keeps its type.
LEMMA AttemptFailsType ==
  ASSUME TypeOK, NEW c \in Calls, AttemptFails(c)
  PROVE  /\ pc' \in [Calls -> Locations]
         /\ addr' \in [Calls -> Addrs \cup {NoAddr}]
         /\ conn' \in [Calls -> ConnIds \cup {NoConn}]
         /\ id' \in [Calls -> Nat]
         /\ tries' \in [Calls -> Nat]
         /\ reply' \in [Calls -> SUBSET Response]
         /\ failed' \in [Calls -> BOOLEAN]
         /\ result' \in [Calls -> Calls \cup {NoCall, Unparsed}]
         /\ doneRuns' \in [Calls -> Nat]
<1> USE DEF TypeOK, AttemptFails
<1>1. /\ conn' \in [Calls -> ConnIds \cup {NoConn}]
      /\ reply' \in [Calls -> SUBSET Response]
      /\ UNCHANGED <<addr, id, result>>
  OBVIOUS
<1>2. CASE c \in AsyncCalls
  <2>1. /\ pc' = [pc EXCEPT ![c] = "returned"]
        /\ failed' = [failed EXCEPT ![c] = TRUE]
        /\ doneRuns' = [doneRuns EXCEPT ![c] = doneRuns[c] + 1]
        /\ UNCHANGED tries
    BY <1>2
  <2>2. pc' \in [Calls -> Locations]
    BY <2>1 DEF Locations
  <2>3. failed' \in [Calls -> BOOLEAN] /\ doneRuns' \in [Calls -> Nat]
    BY <2>1
  <2> QED BY <1>1, <2>1, <2>2, <2>3
<1>3. CASE c \notin AsyncCalls
  <2>1. /\ pc' = [pc EXCEPT ![c] = IF CanRetry(c) THEN "attempt" ELSE "returned"]
        /\ failed' = [failed EXCEPT ![c] = FailedAfterAttempt(c)]
        /\ tries' = [tries EXCEPT ![c] = tries[c] + 1]
        /\ UNCHANGED doneRuns
    BY <1>3
  <2>2. pc' \in [Calls -> Locations]
    BY <2>1 DEF Locations
  <2>3. failed' \in [Calls -> BOOLEAN]
    BY <2>1 DEF FailedAfterAttempt
  <2>4. tries' \in [Calls -> Nat]
    BY <2>1
  <2> QED BY <1>1, <2>1, <2>2, <2>3, <2>4
<1> QED BY <1>2, <1>3

\* Entering and erasing pending calls keeps the type of the maps.
LEMMA PendingType ==
  ASSUME NEW pending \in SUBSET Pending, NEW i \in Nat, NEW c \in Calls
  PROVE  /\ InsertPending(pending, i, c) \subseteq Pending
         /\ ErasePending(pending, i) \subseteq Pending
BY DEF InsertPending, ErasePending, Pending

\* An unused connection, while there is one.
LEMMA NewConnIsNew ==
  ConnIds \ created # {} => NewConn \in ConnIds \ created
BY DEF NewConn

\* Every step of callers, loop thread and environment keeps the types.
LEMMA TypeStep == TypeOK /\ Prepared /\ [Next]_vars => TypeOK'
<1> SUFFICES ASSUME TypeOK, Prepared, [Next]_vars PROVE TypeOK'
  OBVIOUS
<1> USE DEF chanVars, netVars, callVars
<1>1. ASSUME NEW c \in Calls, CallMethod(c) PROVE TypeOK'
  BY <1>1 DEF CallMethod, TypeOK, Locations
<1>2. ASSUME NEW c \in Calls, RejectController(c) PROVE TypeOK'
  BY <1>2 DEF RejectController, TypeOK, Locations
<1>3. ASSUME NEW c \in Calls, SelectAddress(c) PROVE TypeOK'
  <2>1. CASE AttemptFails(c)
    BY <1>3, <2>1, AttemptFailsType DEF SelectAddress, TypeOK
  <2>2. CASE ~AttemptFails(c)
    <3>1. PICK a \in Addrs : addr' = [addr EXCEPT ![c] = a]
      BY <1>3, <2>2 DEF SelectAddress
    <3>2. addr' \in [Calls -> Addrs \cup {NoAddr}]
      BY <3>1 DEF TypeOK
    <3> QED BY <1>3, <2>2, <3>2 DEF SelectAddress, TypeOK, Locations
  <2> QED BY <2>1, <2>2
<1>4. ASSUME NEW c \in Calls, FindConnection(c) PROVE TypeOK'
  <2> DEFINE k == connections[addr[c]]
  <2>1. k \in ConnIds \cup {NoConn}
    BY <1>4 DEF FindConnection, TypeOK, Prepared
  <2>2. /\ conn' = [conn EXCEPT ![c] = k]
        /\ pc' = [pc EXCEPT ![c] = IF k = NoConn THEN "open" ELSE "issue"]
    BY <1>4 DEF FindConnection
  <2> HIDE DEF k
  <2>3. conn' \in [Calls -> ConnIds \cup {NoConn}] /\ pc' \in [Calls -> Locations]
    BY <2>1, <2>2 DEF TypeOK, Locations
  <2> QED BY <1>4, <2>3 DEF FindConnection, TypeOK
<1>5. ASSUME NEW c \in Calls, OpenConnection(c) PROVE TypeOK'
  <2>1. CASE AttemptFails(c) /\ UNCHANGED <<connections, created>>
    BY <1>5, <2>1, AttemptFailsType DEF OpenConnection, TypeOK
  <2>2. CASE ~(AttemptFails(c) /\ UNCHANGED <<connections, created>>)
    <3>1. PICK k \in ConnIds \ created :
            /\ created' = created \cup {k}
            /\ connections' = [connections EXCEPT ![addr[c]] = k]
            /\ conn' = [conn EXCEPT ![c] = k]
      BY <1>5, <2>2, NewConnIsNew DEF OpenConnection
    <3>2. /\ created' \subseteq ConnIds
          /\ connections' \in [Addrs -> ConnIds \cup {NoConn}]
          /\ conn' \in [Calls -> ConnIds \cup {NoConn}]
      BY <3>1 DEF TypeOK
    <3> QED BY <1>5, <2>2, <3>2 DEF OpenConnection, TypeOK, Locations
  <2> QED BY <2>1, <2>2
<1>6. ASSUME NEW c \in Calls, Issue(c) PROVE TypeOK'
  <2>1. /\ InsertPending(pendingSync, nextId, c) \subseteq Pending
        /\ InsertPending(pendingAsync, nextId, c) \subseteq Pending
    BY PendingType DEF TypeOK
  <2>2. pendingSync' \subseteq Pending /\ pendingAsync' \subseteq Pending
    BY <1>6, <2>1 DEF Issue, TypeOK
  <2> QED BY <1>6, <2>2 DEF Issue, FetchAdd, TypeOK, Locations
<1>7. ASSUME NEW c \in Calls, SendRequest(c) PROVE TypeOK'
  <2>1. [conn |-> conn[c], id |-> id[c], call |-> c] \in Request
    BY <1>7 DEF SendRequest, TypeOK, Prepared, Request
  <2>2. requests' \subseteq Request
    BY <1>7, <2>1 DEF SendRequest, TypeOK
  <2>3. conn' \in [Calls -> ConnIds \cup {NoConn}] /\ pc' \in [Calls -> Locations]
    BY <1>7 DEF SendRequest, TypeOK, Locations
  <2> QED BY <1>7, <2>2, <2>3 DEF SendRequest, TypeOK
<1>8. ASSUME NEW c \in Calls, GetFuture(c) PROVE TypeOK'
  <2>1. CASE AttemptFails(c)
    BY <1>8, <2>1, AttemptFailsType DEF GetFuture, TypeOK
  <2>2. CASE ~AttemptFails(c)
    <3>a. PICK r \in reply[c] : \E m \in Filled(r) :
            result' = [result EXCEPT ![c] = m]
      BY <1>8, <2>2 DEF GetFuture
    <3>1. PICK m \in Filled(r) :
            result' = [result EXCEPT ![c] = m]
      BY <3>a
    <3>2. m \in Calls \cup {Unparsed}
      BY <3>1 DEF TypeOK, Response, Filled
    <3> QED BY <1>8, <2>2, <3>1, <3>2 DEF GetFuture, TypeOK, Locations
  <2> QED BY <2>1, <2>2
<1>9. ASSUME NEW c \in Calls, WaitTimeout(c) PROVE TypeOK'
  BY <1>9 DEF WaitTimeout, TypeOK, Locations
<1>10. ASSUME NEW c \in Calls, RemovePending(c) PROVE TypeOK'
  <2>1. pendingSync' \subseteq Pending
    BY <1>10 DEF RemovePending, ErasePending, TypeOK
  <2> QED BY <1>10, <2>1, AttemptFailsType DEF RemovePending, TypeOK
<1>11. ASSUME NEW k \in ConnIds, HandleRead(k) PROVE TypeOK'
  <2>1. PICK n \in 0 .. Len(responses[k]) :
          LET avail == inbuf[k] \o SubSeq(responses[k], 1, n)
          IN /\ avail # <<>>
             /\ responses' = [responses EXCEPT
                                ![k] = SubSeq(responses[k], n + 1, Len(responses[k]))]
             /\ inbuf' = [inbuf EXCEPT ![k] = Tail(avail)]
             /\ OnRpcResponse(k, Head(avail))
    BY <1>11 DEF HandleRead
  <2> DEFINE avail == inbuf[k] \o SubSeq(responses[k], 1, n)
             r == Head(avail)
  <2>2. /\ SubSeq(responses[k], n + 1, Len(responses[k])) \in Seq(Response)
        /\ r \in Response
        /\ Tail(avail) \in Seq(Response)
    BY <2>1, ReadFrames DEF TypeOK
  <2>3. /\ responses' \in [ConnIds -> Seq(Response)]
        /\ inbuf' \in [ConnIds -> Seq(Response)]
    BY <2>1, <2>2 DEF TypeOK
  <2>4. OnRpcResponse(k, r)
    BY <2>1
  <2> HIDE DEF r, avail
  <2>5. /\ pendingSync' \subseteq Pending
        /\ pendingAsync' \subseteq Pending
    BY <2>4 DEF OnRpcResponse, ErasePending, TypeOK
  <2>6. reply' \in [Calls -> SUBSET Response]
    <3>1. ASSUME NEW p \in pendingSync, reply' = [reply EXCEPT ![p.call] = {r}]
          PROVE  reply' \in [Calls -> SUBSET Response]
      <4>1. p.call \in Calls /\ {r} \in SUBSET Response
        BY <2>2 DEF TypeOK, Pending
      <4> QED BY <3>1, <4>1 DEF TypeOK
    <3> QED BY <2>4, <3>1 DEF OnRpcResponse, TypeOK
  <2>7. io' \subseteq Callback
    <3>1. ASSUME NEW p \in pendingAsync, io' = {[conn |-> k, call |-> p.call, rsp |-> r]}
          PROVE  io' \subseteq Callback
      <4>1. p.call \in Calls
        BY DEF TypeOK, Pending
      <4> QED BY <2>2, <3>1, <4>1 DEF Callback
    <3> QED BY <2>4, <3>1 DEF OnRpcResponse, TypeOK
  <2> QED BY <1>11, <2>3, <2>5, <2>6, <2>7 DEF HandleRead, TypeOK
<1>12. ASSUME RunDone PROVE TypeOK'
  <2>a. PICK cb \in io : \E m \in Filled(cb.rsp) :
          /\ IF cb.rsp.kind = "error"
             THEN failed' = [failed EXCEPT ![cb.call] = TRUE] /\ UNCHANGED result
             ELSE result' = [result EXCEPT ![cb.call] = m] /\ UNCHANGED failed
          /\ doneRuns' = [doneRuns EXCEPT ![cb.call] = @ + 1]
    BY <1>12 DEF RunDone, Filled
  <2>1. PICK m \in Filled(cb.rsp) :
          /\ IF cb.rsp.kind = "error"
             THEN failed' = [failed EXCEPT ![cb.call] = TRUE] /\ UNCHANGED result
             ELSE result' = [result EXCEPT ![cb.call] = m] /\ UNCHANGED failed
          /\ doneRuns' = [doneRuns EXCEPT ![cb.call] = @ + 1]
    BY <2>a
  <2>2. cb.call \in Calls /\ m \in Calls \cup {Unparsed}
    BY DEF TypeOK, Callback, Response, Filled
  <2>3. doneRuns' \in [Calls -> Nat]
    BY <2>1, <2>2 DEF TypeOK
  <2>4. /\ failed' \in [Calls -> BOOLEAN]
        /\ result' \in [Calls -> Calls \cup {NoCall, Unparsed}]
    <3>1. CASE cb.rsp.kind = "error"
      BY <2>1, <2>2, <3>1 DEF TypeOK
    <3>2. CASE cb.rsp.kind # "error"
      BY <2>1, <2>2, <3>2 DEF TypeOK
    <3> QED BY <3>1, <3>2
  <2> QED BY <1>12, <2>3, <2>4 DEF RunDone, TypeOK
<1>13. ASSUME Close PROVE TypeOK'
  BY <1>13 DEF Close, TypeOK
<1>14. ASSUME NEW q \in requests, ServerRun(q) PROVE TypeOK'
  <2>1. q.conn \in ConnIds /\ q.id \in Nat /\ q.call \in Calls
    BY DEF TypeOK, Request
  <2>2. PICK kind \in Kinds :
          responses' = IF q.conn \in down \/ ~Alive(q.conn)
                       THEN responses
                       ELSE [responses EXCEPT ![q.conn] =
                               Append(@, [id |-> q.id, call |-> q.call, kind |-> kind])]
    BY <1>14 DEF ServerRun
  <2>3. [id |-> q.id, call |-> q.call, kind |-> kind] \in Response
    BY <2>1 DEF Response
  <2>4. responses' \in [ConnIds -> Seq(Response)]
    BY <2>1, <2>2, <2>3, AppendProperties DEF TypeOK
  <2>5. runs' \in [Calls -> Nat]
    <3>1. runs' = [runs EXCEPT ![q.call] = runs[q.call] + 1]
      BY <1>14 DEF ServerRun
    <3>2. runs \in [Calls -> Nat]
      BY DEF TypeOK
    <3> QED BY <2>1, <3>1, <3>2
  <2> QED BY <1>14, <2>4, <2>5 DEF ServerRun, TypeOK
<1>15. ASSUME NEW k \in created \ down, Break(k) PROVE TypeOK'
  BY <1>15, EmptySeq DEF Break, TypeOK
<1>16. CASE Quiescent \/ UNCHANGED vars
  BY <1>16 DEF Quiescent, vars, TypeOK
<1> QED BY <1>1, <1>2, <1>3, <1>4, <1>5, <1>6, <1>7, <1>8, <1>9, <1>10, <1>11, <1>12,
           <1>13, <1>14, <1>15, <1>16 DEF Next, Caller

\* An attempt gets its address before it opens, its connection before it sends.
LEMMA PreparedStep == TypeOK /\ Prepared /\ [Next]_vars => Prepared'
<1> SUFFICES ASSUME TypeOK, Prepared, [Next]_vars PROVE Prepared'
  OBVIOUS
<1> USE DEF chanVars, netVars, callVars
<1>a. ASSUME NEW c \in Calls, AttemptFails(c) PROVE Prepared'
  <2>1. pc'[c] \in {"attempt", "returned"} /\ UNCHANGED addr
    BY <1>a DEF AttemptFails, TypeOK
  <2>2. \A d \in Calls : d # c => pc'[d] = pc[d] /\ conn'[d] = conn[d]
    BY <1>a DEF AttemptFails, TypeOK
  <2> QED BY <2>1, <2>2 DEF Prepared
<1>1. ASSUME NEW c \in Calls,
             CallMethod(c) \/ RejectController(c) \/ Issue(c) \/ WaitTimeout(c)
      PROVE  Prepared'
  BY <1>1 DEF CallMethod, RejectController, Issue, WaitTimeout, TypeOK, Prepared
<1>2. ASSUME NEW c \in Calls, SelectAddress(c) PROVE Prepared'
  <2>1. CASE ~AttemptFails(c)
    BY <1>2, <2>1 DEF SelectAddress, TypeOK, Prepared
  <2> QED BY <2>1, <1>a
<1>3. ASSUME NEW c \in Calls, FindConnection(c) PROVE Prepared'
  <2> DEFINE k == connections[addr[c]]
  <2>1. k \in ConnIds \cup {NoConn}
    BY <1>3 DEF FindConnection, TypeOK, Prepared
  <2>2. /\ conn' = [conn EXCEPT ![c] = k]
        /\ pc' = [pc EXCEPT ![c] = IF k = NoConn THEN "open" ELSE "issue"]
        /\ pc[c] = "lookup" /\ UNCHANGED addr
    BY <1>3 DEF FindConnection
  <2> HIDE DEF k
  <2> QED BY <2>1, <2>2 DEF TypeOK, Prepared
<1>4. ASSUME NEW c \in Calls, OpenConnection(c) PROVE Prepared'
  <2>1. CASE ~AttemptFails(c)
    BY <1>4, <2>1, NewConnIsNew DEF OpenConnection, TypeOK, Prepared
  <2> QED BY <2>1, <1>a
<1>5. ASSUME NEW c \in Calls, SendRequest(c) PROVE Prepared'
  BY <1>5 DEF SendRequest, TypeOK, Prepared
<1>6. ASSUME NEW c \in Calls, GetFuture(c) PROVE Prepared'
  <2>1. CASE ~AttemptFails(c)
    BY <1>6, <2>1 DEF GetFuture, TypeOK, Prepared
  <2> QED BY <2>1, <1>a
<1>7. ASSUME NEW c \in Calls, RemovePending(c) PROVE Prepared'
  BY <1>7, <1>a DEF RemovePending
<1>8. CASE UNCHANGED <<pc, addr, conn>>
  BY <1>8 DEF Prepared
<1> QED BY <1>1, <1>2, <1>3, <1>4, <1>5, <1>6, <1>7, <1>8
        DEF Next, Caller, HandleRead, RunDone, Close, ServerRun, Break, Quiescent, vars

\* Type correctness of RpcChannel, for any calls, addresses and connections.
THEOREM TypeCorrect == Spec => []TypeOK
<1>1. Init => TypeOK /\ Prepared
  BY EmptySeq DEF Init, TypeOK, Locations, Prepared
<1> QED BY <1>1, TypeStep, PreparedStep, PTL DEF Spec
-----------------------------------------------------------------------------
(* Each id stands for one call, wherever it is found.                      *)

AllPending == pendingSync \cup pendingAsync

\* i was issued, and if it is pending it is pending for c.
BelongsTo(i, c) == i < nextId /\ \A p \in AllPending : p.id = i => p.call = c

\* The response frames that may be on their way.
GoodFrames == {r \in Response : BelongsTo(r.id, r.call)}

IdsMatch ==
  /\ \A p \in AllPending : p.id < nextId
  /\ \A c \in Calls : pc[c] = "send" => BelongsTo(id[c], c)
  /\ \A q \in requests : BelongsTo(q.id, q.call)
  /\ responses \in [ConnIds -> Seq(GoodFrames)]
  /\ inbuf \in [ConnIds -> Seq(GoodFrames)]

\* What a future or a callback holds is for the call that waits for it.
RepliesMatch ==
  /\ \A c \in Calls : \A r \in reply[c] : r.call = c
  /\ \A cb \in io : cb.rsp.call = cb.call
  /\ OwnResult

\* As long as ids keep their calls, frames that are not touched stay good.
LEMMA FramesKept ==
  ASSUME IdsMatch, UNCHANGED <<responses, inbuf>>,
         \A i \in Nat : \A c \in Calls : BelongsTo(i, c) => BelongsTo(i, c)'
  PROVE  /\ responses' \in [ConnIds -> Seq(GoodFrames')]
         /\ inbuf' \in [ConnIds -> Seq(GoodFrames')]
<1>1. GoodFrames \subseteq GoodFrames'
  BY DEF GoodFrames, Response
<1>2. \A s \in Seq(GoodFrames) : s \in Seq(GoodFrames')
  BY <1>1, SeqMonotonic
<1> QED BY <1>2 DEF IdsMatch

\* An id that is pending stays with the call it was issued to.
LEMMA IdsStep == TypeOK /\ IdsMatch /\ [Next]_vars => IdsMatch'
<1> SUFFICES ASSUME TypeOK, IdsMatch, [Next]_vars PROVE IdsMatch'
  OBVIOUS
<1> USE DEF chanVars, netVars, callVars
\* Steps that leave ids, pending calls and frames alone.
<1>a. ASSUME UNCHANGED <<nextId, pendingSync, pendingAsync, id, requests, responses, inbuf>>,
             \A c \in Calls : pc'[c] = "send" => pc[c] = "send"
      PROVE  IdsMatch'
  BY <1>a DEF IdsMatch, GoodFrames, BelongsTo, AllPending
\* Steps that only forget pending calls.
<1>b. ASSUME pendingSync' \subseteq pendingSync, pendingAsync' \subseteq pendingAsync,
             UNCHANGED nextId
      PROVE  /\ \A p \in AllPending' : p.id < nextId'
             /\ \A i \in Nat : \A c \in Calls : BelongsTo(i, c) => BelongsTo(i, c)'
  BY <1>b DEF IdsMatch, BelongsTo, AllPending
<1>1. ASSUME NEW c \in Calls,
             \/ CallMethod(c) \/ RejectController(c) \/ SelectAddress(c)
             \/ FindConnection(c) \/ OpenConnection(c) \/ GetFuture(c) \/ WaitTimeout(c)
      PROVE  IdsMatch'
  <2>1. UNCHANGED <<nextId, pendingSync, pendingAsync, id, requests, responses, inbuf>>
    BY <1>1 DEF CallMethod, RejectController, SelectAddress, FindConnection,
                OpenConnection, GetFuture, WaitTimeout, AttemptFails
  <2>2. \A d \in Calls : pc'[d] = "send" => pc[d] = "send"
    BY <1>1 DEF CallMethod, RejectController, SelectAddress, FindConnection,
                OpenConnection, GetFuture, WaitTimeout, AttemptFails, TypeOK
  <2> QED BY <2>1, <2>2, <1>a
<1>2. ASSUME NEW c \in Calls, Issue(c) PROVE IdsMatch'
  <2>1. /\ nextId' = nextId + 1 /\ nextId \in Nat
        /\ id' = [id EXCEPT ![c] = nextId] /\ pc' = [pc EXCEPT ![c] = "send"]
        /\ UNCHANGED <<requests, responses, inbuf>>
    BY <1>2 DEF Issue, FetchAdd, TypeOK
  <2>2. \A p \in AllPending' :
          p \in AllPending \/ (p.id = nextId /\ p.call = c)
    BY <1>2 DEF Issue, InsertPending, AllPending
  <2>3. \A p \in AllPending : p.id < nextId /\ p.id \in Nat
    BY DEF IdsMatch, AllPending, TypeOK, Pending
  <2>4. \A p \in AllPending' : p.id < nextId'
    BY <2>1, <2>2, <2>3
  <2>5. \A i \in Nat : \A d \in Calls : BelongsTo(i, d) => BelongsTo(i, d)'
    BY <2>1, <2>2 DEF BelongsTo
  <2>6. BelongsTo(id[c], c)'
    <3>1. id'[c] = nextId
      BY <2>1 DEF TypeOK
    <3> QED BY <2>1, <2>2, <2>3, <3>1 DEF BelongsTo
  <2>7. \A d \in Calls : pc'[d] = "send" => BelongsTo(id[d], d)'
    <3> SUFFICES ASSUME NEW d \in Calls, pc'[d] = "send" PROVE BelongsTo(id[d], d)'
      OBVIOUS
    <3>1. CASE d = c
      BY <2>6, <3>1
    <3>2. CASE d # c
      <4>1. pc[d] = "send" /\ id'[d] = id[d] /\ id[d] \in Nat
        BY <2>1, <3>2 DEF TypeOK
      <4>2. BelongsTo(id[d], d)
        BY <4>1 DEF IdsMatch
      <4> QED BY <2>1, <2>2, <4>1, <4>2 DEF BelongsTo
    <3> QED BY <3>1, <3>2
  <2>8. \A q \in requests' : BelongsTo(q.id, q.call)'
    <3> SUFFICES ASSUME NEW q \in requests PROVE BelongsTo(q.id, q.call)'
      BY <2>1
    <3>1. q.id \in Nat /\ q.call \in Calls
      BY DEF TypeOK, Request
    <3> QED BY <2>5, <3>1 DEF IdsMatch
  <2>9. /\ responses' \in [ConnIds -> Seq(GoodFrames')]
        /\ inbuf' \in [ConnIds -> Seq(GoodFrames')]
    BY <2>1, <2>5, FramesKept
  <2> QED BY <2>4, <2>7, <2>8, <2>9 DEF IdsMatch
<1>3. ASSUME NEW c \in Calls, SendRequest(c) PROVE IdsMatch'
  <2>1. /\ UNCHANGED <<nextId, pendingSync, pendingAsync, id, responses, inbuf>>
        /\ \A d \in Calls : pc'[d] = "send" => pc[d] = "send"
        /\ pc[c] = "send"
    BY <1>3 DEF SendRequest, TypeOK
  <2>2. \A q \in requests' : q \in requests \/ (q.id = id[c] /\ q.call = c)
    BY <1>3 DEF SendRequest
  <2>3. \A q \in requests' : BelongsTo(q.id, q.call)
    BY <2>1, <2>2 DEF IdsMatch
  <2> QED BY <2>1, <2>3 DEF IdsMatch, GoodFrames, BelongsTo, AllPending
<1>4. ASSUME NEW c \in Calls, RemovePending(c) PROVE IdsMatch'
  <2>1. /\ pendingSync' \subseteq pendingSync
        /\ UNCHANGED <<nextId, pendingAsync, id, requests, responses, inbuf>>
    BY <1>4 DEF RemovePending, ErasePending, AttemptFails
  <2>2. \A d \in Calls : pc'[d] = "send" => pc[d] = "send"
    BY <1>4 DEF RemovePending, AttemptFails, TypeOK
  <2>3. /\ \A p \in AllPending' : p.id < nextId'
        /\ \A i \in Nat : \A d \in Calls : BelongsTo(i, d) => BelongsTo(i, d)'
    BY <2>1, <1>b
  <2>4. /\ responses' \in [ConnIds -> Seq(GoodFrames')]
        /\ inbuf' \in [ConnIds -> Seq(GoodFrames')]
    BY <2>1, <2>3, FramesKept
  <2>5. /\ \A d \in Calls : pc'[d] = "send" => BelongsTo(id[d], d)'
        /\ \A q \in requests' : BelongsTo(q.id, q.call)'
    BY <2>1, <2>2 DEF IdsMatch, BelongsTo, AllPending
  <2> QED BY <2>3, <2>4, <2>5 DEF IdsMatch
<1>5. ASSUME NEW k \in ConnIds, HandleRead(k) PROVE IdsMatch'
  <2>1. PICK n \in 0 .. Len(responses[k]) :
          LET avail == inbuf[k] \o SubSeq(responses[k], 1, n)
          IN /\ avail # <<>>
             /\ responses' = [responses EXCEPT
                                ![k] = SubSeq(responses[k], n + 1, Len(responses[k]))]
             /\ inbuf' = [inbuf EXCEPT ![k] = Tail(avail)]
             /\ OnRpcResponse(k, Head(avail))
    BY <1>5 DEF HandleRead
  <2> DEFINE avail == inbuf[k] \o SubSeq(responses[k], 1, n)
  <2>2. responses[k] \in Seq(GoodFrames) /\ inbuf[k] \in Seq(GoodFrames)
    BY DEF IdsMatch
  <2>3. /\ SubSeq(responses[k], n + 1, Len(responses[k])) \in Seq(GoodFrames)
        /\ Tail(avail) \in Seq(GoodFrames)
    BY <2>1, <2>2, ReadFrames
  <2>4. /\ responses' \in [ConnIds -> Seq(GoodFrames)]
        /\ inbuf' \in [ConnIds -> Seq(GoodFrames)]
    BY <2>1, <2>3 DEF IdsMatch
  <2>5. OnRpcResponse(k, Head(avail))
    BY <2>1
  <2> HIDE DEF avail
  <2>6. pendingSync' \subseteq pendingSync /\ pendingAsync' \subseteq pendingAsync
    BY <2>5 DEF OnRpcResponse, ErasePending
  <2>7. UNCHANGED <<nextId, pc, id, requests>>
    BY <1>5 DEF HandleRead
  <2>8. /\ \A p \in AllPending' : p.id < nextId'
        /\ \A i \in Nat : \A d \in Calls : BelongsTo(i, d) => BelongsTo(i, d)'
    BY <2>6, <2>7, <1>b
  <2>9. GoodFrames \subseteq GoodFrames'
    BY <2>8 DEF GoodFrames, Response
  <2>10. /\ responses' \in [ConnIds -> Seq(GoodFrames')]
         /\ inbuf' \in [ConnIds -> Seq(GoodFrames')]
    <3>1. \A s \in Seq(GoodFrames) : s \in Seq(GoodFrames')
      BY <2>9, SeqMonotonic
    <3> QED BY <2>4, <3>1
  <2>11. /\ \A d \in Calls : pc'[d] = "send" => BelongsTo(id[d], d)'
         /\ \A q \in requests' : BelongsTo(q.id, q.call)'
    BY <2>6, <2>7 DEF IdsMatch, BelongsTo, AllPending
  <2> QED BY <2>8, <2>10, <2>11 DEF IdsMatch
<1>6. ASSUME NEW q \in requests, ServerRun(q) PROVE IdsMatch'
  <2>1. PICK kind \in Kinds :
          responses' = IF q.conn \in down \/ ~Alive(q.conn)
                       THEN responses
                       ELSE [responses EXCEPT ![q.conn] =
                               Append(@, [id |-> q.id, call |-> q.call, kind |-> kind])]
    BY <1>6 DEF ServerRun
  <2> DEFINE r == [id |-> q.id, call |-> q.call, kind |-> kind]
  <2>2. q.conn \in ConnIds /\ r \in Response
    BY DEF TypeOK, Request, Response
  <2>3. r \in GoodFrames
    BY <2>2 DEF IdsMatch, GoodFrames
  <2>4. responses' \in [ConnIds -> Seq(GoodFrames)]
    <3>1. Append(responses[q.conn], r) \in Seq(GoodFrames)
      BY <2>2, <2>3, AppendProperties DEF IdsMatch
    <3> QED BY <2>1, <2>2, <3>1 DEF IdsMatch
  <2>5. /\ UNCHANGED <<nextId, pendingSync, pendingAsync, pc, id, inbuf>>
        /\ requests' \subseteq requests
    BY <1>6 DEF ServerRun
  <2> QED BY <2>4, <2>5 DEF IdsMatch, GoodFrames, BelongsTo, AllPending
<1>7. ASSUME NEW k \in created \ down, Break(k) PROVE IdsMatch'
  <2>1. responses' \in [ConnIds -> Seq(GoodFrames)]
    BY <1>7, EmptySeq DEF Break, IdsMatch, TypeOK
  <2>2. UNCHANGED <<nextId, pendingSync, pendingAsync, pc, id, requests, inbuf>>
    BY <1>7 DEF Break
  <2> QED BY <2>1, <2>2 DEF IdsMatch, GoodFrames, BelongsTo, AllPending
<1>8. CASE RunDone \/ Close \/ Quiescent \/ UNCHANGED vars
  <2>1. UNCHANGED <<nextId, pendingSync, pendingAsync, pc, id, requests, responses, inbuf>>
    BY <1>8 DEF RunDone, Close, Quiescent, vars
  <2> QED BY <2>1, <1>a
<1> QED BY <1>1, <1>2, <1>3, <1>4, <1>5, <1>6, <1>7, <1>8 DEF Next, Caller
\* A response reaches only the future or callback of the call it answers.
LEMMA RepliesStep ==
  TypeOK /\ IdsMatch /\ RepliesMatch /\ [Next]_vars => RepliesMatch'
<1> SUFFICES ASSUME TypeOK, IdsMatch, RepliesMatch, [Next]_vars PROVE RepliesMatch'
  OBVIOUS
<1> USE DEF chanVars, netVars, callVars
<1>a. ASSUME NEW c \in Calls, AttemptFails(c), UNCHANGED io PROVE RepliesMatch'
  BY <1>a DEF AttemptFails, RepliesMatch, OwnResult, TypeOK
<1>1. ASSUME NEW c \in Calls,
             \/ CallMethod(c) \/ RejectController(c) \/ FindConnection(c) \/ Issue(c)
             \/ SendRequest(c) \/ WaitTimeout(c)
      PROVE  RepliesMatch'
  BY <1>1 DEF CallMethod, RejectController, FindConnection, Issue, SendRequest,
              WaitTimeout, RepliesMatch, OwnResult
<1>2. ASSUME NEW c \in Calls, SelectAddress(c) \/ OpenConnection(c) PROVE RepliesMatch'
  <2>1. AttemptFails(c) \/ UNCHANGED <<reply, result>>
    BY <1>2 DEF SelectAddress, OpenConnection
  <2>2. UNCHANGED io
    BY <1>2 DEF SelectAddress, OpenConnection
  <2> QED BY <2>1, <2>2, <1>a DEF RepliesMatch, OwnResult
<1>3. ASSUME NEW c \in Calls, RemovePending(c) PROVE RepliesMatch'
  BY <1>3, <1>a DEF RemovePending
<1>4. ASSUME NEW c \in Calls, GetFuture(c) PROVE RepliesMatch'
  <2>1. UNCHANGED io
    BY <1>4 DEF GetFuture
  <2>2. CASE ~AttemptFails(c)
    <3>a. PICK r \in reply[c] : \E m \in Filled(r) :
            result' = [result EXCEPT ![c] = m] /\ UNCHANGED reply
      BY <1>4, <2>2 DEF GetFuture
    <3>1. PICK m \in Filled(r) :
            result' = [result EXCEPT ![c] = m] /\ UNCHANGED reply
      BY <3>a
    <3>2. m \in {c, Unparsed}
      BY DEF RepliesMatch, Filled
    <3> QED BY <2>1, <3>1, <3>2 DEF RepliesMatch, OwnResult, TypeOK
  <2> QED BY <2>1, <2>2, <1>a
<1>5. ASSUME NEW k \in ConnIds, HandleRead(k) PROVE RepliesMatch'
  <2>1. PICK n \in 0 .. Len(responses[k]) :
          LET avail == inbuf[k] \o SubSeq(responses[k], 1, n)
          IN avail # <<>> /\ OnRpcResponse(k, Head(avail))
    BY <1>5 DEF HandleRead
  <2> DEFINE avail == inbuf[k] \o SubSeq(responses[k], 1, n)
             r == Head(avail)
  <2>2. responses[k] \in Seq(GoodFrames) /\ inbuf[k] \in Seq(GoodFrames)
    BY DEF IdsMatch
  <2>3. r \in GoodFrames /\ OnRpcResponse(k, r)
    BY <2>1, <2>2, ReadFrames
  <2>4. UNCHANGED result
    BY <1>5 DEF HandleRead
  <2> HIDE DEF r, avail
  <2>5. \A p \in AllPending : p.id = r.id => p.call = r.call
    BY <2>3 DEF GoodFrames, BelongsTo
  <2>6. \A c \in Calls : \A x \in reply'[c] : x.call = c
    <3>1. ASSUME NEW p \in pendingSync, p.id = r.id, reply' = [reply EXCEPT ![p.call] = {r}]
          PROVE  \A c \in Calls : \A x \in reply'[c] : x.call = c
      <4>1. p.call = r.call /\ p.call \in Calls
        BY <2>5, <3>1 DEF AllPending, TypeOK, Pending
      <4> QED BY <3>1, <4>1 DEF RepliesMatch, TypeOK
    <3> QED BY <2>3, <3>1 DEF OnRpcResponse, RepliesMatch
  <2>7. \A cb \in io' : cb.rsp.call = cb.call
    <3>1. ASSUME NEW p \in pendingAsync, p.id = r.id,
                 io' = {[conn |-> k, call |-> p.call, rsp |-> r]}
          PROVE  \A cb \in io' : cb.rsp.call = cb.call
      BY <2>5, <3>1 DEF AllPending
    <3> QED BY <2>3, <3>1 DEF OnRpcResponse, RepliesMatch
  <2> QED BY <2>4, <2>6, <2>7 DEF RepliesMatch, OwnResult
<1>6. CASE RunDone
  <2>a. PICK cb \in io : \E m \in Filled(cb.rsp) :
          \/ UNCHANGED result
          \/ result' = [result EXCEPT ![cb.call] = m]
    BY <1>6 DEF RunDone, Filled
  <2>1. PICK m \in Filled(cb.rsp) :
          \/ UNCHANGED result
          \/ result' = [result EXCEPT ![cb.call] = m]
    BY <2>a
  <2>2. cb.call \in Calls /\ m \in {cb.call, Unparsed}
    BY DEF RepliesMatch, TypeOK, Callback, Filled
  <2>3. OwnResult'
    BY <2>1, <2>2 DEF RepliesMatch, OwnResult, TypeOK
  <2> QED BY <1>6, <2>3 DEF RunDone, RepliesMatch
<1>7. CASE UNCHANGED <<reply, io, result>>
  BY <1>7 DEF RepliesMatch, OwnResult
<1> QED BY <1>1, <1>2, <1>3, <1>4, <1>5, <1>6, <1>7
        DEF Next, Caller, Close, ServerRun, Break, Quiescent, vars

\* packWithId, the pending maps and onRpcResponse, for any number of calls on any number
\* of connections: whatever is lost, late, reordered or retried, a call that returns a
\* result returns the one computed from its own arguments.
THEOREM ResultIsOwn == Spec => []OwnResult
<1>1. Init => IdsMatch /\ RepliesMatch
  <2> SUFFICES ASSUME Init PROVE IdsMatch /\ RepliesMatch
    OBVIOUS
  <2>1. <<>> \in Seq(GoodFrames)
    BY EmptySeq
  <2>2. IdsMatch
    BY <2>1 DEF Init, IdsMatch, AllPending
  <2>3. RepliesMatch
    BY DEF Init, RepliesMatch, OwnResult
  <2> QED BY <2>2, <2>3
<1>2. RepliesMatch => OwnResult
  BY DEF RepliesMatch
<1> QED BY <1>1, <1>2, TypeCorrect, IdsStep, RepliesStep, PTL DEF Spec
-----------------------------------------------------------------------------
(* pendingSync_ and the futures.                                           *)

Early == {"idle", "attempt", "lookup", "open", "issue"}

\* An attempt has an entry in pendingSync_ or a value in its future, never both, and
\* neither before it has taken its id.
OneAnswerPlace ==
  /\ NoPendingLeak
  /\ ReplyOfThisAttempt
  /\ \A p \in pendingSync : p.call \notin AsyncCalls
  /\ \A c \in Calls : pc[c] \in Early => reply[c] = {}
  /\ \A c \in Calls : reply[c] # {} => \A p \in pendingSync : p.call # c

\* An attempt is pending or answered, never both.
LEMMA AnswerPlaceStep == TypeOK /\ OneAnswerPlace /\ [Next]_vars => OneAnswerPlace'
<1> SUFFICES ASSUME TypeOK, OneAnswerPlace, [Next]_vars PROVE OneAnswerPlace'
  OBVIOUS
<1> USE DEF chanVars, netVars, callVars
<1>p. \A p \in pendingSync : p.call \in Calls /\ p.id \in Nat
  BY DEF TypeOK, Pending
\* A failed attempt that has no entry left.
<1>a. ASSUME NEW c \in Calls, AttemptFails(c), pendingSync' \subseteq pendingSync,
             \A p \in pendingSync' : p.call # c
      PROVE  OneAnswerPlace'
  <2>1. /\ reply' = [reply EXCEPT ![c] = {}] /\ UNCHANGED id
        /\ \A d \in Calls : d # c => pc'[d] = pc[d]
    BY <1>a DEF AttemptFails, TypeOK
  <2>2. NoPendingLeak'
    BY <1>a, <1>p, <2>1 DEF OneAnswerPlace, NoPendingLeak
  <2> QED BY <1>a, <2>1, <2>2 DEF OneAnswerPlace, ReplyOfThisAttempt, TypeOK
\* A step of one call between two points at which it has neither entry nor value.
<1>b. ASSUME NEW c \in Calls, pc[c] \in Early, NEW to, pc' = [pc EXCEPT ![c] = to],
             UNCHANGED <<pendingSync, reply, id>>
      PROVE  OneAnswerPlace'
  <2>1. \A p \in pendingSync : p.call # c
    BY <1>b DEF OneAnswerPlace, NoPendingLeak, Early
  <2>2. NoPendingLeak'
    BY <1>b, <1>p, <2>1 DEF OneAnswerPlace, NoPendingLeak, TypeOK
  <2> QED BY <1>b, <2>2 DEF OneAnswerPlace, ReplyOfThisAttempt, TypeOK
<1>1. ASSUME NEW c \in Calls, CallMethod(c) PROVE OneAnswerPlace'
  BY <1>1, <1>b DEF CallMethod, Early
<1>2. ASSUME NEW c \in Calls, RejectController(c) PROVE OneAnswerPlace'
  BY <1>2, <1>b DEF RejectController, Early
<1>3. ASSUME NEW c \in Calls, SelectAddress(c) PROVE OneAnswerPlace'
  <2>1. pc[c] \in Early /\ UNCHANGED pendingSync
    BY <1>3 DEF SelectAddress, Early
  <2>2. \A p \in pendingSync : p.call # c
    BY <2>1 DEF OneAnswerPlace, NoPendingLeak, Early
  <2>3. CASE ~AttemptFails(c)
    BY <1>3, <2>1, <2>3, <1>b DEF SelectAddress
  <2> QED BY <2>1, <2>2, <2>3, <1>a
<1>4. ASSUME NEW c \in Calls, FindConnection(c) PROVE OneAnswerPlace'
  BY <1>4, <1>b DEF FindConnection, Early
<1>5. ASSUME NEW c \in Calls, OpenConnection(c) PROVE OneAnswerPlace'
  <2>1. pc[c] \in Early /\ UNCHANGED pendingSync
    BY <1>5 DEF OpenConnection, Early
  <2>2. \A p \in pendingSync : p.call # c
    BY <2>1 DEF OneAnswerPlace, NoPendingLeak, Early
  <2>3. CASE ~AttemptFails(c)
    BY <1>5, <2>1, <2>3, <1>b DEF OpenConnection
  <2> QED BY <2>1, <2>2, <2>3, <1>a
<1>6. ASSUME NEW c \in Calls, Issue(c) PROVE OneAnswerPlace'
  <2>1. /\ pc[c] = "issue" /\ pc' = [pc EXCEPT ![c] = "send"]
        /\ id' = [id EXCEPT ![c] = nextId] /\ UNCHANGED reply
    BY <1>6 DEF Issue
  <2>2. reply[c] = {} /\ \A p \in pendingSync : p.call # c
    BY <2>1 DEF OneAnswerPlace, NoPendingLeak, Early
  <2>3. \A p \in pendingSync' :
          p \in pendingSync \/ (p.id = nextId /\ p.call = c /\ c \notin AsyncCalls)
    BY <1>6 DEF Issue, InsertPending
  <2>4. NoPendingLeak'
    BY <1>p, <2>1, <2>2, <2>3 DEF OneAnswerPlace, NoPendingLeak, TypeOK
  <2>5. ReplyOfThisAttempt'
    BY <2>1, <2>2 DEF OneAnswerPlace, ReplyOfThisAttempt, TypeOK
  <2>6. \A d \in Calls : pc'[d] \in Early => reply'[d] = {}
    BY <2>1, <2>2 DEF OneAnswerPlace, TypeOK
  <2> QED BY <2>1, <2>2, <2>3, <2>4, <2>5, <2>6 DEF OneAnswerPlace
<1>7. ASSUME NEW c \in Calls, SendRequest(c) PROVE OneAnswerPlace'
  <2>1. /\ pc[c] = "send" /\ UNCHANGED <<pendingSync, id, reply>>
        /\ pc' = [pc EXCEPT ![c] = IF c \in AsyncCalls THEN "returned" ELSE "wait"]
    BY <1>7 DEF SendRequest
  <2>2. NoPendingLeak'
    BY <1>p, <2>1 DEF OneAnswerPlace, NoPendingLeak, TypeOK
  <2>3. \A d \in Calls : pc'[d] \in Early => pc[d] \in Early
    BY <2>1 DEF TypeOK, Early
  <2> QED BY <2>1, <2>2, <2>3 DEF OneAnswerPlace, ReplyOfThisAttempt
<1>8. ASSUME NEW c \in Calls, GetFuture(c) PROVE OneAnswerPlace'
  <2>1. UNCHANGED pendingSync /\ reply[c] # {}
    BY <1>8 DEF GetFuture
  <2>2. \A p \in pendingSync : p.call # c
    BY <2>1 DEF OneAnswerPlace
  <2>3. CASE ~AttemptFails(c)
    <3>1. pc' = [pc EXCEPT ![c] = "returned"] /\ UNCHANGED <<id, reply>>
      BY <1>8, <2>3 DEF GetFuture
    <3>2. NoPendingLeak'
      BY <1>p, <2>1, <2>2, <3>1 DEF OneAnswerPlace, NoPendingLeak, TypeOK
    <3>3. \A d \in Calls : pc'[d] \in Early => pc[d] \in Early
      BY <3>1 DEF TypeOK, Early
    <3> QED BY <2>1, <3>1, <3>2, <3>3 DEF OneAnswerPlace, ReplyOfThisAttempt
  <2> QED BY <2>1, <2>2, <2>3, <1>a
<1>9. ASSUME NEW c \in Calls, WaitTimeout(c) PROVE OneAnswerPlace'
  <2>1. pc' = [pc EXCEPT ![c] = "expired"] /\ UNCHANGED <<pendingSync, id, reply>>
    BY <1>9 DEF WaitTimeout
  <2>2. NoPendingLeak'
    BY <1>p, <2>1 DEF OneAnswerPlace, NoPendingLeak, TypeOK
  <2>3. \A d \in Calls : pc'[d] \in Early => pc[d] \in Early
    BY <2>1 DEF TypeOK, Early
  <2> QED BY <2>1, <2>2, <2>3 DEF OneAnswerPlace, ReplyOfThisAttempt
<1>10. ASSUME NEW c \in Calls, RemovePending(c) PROVE OneAnswerPlace'
  <2>1. AttemptFails(c) /\ pendingSync' = {p \in pendingSync : p.id # id[c]}
    BY <1>10 DEF RemovePending, ErasePending
  <2>2. \A p \in pendingSync' : p.call # c
    BY <2>1 DEF OneAnswerPlace, NoPendingLeak
  <2> QED BY <2>1, <2>2, <1>a
<1>11. ASSUME NEW k \in ConnIds, HandleRead(k) PROVE OneAnswerPlace'
  <2>1. PICK r : OnRpcResponse(k, r)
    BY <1>11 DEF HandleRead
  <2>2. UNCHANGED <<pc, id>>
    BY <1>11 DEF HandleRead
  <2>3. ASSUME NEW p \in pendingSync, p.id = r.id,
               reply' = [reply EXCEPT ![p.call] = {r}],
               pendingSync' = ErasePending(pendingSync, r.id)
        PROVE  OneAnswerPlace'
    <3>1. /\ p.call \in Calls /\ r.id = id[p.call]
          /\ pc[p.call] \in {"send", "wait", "expired"}
      BY <1>p, <2>3 DEF OneAnswerPlace, NoPendingLeak
    <3>2. pendingSync' = {x \in pendingSync : x.id # r.id}
      BY <2>3 DEF ErasePending
    <3>3. \A x \in pendingSync' : x.call # p.call
      BY <3>1, <3>2 DEF OneAnswerPlace, NoPendingLeak
    <3>4. NoPendingLeak'
      BY <2>2, <3>2 DEF OneAnswerPlace, NoPendingLeak
    <3>5. ReplyOfThisAttempt'
      BY <2>2, <2>3, <3>1 DEF OneAnswerPlace, ReplyOfThisAttempt, TypeOK
    <3>6. \A d \in Calls : pc'[d] \in Early => reply'[d] = {}
      BY <2>2, <2>3, <3>1 DEF OneAnswerPlace, TypeOK, Early
    <3>7. \A d \in Calls : reply'[d] # {} => \A x \in pendingSync' : x.call # d
      BY <2>3, <3>1, <3>2, <3>3 DEF OneAnswerPlace, TypeOK
    <3> QED BY <3>2, <3>4, <3>5, <3>6, <3>7 DEF OneAnswerPlace
  <2>4. CASE UNCHANGED <<reply, pendingSync>>
    BY <2>2, <2>4 DEF OneAnswerPlace, NoPendingLeak, ReplyOfThisAttempt
  <2> QED BY <2>1, <2>3, <2>4 DEF OnRpcResponse
<1>12. CASE UNCHANGED <<pc, id, reply, pendingSync>>
  BY <1>12 DEF OneAnswerPlace, NoPendingLeak, ReplyOfThisAttempt
<1> QED BY <1>1, <1>2, <1>3, <1>4, <1>5, <1>6, <1>7, <1>8, <1>9, <1>10, <1>11, <1>12
        DEF Next, Caller, RunDone, Close, ServerRun, Break, Quiescent, vars

\* Entries and futures agree in every state.
LEMMA AnswerPlaces == Spec => []OneAnswerPlace
<1>1. Init => OneAnswerPlace
  BY DEF Init, OneAnswerPlace, NoPendingLeak, ReplyOfThisAttempt
<1> QED BY <1>1, TypeCorrect, AnswerPlaceStep, PTL DEF Spec

\* doCall, onRpcResponse and removePending: an attempt that was answered or that timed out
\* leaves no entry in pendingSync_.
THEOREM PendingIsCurrent == Spec => []NoPendingLeak
<1>1. OneAnswerPlace => NoPendingLeak
  BY DEF OneAnswerPlace
<1> QED BY <1>1, AnswerPlaces, PTL

\* A response that comes after its attempt has timed out never reaches a later attempt of
\* the same call, however often the call is retried.
THEOREM LateReplyDropped == Spec => []ReplyOfThisAttempt
<1>1. OneAnswerPlace => ReplyOfThisAttempt
  BY DEF OneAnswerPlace
<1> QED BY <1>1, AnswerPlaces, PTL
-----------------------------------------------------------------------------
(* The controller of a synchronous call.                                   *)

\* The loop's thread writes to the controllers of asynchronous calls only; that of a
\* synchronous call is clean whenever the call is not over.
ControllerClean ==
  /\ \A p \in pendingAsync : p.call \in AsyncCalls
  /\ \A cb \in io : cb.call \in AsyncCalls
  /\ \A c \in Calls \ AsyncCalls :
       pc[c] # "returned" => ~failed[c] /\ result[c] = NoCall
  /\ ControllerAgrees

\* The controller of a synchronous call is clean between its attempts.
LEMMA ControllerStep == TypeOK /\ ControllerClean /\ [Next]_vars => ControllerClean'
<1> SUFFICES ASSUME TypeOK, ControllerClean, [Next]_vars PROVE ControllerClean'
  OBVIOUS
<1> USE DEF chanVars, netVars, callVars
<1> DEFINE Clean(c) ==
             /\ pc[c] # "returned" => ~failed[c] /\ result[c] = NoCall
             /\ pc[c] = "returned" => (failed[c] <=> result[c] = NoCall)
<1>c. ControllerClean <=> /\ \A p \in pendingAsync : p.call \in AsyncCalls
                          /\ \A cb \in io : cb.call \in AsyncCalls
                          /\ \A c \in Calls \ AsyncCalls : Clean(c)
  BY DEF ControllerClean, ControllerAgrees
<1>d. ControllerClean' <=> /\ \A p \in pendingAsync' : p.call \in AsyncCalls
                           /\ \A cb \in io' : cb.call \in AsyncCalls
                           /\ \A c \in Calls \ AsyncCalls : Clean(c)'
  BY DEF ControllerClean, ControllerAgrees
\* A step of one call: the controllers of the others are untouched.
<1>e. ASSUME NEW c \in Calls, UNCHANGED <<pendingAsync, io>>,
             \A d \in Calls : d # c => /\ pc'[d] = pc[d] /\ failed'[d] = failed[d]
                                      /\ result'[d] = result[d],
             c \notin AsyncCalls => Clean(c)'
      PROVE  ControllerClean'
  <2> SUFFICES ASSUME NEW d \in Calls \ AsyncCalls PROVE Clean(d)'
    BY <1>c, <1>d, <1>e
  <2>1. CASE d = c
    BY <1>e, <2>1
  <2>2. CASE d # c
    BY <1>c, <1>e, <2>2
  <2> QED BY <2>1, <2>2
<1>a. ASSUME NEW c \in Calls, AttemptFails(c), pc[c] # "returned",
             UNCHANGED <<pendingAsync, io>>
      PROVE  ControllerClean'
  <2>1. \A d \in Calls : d # c => /\ pc'[d] = pc[d] /\ failed'[d] = failed[d]
                                  /\ result'[d] = result[d]
    BY <1>a DEF AttemptFails, TypeOK
  <2>2. ASSUME c \notin AsyncCalls PROVE Clean(c)'
    <3>1. /\ pc'[c] = IF CanRetry(c) THEN "attempt" ELSE "returned"
          /\ failed'[c] = ~CanRetry(c) /\ result'[c] = result[c]
      BY <1>a, <2>2 DEF AttemptFails, FailedAfterAttempt, TypeOK
    <3>2. result[c] = NoCall
      BY <1>a, <1>c, <2>2
    <3> QED BY <3>1, <3>2
  <2> QED BY <1>a, <1>e, <2>1, <2>2
<1>1. ASSUME NEW c \in Calls, CallMethod(c) \/ FindConnection(c) \/ WaitTimeout(c)
      PROVE  ControllerClean'
  <2>1. /\ pc[c] # "returned" /\ pc'[c] # "returned"
        /\ \A d \in Calls : d # c => pc'[d] = pc[d]
        /\ UNCHANGED <<failed, result, pendingAsync, io>>
    BY <1>1 DEF CallMethod, FindConnection, WaitTimeout, TypeOK
  <2> QED BY <1>c, <1>e, <2>1
<1>2. ASSUME NEW c \in Calls, RejectController(c) PROVE ControllerClean'
  <2>1. /\ pc[c] = "idle" /\ pc'[c] = "returned" /\ failed'[c] = TRUE
        /\ \A d \in Calls : d # c => pc'[d] = pc[d] /\ failed'[d] = failed[d]
        /\ UNCHANGED <<result, pendingAsync, io>>
    BY <1>2 DEF RejectController, TypeOK
  <2> QED BY <1>c, <1>e, <2>1
<1>3. ASSUME NEW c \in Calls, SelectAddress(c) \/ OpenConnection(c) PROVE ControllerClean'
  <2>1. pc[c] # "returned" /\ UNCHANGED <<pendingAsync, io>>
    BY <1>3 DEF SelectAddress, OpenConnection
  <2>2. CASE ~AttemptFails(c)
    <3>1. /\ pc'[c] # "returned" /\ UNCHANGED <<failed, result>>
          /\ \A d \in Calls : d # c => pc'[d] = pc[d]
      BY <1>3, <2>2 DEF SelectAddress, OpenConnection, TypeOK
    <3> QED BY <1>c, <1>e, <2>1, <3>1
  <2> QED BY <1>a, <2>1, <2>2
<1>4. ASSUME NEW c \in Calls, Issue(c) PROVE ControllerClean'
  <2>1. \A p \in pendingAsync' : p.call \in AsyncCalls
    BY <1>c, <1>4 DEF Issue, InsertPending
  <2>2. /\ \A d \in Calls : pc[d] = pc'[d] \/ (pc[d] = "issue" /\ pc'[d] = "send")
        /\ UNCHANGED <<failed, result, io>>
    BY <1>4 DEF Issue, TypeOK
  <2> QED BY <1>c, <1>d, <2>1, <2>2
<1>5. ASSUME NEW c \in Calls, SendRequest(c) PROVE ControllerClean'
  <2>1. /\ pc[c] = "send" /\ UNCHANGED <<failed, result, pendingAsync, io>>
        /\ c \notin AsyncCalls => pc'[c] = "wait"
        /\ \A d \in Calls : d # c => pc'[d] = pc[d]
    BY <1>5 DEF SendRequest, TypeOK
  <2> QED BY <1>c, <1>e, <2>1
<1>6. ASSUME NEW c \in Calls, GetFuture(c) PROVE ControllerClean'
  <2>1. pc[c] = "wait" /\ UNCHANGED <<pendingAsync, io>>
    BY <1>6 DEF GetFuture
  <2>2. CASE ~AttemptFails(c)
    <3>a. PICK r \in reply[c] : \E m \in Filled(r) :
            /\ result' = [result EXCEPT ![c] = m]
            /\ pc' = [pc EXCEPT ![c] = "returned"]
            /\ UNCHANGED failed
      BY <1>6, <2>2 DEF GetFuture
    <3>1. PICK m \in Filled(r) :
            /\ result' = [result EXCEPT ![c] = m]
            /\ pc' = [pc EXCEPT ![c] = "returned"]
            /\ UNCHANGED failed
      BY <3>a
    <3>2. m # NoCall
      BY ChannelAssumption DEF TypeOK, Response, Filled
    <3>3. /\ result'[c] # NoCall /\ pc'[c] = "returned"
          /\ \A d \in Calls : d # c => pc'[d] = pc[d] /\ result'[d] = result[d]
      BY <3>1, <3>2 DEF TypeOK
    <3> QED BY <1>c, <1>e, <2>1, <3>1, <3>3
  <2> QED BY <1>a, <2>1, <2>2
<1>7. ASSUME NEW c \in Calls, RemovePending(c) PROVE ControllerClean'
  BY <1>7, <1>a DEF RemovePending
<1>8. ASSUME NEW k \in ConnIds, HandleRead(k) PROVE ControllerClean'
  <2>1. PICK r : OnRpcResponse(k, r)
    BY <1>8 DEF HandleRead
  <2>2. UNCHANGED <<pc, failed, result>>
    BY <1>8 DEF HandleRead
  <2>3. pendingAsync' \subseteq pendingAsync
    BY <2>1 DEF OnRpcResponse, ErasePending
  <2>4. \A cb \in io' : cb.call \in AsyncCalls
    BY <1>c, <2>1 DEF OnRpcResponse
  <2> QED BY <1>c, <1>d, <2>2, <2>3, <2>4
<1>9. CASE RunDone
  <2>a. PICK cb \in io : \E m \in Filled(cb.rsp) :
          /\ IF cb.rsp.kind = "error"
             THEN failed' = [failed EXCEPT ![cb.call] = TRUE] /\ UNCHANGED result
             ELSE result' = [result EXCEPT ![cb.call] = m] /\ UNCHANGED failed
    BY <1>9 DEF RunDone, Filled
  <2>1. PICK m \in Filled(cb.rsp) :
          /\ IF cb.rsp.kind = "error"
             THEN failed' = [failed EXCEPT ![cb.call] = TRUE] /\ UNCHANGED result
             ELSE result' = [result EXCEPT ![cb.call] = m] /\ UNCHANGED failed
    BY <2>a
  <2>2. cb.call \in AsyncCalls
    BY <1>c
  <2>3. \A d \in Calls \ AsyncCalls : failed'[d] = failed[d] /\ result'[d] = result[d]
    BY <2>1, <2>2 DEF TypeOK
  <2>4. UNCHANGED <<pc, pendingAsync>> /\ io' = {}
    BY <1>9 DEF RunDone
  <2> QED BY <1>c, <1>d, <2>3, <2>4
<1>10. CASE UNCHANGED <<pc, failed, result, pendingAsync, io>>
  BY <1>c, <1>d, <1>10
<1> QED BY <1>1, <1>2, <1>3, <1>4, <1>5, <1>6, <1>7, <1>8, <1>9, <1>10
        DEF Next, Caller, Close, ServerRun, Break, Quiescent, vars

\* CallMethod's loop with Reset and SetFailed: when a synchronous call is over, its
\* controller says Failed() exactly if no attempt got a response with NO_ERROR.
THEOREM FailedMeansNoAnswer == Spec => []ControllerAgrees
<1>1. Init => ControllerClean
  BY DEF Init, ControllerClean, ControllerAgrees
<1>2. ControllerClean => ControllerAgrees
  BY DEF ControllerClean
<1> QED BY <1>1, <1>2, TypeCorrect, ControllerStep, PTL DEF Spec

-----------------------------------------------------------------------------
(* How often the server runs a call.                                       *)

\* The requests of c that a worker of the server may still run.
SentBy(c) == {q \in requests : q.call = c}

\* What c has used of its budget: a request that is lost is never run.
Used(c) == runs[c] + Cardinality(SentBy(c))

\* A call has used at most one request per attempt: the ones that failed, and the one
\* that is under way once its request is written.
WithinBudget(c) ==
  /\ IsFiniteSet(SentBy(c))
  /\ c \in AsyncCalls => tries[c] = 0 /\ pc[c] \notin {"wait", "expired"}
  /\ pc[c] # "returned" => tries[c] < Abstract!Budget(c)
  /\ pc[c] \in Early \cup {"send"} => Used(c) <= tries[c]
  /\ pc[c] \in {"wait", "expired"} => Used(c) <= tries[c] + 1
  /\ Used(c) <= Abstract!Budget(c)

OneRequestPerAttempt == \A c \in Calls : WithinBudget(c)

\* CanRetry is what keeps the loop of CallMethod within the budget.
LEMMA BudgetFacts ==
  ASSUME NEW c \in Calls
  PROVE  /\ Abstract!Budget(c) \in Nat
         /\ Abstract!Budget(c) >= 1
         /\ c \in AsyncCalls => Abstract!Budget(c) = 1
         /\ TypeOK /\ CanRetry(c) /\ c \notin AsyncCalls
              => tries[c] + 1 < Abstract!Budget(c)
BY ChannelAssumption DEF Abstract!Budget, CanRetry, TypeOK

\* What a call has used is a number, and only a call with a request to be run is short
\* of its runs.
LEMMA UsedFacts ==
  ASSUME TypeOK, NEW c \in Calls, IsFiniteSet(SentBy(c))
  PROVE  /\ Used(c) \in Nat
         /\ runs[c] <= Used(c)
         /\ SentBy(c) # {} => runs[c] < Used(c)
<1>1. Cardinality(SentBy(c)) \in Nat /\ (SentBy(c) # {} => Cardinality(SentBy(c)) # 0)
  BY FS_CardinalityType, FS_EmptySet
<1>2. runs[c] \in Nat
  BY DEF TypeOK
<1> QED BY <1>1, <1>2 DEF Used

\* Writing one request uses one of the budget at most; running one uses nothing more.
LEMMA UsedSteps ==
  ASSUME TypeOK, OneRequestPerAttempt, NEW c \in Calls
  PROVE  /\ UNCHANGED <<requests, runs>>
              => IsFiniteSet(SentBy(c)') /\ Used(c)' = Used(c)
         /\ SendRequest(c) => /\ IsFiniteSet(SentBy(c)')
                              /\ Used(c)' \in Nat /\ Used(c)' <= Used(c) + 1
         /\ \A d \in Calls : SendRequest(d) /\ d # c
              => IsFiniteSet(SentBy(c)') /\ Used(c)' = Used(c)
         /\ \A q \in requests : ServerRun(q)
              => IsFiniteSet(SentBy(c)') /\ Used(c)' = Used(c)
<1>f. IsFiniteSet(SentBy(c)) /\ Cardinality(SentBy(c)) \in Nat
  BY FS_CardinalityType DEF OneRequestPerAttempt, WithinBudget
<1>r. runs \in [Calls -> Nat]
  BY DEF TypeOK
<1>1. ASSUME UNCHANGED <<requests, runs>>
      PROVE  IsFiniteSet(SentBy(c)') /\ Used(c)' = Used(c)
  BY <1>f, <1>1 DEF SentBy, Used
<1>2. ASSUME NEW d \in Calls, SendRequest(d)
      PROVE  /\ IsFiniteSet(SentBy(c)')
             /\ Used(c)' \in Nat /\ Used(c)' <= Used(c) + 1
             /\ d # c => Used(c)' = Used(c)
  <2> DEFINE q == [conn |-> conn[d], id |-> id[d], call |-> d]
  <2>1. runs' = runs /\ (requests' = requests \/ requests' = requests \cup {q})
    BY <1>2 DEF SendRequest
  <2>2. q.call = d
    OBVIOUS
  <2> HIDE DEF q
  <2>3. SentBy(c)' = SentBy(c) \/ (d = c /\ SentBy(c)' = SentBy(c) \cup {q})
    BY <2>1, <2>2 DEF SentBy
  <2>4. /\ IsFiniteSet(SentBy(c) \cup {q})
        /\ Cardinality(SentBy(c) \cup {q}) \in {Cardinality(SentBy(c)), Cardinality(SentBy(c)) + 1}
    BY <1>f, FS_AddElement
  <2>5. CASE SentBy(c)' = SentBy(c)
    <3>1. Used(c)' = Used(c)
      BY <2>1, <2>5 DEF Used
    <3> QED BY <1>f, <1>r, <2>5, <3>1 DEF Used
  <2>6. CASE d = c /\ SentBy(c)' = SentBy(c) \cup {q}
    <3>1. Used(c)' = runs[c] + Cardinality(SentBy(c) \cup {q})
      BY <2>1, <2>6 DEF Used
    <3> QED BY <1>f, <1>r, <2>4, <2>6, <3>1 DEF Used
  <2> QED BY <2>3, <2>5, <2>6
<1>3. ASSUME NEW q \in requests, ServerRun(q)
      PROVE  IsFiniteSet(SentBy(c)') /\ Used(c)' = Used(c)
  <2>1. requests' = requests \ {q} /\ runs' = [runs EXCEPT ![q.call] = runs[q.call] + 1]
    BY <1>3 DEF ServerRun
  <2>2. SentBy(c)' = SentBy(c) \ {q}
    BY <2>1 DEF SentBy
  <2>3. IsFiniteSet(SentBy(c) \ {q})
    BY <1>f, FS_RemoveElement
  <2>4. CASE q.call = c
    <3>1. Cardinality(SentBy(c) \ {q}) = Cardinality(SentBy(c)) - 1
      BY <1>f, <2>4, FS_RemoveElement DEF SentBy
    <3>2. runs'[c] = runs[c] + 1
      BY <1>r, <2>1, <2>4
    <3>3. Used(c)' = (runs[c] + 1) + (Cardinality(SentBy(c)) - 1)
      BY <2>2, <3>1, <3>2 DEF Used
    <3> QED BY <1>f, <1>r, <2>2, <2>3, <3>3 DEF Used
  <2>5. CASE q.call # c
    <3>1. SentBy(c) \ {q} = SentBy(c)
      BY <2>5 DEF SentBy
    <3>2. runs'[c] = runs[c]
      BY <1>r, <2>1, <2>5
    <3>3. Used(c)' = runs[c] + Cardinality(SentBy(c))
      BY <2>2, <3>1, <3>2 DEF Used
    <3> QED BY <2>2, <2>3, <3>3 DEF Used
  <2> QED BY <2>4, <2>5
<1> QED BY <1>1, <1>2, <1>3

\* Every attempt sends at most one request, and only CanRetry begins another attempt.
LEMMA BudgetStep ==
  TypeOK /\ TypeOK' /\ OneRequestPerAttempt /\ [Next]_vars => OneRequestPerAttempt'
<1> SUFFICES ASSUME TypeOK, TypeOK', OneRequestPerAttempt, [Next]_vars
             PROVE  OneRequestPerAttempt'
  OBVIOUS
<1> USE DEF chanVars, netVars, callVars
<1>i. ASSUME NEW d \in Calls
      PROVE  /\ WithinBudget(d) /\ Used(d) \in Nat
             /\ tries[d] \in Nat /\ pc[d] \in Locations
  BY UsedFacts DEF OneRequestPerAttempt, WithinBudget, TypeOK
\* A call whose thread and whose requests a step leaves alone.
<1>k. ASSUME NEW d \in Calls, pc'[d] = pc[d], tries'[d] = tries[d],
             IsFiniteSet(SentBy(d)'), Used(d)' = Used(d)
      PROVE  WithinBudget(d)'
  BY <1>i, <1>k DEF WithinBudget, Abstract!Budget
\* A step of the thread of one call that neither sends nor runs a request.
<1>t. ASSUME NEW c \in Calls, UNCHANGED <<requests, runs>>,
             \A d \in Calls : d # c => pc'[d] = pc[d] /\ tries'[d] = tries[d],
             IsFiniteSet(SentBy(c)') /\ Used(c)' = Used(c) => WithinBudget(c)'
      PROVE  OneRequestPerAttempt'
  <2> SUFFICES ASSUME NEW d \in Calls PROVE WithinBudget(d)'
    BY DEF OneRequestPerAttempt
  <2>1. IsFiniteSet(SentBy(d)') /\ Used(d)' = Used(d)
    BY <1>t, UsedSteps
  <2> QED BY <1>k, <1>t, <2>1
<1>a. ASSUME NEW c \in Calls, AttemptFails(c), pc[c] # "returned",
             UNCHANGED <<requests, runs>>
      PROVE  OneRequestPerAttempt'
  <2>1. \A d \in Calls : d # c => pc'[d] = pc[d] /\ tries'[d] = tries[d]
    BY <1>a DEF AttemptFails, TypeOK
  <2>2. /\ c \in AsyncCalls => pc'[c] = "returned" /\ tries'[c] = tries[c]
        /\ c \notin AsyncCalls => /\ pc'[c] = IF CanRetry(c) THEN "attempt" ELSE "returned"
                                  /\ tries'[c] = tries[c] + 1
    BY <1>a DEF AttemptFails, TypeOK
  <2>3. ASSUME IsFiniteSet(SentBy(c)'), Used(c)' = Used(c) PROVE WithinBudget(c)'
    <3>1. /\ WithinBudget(c) /\ Used(c) \in Nat /\ tries[c] \in Nat
          /\ Used(c) <= tries[c] + 1
      BY <1>a, <1>i DEF WithinBudget, Locations, Early
    <3>2. CASE c \in AsyncCalls
      BY <2>2, <2>3, <3>1, <3>2, BudgetFacts
         DEF WithinBudget, Early, Abstract!Budget
    <3>3. CASE c \notin AsyncCalls
      <4>1. CanRetry(c) => tries[c] + 1 < Abstract!Budget(c)
        BY <3>3, BudgetFacts
      <4>2. Abstract!Budget(c)' = Abstract!Budget(c) /\ Abstract!Budget(c) \in Nat
        BY BudgetFacts DEF Abstract!Budget
      <4> HIDE DEF Abstract!Budget
      <4> QED BY <2>2, <2>3, <3>1, <3>3, <4>1, <4>2 DEF WithinBudget, Early
    <3> QED BY <3>2, <3>3
  <2> QED BY <1>a, <1>t, <2>1, <2>3
<1>1. ASSUME NEW c \in Calls,
             CallMethod(c) \/ RejectController(c) \/ FindConnection(c) \/ Issue(c)
      PROVE  OneRequestPerAttempt'
  <2>1. /\ pc[c] \in Early /\ pc'[c] \in Early \cup {"send", "returned"}
        /\ UNCHANGED <<tries, requests, runs>>
        /\ \A d \in Calls : d # c => pc'[d] = pc[d]
    BY <1>1 DEF CallMethod, RejectController, FindConnection, Issue, TypeOK, Early
  <2>2. ASSUME IsFiniteSet(SentBy(c)'), Used(c)' = Used(c) PROVE WithinBudget(c)'
    BY <1>i, <2>1, <2>2, BudgetFacts DEF WithinBudget, Early, Abstract!Budget
  <2> QED BY <1>t, <2>1, <2>2
<1>2. ASSUME NEW c \in Calls, SelectAddress(c) \/ OpenConnection(c)
      PROVE  OneRequestPerAttempt'
  <2>1. pc[c] \in Early /\ UNCHANGED <<requests, runs>>
    BY <1>2 DEF SelectAddress, OpenConnection, Early
  <2>2. CASE ~AttemptFails(c)
    <3>1. /\ pc'[c] \in Early /\ UNCHANGED tries
          /\ \A d \in Calls : d # c => pc'[d] = pc[d]
      BY <1>2, <2>2 DEF SelectAddress, OpenConnection, TypeOK, Early
    <3>2. ASSUME IsFiniteSet(SentBy(c)'), Used(c)' = Used(c) PROVE WithinBudget(c)'
      BY <1>i, <2>1, <3>1, <3>2 DEF WithinBudget, Early, Abstract!Budget
    <3> QED BY <1>t, <2>1, <3>1, <3>2
  <2>3. pc[c] # "returned"
    BY <2>1 DEF Early
  <2> QED BY <1>a, <2>1, <2>2, <2>3
<1>3. ASSUME NEW c \in Calls, SendRequest(c) PROVE OneRequestPerAttempt'
  <2>1. /\ pc[c] = "send" /\ UNCHANGED tries
        /\ pc'[c] = IF c \in AsyncCalls THEN "returned" ELSE "wait"
        /\ \A d \in Calls : d # c => pc'[d] = pc[d]
    BY <1>3 DEF SendRequest, TypeOK
  <2>2. WithinBudget(c)'
    <3>1. IsFiniteSet(SentBy(c)') /\ Used(c)' \in Nat /\ Used(c)' <= Used(c) + 1
      BY <1>3, UsedSteps
    <3>2. /\ WithinBudget(c) /\ Used(c) \in Nat /\ tries[c] \in Nat
          /\ Abstract!Budget(c) \in Nat
      BY <1>i, BudgetFacts
    <3> QED BY <2>1, <3>1, <3>2 DEF WithinBudget, Early, Abstract!Budget
  <2>3. ASSUME NEW d \in Calls, d # c PROVE WithinBudget(d)'
    BY <1>3, <1>k, <2>1, <2>3, UsedSteps
  <2> QED BY <2>2, <2>3 DEF OneRequestPerAttempt
<1>4. ASSUME NEW c \in Calls, GetFuture(c) \/ WaitTimeout(c) \/ RemovePending(c)
      PROVE  OneRequestPerAttempt'
  <2>1. pc[c] \in {"wait", "expired"} /\ UNCHANGED <<requests, runs>>
    BY <1>4 DEF GetFuture, WaitTimeout, RemovePending
  <2>2. CASE ~AttemptFails(c)
    <3>1. /\ pc'[c] \in {"expired", "returned"} /\ UNCHANGED tries
          /\ \A d \in Calls : d # c => pc'[d] = pc[d]
      BY <1>4, <2>2 DEF GetFuture, WaitTimeout, RemovePending, TypeOK
    <3>2. ASSUME IsFiniteSet(SentBy(c)'), Used(c)' = Used(c) PROVE WithinBudget(c)'
      BY <1>i, <2>1, <3>1, <3>2 DEF WithinBudget, Early, Abstract!Budget
    <3> QED BY <1>t, <2>1, <3>1, <3>2
  <2> QED BY <1>a, <2>1, <2>2
<1>5. ASSUME NEW q \in requests, ServerRun(q) PROVE OneRequestPerAttempt'
  <2>1. UNCHANGED <<pc, tries>>
    BY <1>5 DEF ServerRun
  <2>2. ASSUME NEW d \in Calls PROVE WithinBudget(d)'
    BY <1>5, <1>k, <2>1, UsedSteps
  <2> QED BY <2>2 DEF OneRequestPerAttempt
<1>6. CASE UNCHANGED <<pc, tries, requests, runs>>
  <2>1. ASSUME NEW d \in Calls PROVE WithinBudget(d)'
    BY <1>6, <1>k, UsedSteps
  <2> QED BY <2>1 DEF OneRequestPerAttempt
<1> QED BY <1>1, <1>2, <1>3, <1>4, <1>5, <1>6
        DEF Next, Caller, HandleRead, RunDone, Close, Break, Quiescent, vars
-----------------------------------------------------------------------------
(* How an asynchronous call ends.                                          *)

\* An asynchronous call is in one place: not issued yet, pending under its id, being
\* called back, or over with its closure run; nothing is reported before that.
OneEnding ==
  /\ \A c \in Calls \ AsyncCalls : doneRuns[c] = 0
  /\ \A c \in Calls : doneRuns[c] <= 1
  /\ \A p \in pendingAsync :
       /\ pc[p.call] \in {"send", "returned"} /\ p.id = id[p.call]
       /\ doneRuns[p.call] = 0
       /\ \A cb \in io : cb.call # p.call
  /\ \A cb \in io : pc[cb.call] \in {"send", "returned"} /\ doneRuns[cb.call] = 0
  /\ \A c \in AsyncCalls : pc[c] \in Early => doneRuns[c] = 0
  /\ \A c \in AsyncCalls : doneRuns[c] = 0 => ~failed[c] /\ result[c] = NoCall

\* No step runs a closure a second time, and none leaves a call in two places.
LEMMA EndingStep ==
  TypeOK /\ OneRequestPerAttempt /\ ControllerClean /\ OneEnding /\ [Next]_vars
    => OneEnding'
<1> SUFFICES ASSUME TypeOK, OneRequestPerAttempt, ControllerClean, OneEnding, [Next]_vars
             PROVE  OneEnding'
  OBVIOUS
<1> USE DEF chanVars, netVars, callVars
<1>p. /\ \A p \in pendingAsync : p.call \in Calls /\ p.call \in AsyncCalls
      /\ \A cb \in io : cb.call \in Calls /\ cb.call \in AsyncCalls
      /\ \A c \in AsyncCalls : c \in Calls /\ pc[c] \notin {"wait", "expired"}
  BY ChannelAssumption
     DEF TypeOK, Pending, Callback, ControllerClean, OneRequestPerAttempt, WithinBudget
\* A call before it is issued is nowhere.
<1>n. ASSUME NEW c \in Calls, pc[c] \in Early
      PROVE  /\ \A p \in pendingAsync : p.call # c
             /\ \A cb \in io : cb.call # c
             /\ doneRuns[c] = 0
  BY <1>n DEF OneEnding, Early
\* A synchronous call's thread touches nothing that asynchronous calls use.
<1>s. ASSUME NEW c \in Calls \ AsyncCalls, UNCHANGED <<pendingAsync, io, id, doneRuns>>,
             \A d \in Calls : d # c => /\ pc'[d] = pc[d] /\ failed'[d] = failed[d]
                                      /\ result'[d] = result[d]
      PROVE  OneEnding'
  BY <1>p, <1>s DEF OneEnding
\* A call that ends before it was issued.
<1>e. ASSUME NEW c \in AsyncCalls, pc[c] \in Early, UNCHANGED <<pendingAsync, io, id>>,
             pc' = [pc EXCEPT ![c] = "returned"],
             failed' = [failed EXCEPT ![c] = TRUE], UNCHANGED result,
             doneRuns' = [doneRuns EXCEPT ![c] = doneRuns[c] + 1]
      PROVE  OneEnding'
  <2>1. c \in Calls /\ doneRuns'[c] = 1 /\ pc'[c] = "returned"
    BY <1>e, <1>n, <1>p DEF TypeOK
  <2>2. \A d \in Calls : d # c => /\ pc'[d] = pc[d] /\ failed'[d] = failed[d]
                                  /\ doneRuns'[d] = doneRuns[d]
    BY <1>e DEF TypeOK
  <2> QED BY <1>e, <1>n, <1>p, <2>1, <2>2 DEF OneEnding, Early
\* A step between two points at which the call is not issued yet.
<1>b. ASSUME NEW c \in Calls, pc[c] \in Early, pc'[c] \in Early,
             \A d \in Calls : d # c => pc'[d] = pc[d],
             UNCHANGED <<pendingAsync, io, id, doneRuns, failed, result>>
      PROVE  OneEnding'
  BY <1>b, <1>n, <1>p DEF OneEnding
<1>a. ASSUME NEW c \in Calls, AttemptFails(c), pc[c] # "returned", pc[c] # "send",
             UNCHANGED <<pendingAsync, io>>
      PROVE  OneEnding'
  <2>1. CASE c \in AsyncCalls
    <3>1. pc[c] \in Early
      BY <1>a, <1>p, <2>1 DEF TypeOK, Locations, Early
    <3> QED BY <1>a, <1>e, <2>1, <3>1 DEF AttemptFails
  <2>2. CASE c \notin AsyncCalls
    <3>1. UNCHANGED <<id, doneRuns, result>>
      BY <1>a, <2>2 DEF AttemptFails
    <3>2. \A d \in Calls : d # c => pc'[d] = pc[d] /\ failed'[d] = failed[d]
      BY <1>a DEF AttemptFails, TypeOK
    <3> QED BY <1>a, <1>s, <2>2, <3>1, <3>2
  <2> QED BY <2>1, <2>2
<1>1. ASSUME NEW c \in Calls, CallMethod(c) \/ FindConnection(c) PROVE OneEnding'
  <2>1. /\ pc[c] \in Early /\ pc'[c] \in Early
        /\ \A d \in Calls : d # c => pc'[d] = pc[d]
        /\ UNCHANGED <<pendingAsync, io, id, doneRuns, failed, result>>
    BY <1>1 DEF CallMethod, FindConnection, TypeOK, Early
  <2> QED BY <1>b, <2>1
<1>2. ASSUME NEW c \in Calls, RejectController(c) PROVE OneEnding'
  <2>1. pc[c] \in Early /\ UNCHANGED <<pendingAsync, io, id, result>>
    BY <1>2 DEF RejectController, Early
  <2>2. CASE c \in AsyncCalls
    BY <1>2, <1>e, <2>1, <2>2 DEF RejectController
  <2>3. CASE c \notin AsyncCalls
    <3>1. \A d \in Calls : d # c => pc'[d] = pc[d] /\ failed'[d] = failed[d]
      BY <1>2 DEF RejectController, TypeOK
    <3>2. UNCHANGED doneRuns
      BY <1>2, <2>3 DEF RejectController, TypeOK
    <3> QED BY <1>s, <2>1, <2>3, <3>1, <3>2
  <2> QED BY <2>2, <2>3
<1>3. ASSUME NEW c \in Calls, SelectAddress(c) \/ OpenConnection(c) PROVE OneEnding'
  <2>1. pc[c] \in {"attempt", "open"} /\ UNCHANGED <<pendingAsync, io>>
    BY <1>3 DEF SelectAddress, OpenConnection
  <2>2. CASE ~AttemptFails(c)
    <3>1. /\ pc'[c] \in Early /\ UNCHANGED <<id, doneRuns, failed, result>>
          /\ \A d \in Calls : d # c => pc'[d] = pc[d]
      BY <1>3, <2>2 DEF SelectAddress, OpenConnection, TypeOK, Early
    <3> QED BY <1>b, <2>1, <3>1 DEF Early
  <2> QED BY <1>a, <2>1, <2>2
<1>4. ASSUME NEW c \in Calls, Issue(c) PROVE OneEnding'
  <2>1. /\ pc[c] = "issue" /\ pc' = [pc EXCEPT ![c] = "send"]
        /\ id' = [id EXCEPT ![c] = nextId]
        /\ UNCHANGED <<io, doneRuns, failed, result>>
    BY <1>4 DEF Issue
  <2>2. /\ \A p \in pendingAsync : p.call # c
        /\ \A cb \in io : cb.call # c
        /\ doneRuns[c] = 0
    BY <1>n, <2>1 DEF Early
  <2>3. \A p \in pendingAsync' : p \in pendingAsync \/ (p.id = nextId /\ p.call = c)
    BY <1>4 DEF Issue, InsertPending
  <2>4. /\ pc'[c] = "send" /\ id'[c] = nextId
        /\ \A d \in Calls : d # c => pc'[d] = pc[d] /\ id'[d] = id[d]
    BY <2>1 DEF TypeOK
  <2> QED BY <1>p, <2>1, <2>2, <2>3, <2>4 DEF OneEnding, Early
<1>5. ASSUME NEW c \in Calls, SendRequest(c) PROVE OneEnding'
  <2>1. /\ pc[c] = "send" /\ pc'[c] = IF c \in AsyncCalls THEN "returned" ELSE "wait"
        /\ \A d \in Calls : d # c => pc'[d] = pc[d]
        /\ UNCHANGED <<pendingAsync, io, id, doneRuns, failed, result>>
    BY <1>5 DEF SendRequest, TypeOK
  <2> QED BY <1>p, <2>1 DEF OneEnding, Early
<1>6. ASSUME NEW c \in Calls, GetFuture(c) \/ WaitTimeout(c) \/ RemovePending(c)
      PROVE  OneEnding'
  <2>1. /\ pc[c] \in {"wait", "expired"} /\ UNCHANGED <<pendingAsync, io>>
        /\ c \notin AsyncCalls
    BY <1>6, <1>p DEF GetFuture, WaitTimeout, RemovePending
  <2>2. CASE ~AttemptFails(c)
    <3>1. /\ \A d \in Calls : d # c => pc'[d] = pc[d] /\ result'[d] = result[d]
          /\ UNCHANGED <<id, doneRuns, failed>>
      BY <1>6, <2>2 DEF GetFuture, WaitTimeout, RemovePending, TypeOK
    <3> QED BY <1>s, <2>1, <3>1
  <2> QED BY <1>a, <2>1, <2>2
<1>7. ASSUME NEW k \in ConnIds, HandleRead(k) PROVE OneEnding'
  <2>1. PICK r : OnRpcResponse(k, r)
    BY <1>7 DEF HandleRead
  <2>2. UNCHANGED <<pc, id, doneRuns, failed, result>> /\ io = {}
    BY <1>7 DEF HandleRead
  <2>3. CASE UNCHANGED <<pendingAsync, io>>
    BY <2>2, <2>3 DEF OneEnding
  <2>4. ASSUME NEW p \in pendingAsync, p.id = r.id,
               io' = {[conn |-> k, call |-> p.call, rsp |-> r]},
               pendingAsync' = ErasePending(pendingAsync, r.id)
        PROVE  OneEnding'
    <3>1. \A x \in pendingAsync' : x \in pendingAsync /\ x.call # p.call
      BY <2>4 DEF ErasePending, OneEnding
    <3>2. \A cb \in io' : cb.call = p.call
      BY <2>4
    <3> QED BY <2>2, <2>4, <3>1, <3>2 DEF OneEnding
  <2> QED BY <2>1, <2>3, <2>4 DEF OnRpcResponse
<1>8. CASE RunDone
  <2>a. PICK cb \in io : \E m \in Filled(cb.rsp) :
          /\ IF cb.rsp.kind = "error"
             THEN failed' = [failed EXCEPT ![cb.call] = TRUE] /\ UNCHANGED result
             ELSE result' = [result EXCEPT ![cb.call] = m] /\ UNCHANGED failed
          /\ doneRuns' = [doneRuns EXCEPT ![cb.call] = @ + 1]
    BY <1>8 DEF RunDone, Filled
  <2>1. PICK m \in Filled(cb.rsp) :
          /\ IF cb.rsp.kind = "error"
             THEN failed' = [failed EXCEPT ![cb.call] = TRUE] /\ UNCHANGED result
             ELSE result' = [result EXCEPT ![cb.call] = m] /\ UNCHANGED failed
          /\ doneRuns' = [doneRuns EXCEPT ![cb.call] = @ + 1]
    BY <2>a
  <2>2. io' = {} /\ UNCHANGED <<pc, id, pendingAsync>>
    BY <1>8 DEF RunDone
  <2> DEFINE c == cb.call
  <2>3. c \in Calls /\ c \in AsyncCalls /\ doneRuns[c] = 0 /\ pc[c] \in {"send", "returned"}
    BY <1>p DEF OneEnding
  <2>4. \A p \in pendingAsync : p.call # c
    BY DEF OneEnding
  <2>5. \A d \in Calls : d # c => failed'[d] = failed[d] /\ result'[d] = result[d]
    BY <2>1, <2>3 DEF TypeOK
  <2>6. doneRuns'[c] = 1 /\ \A d \in Calls : d # c => doneRuns'[d] = doneRuns[d]
    BY <2>1, <2>3 DEF TypeOK
  <2> HIDE DEF c
  <2> QED BY <1>p, <2>2, <2>3, <2>4, <2>5, <2>6 DEF OneEnding, Early
<1>9. CASE UNCHANGED <<pc, id, pendingAsync, io, doneRuns, failed, result>>
  BY <1>9 DEF OneEnding
<1> QED BY <1>1, <1>2, <1>3, <1>4, <1>5, <1>6, <1>7, <1>8, <1>9
        DEF Next, Caller, Close, ServerRun, Break, Quiescent, vars

\* What doCallAsync, onRpcResponse and RunDone rest on, in every state.
LEMMA CallInvariants ==
  Spec => [](TypeOK /\ OneRequestPerAttempt /\ ControllerClean /\ OneEnding)
<1>1. Init => OneRequestPerAttempt
  <2> SUFFICES ASSUME Init, NEW c \in Calls PROVE WithinBudget(c)
    BY DEF OneRequestPerAttempt
  <2>1. SentBy(c) = {} /\ runs[c] = 0 /\ tries[c] = 0 /\ pc[c] = "idle"
    BY DEF Init, SentBy
  <2>2. IsFiniteSet(SentBy(c)) /\ Used(c) = 0
    BY <2>1, FS_EmptySet DEF Used
  <2> QED BY <2>1, <2>2, BudgetFacts DEF WithinBudget
<1>2. Init => ControllerClean
  BY DEF Init, ControllerClean, ControllerAgrees
<1>3. Init => OneEnding
  BY ChannelAssumption DEF Init, OneEnding
<1> QED BY <1>1, <1>2, <1>3, TypeCorrect, BudgetStep, ControllerStep, EndingStep, PTL
        DEF Spec

\* CallMethod's loop and doCallAsync, whatever is lost, late or retried and however many
\* calls share the connections: the server runs an asynchronous or non-idempotent call at
\* most once and an idempotent one at most maxRetries() + 1 times.
THEOREM RunsKeepBudget == Spec => []RunsWithinBudget
<1>1. TypeOK /\ OneRequestPerAttempt => RunsWithinBudget
  <2> SUFFICES ASSUME TypeOK, OneRequestPerAttempt, NEW c \in Calls
               PROVE  runs[c] <= Abstract!Budget(c)
    BY DEF RunsWithinBudget
  <2>1. WithinBudget(c) /\ runs[c] \in Nat
    BY DEF OneRequestPerAttempt, TypeOK
  <2>2. Used(c) \in Nat /\ runs[c] <= Used(c) /\ Used(c) <= Abstract!Budget(c)
    BY <2>1, UsedFacts DEF WithinBudget
  <2> QED BY <2>1, <2>2, BudgetFacts
<1> QED BY <1>1, CallInvariants, PTL

\* doCallAsync against the loop's thread: done->Run() runs at most once for a call, not
\* while the call is pending or being called back, and never for a synchronous call.
THEOREM DoneRunsOnce == Spec => []DoneAtMostOnce
<1>1. TypeOK /\ OneEnding => DoneAtMostOnce
  <2> SUFFICES ASSUME TypeOK, OneEnding, NEW c \in Calls
               PROVE  /\ doneRuns[c] <= (IF c \in AsyncCalls THEN 1 ELSE 0)
                      /\ (\E p \in pendingAsync : p.call = c) \/ (\E cb \in io : cb.call = c)
                           => doneRuns[c] = 0
    BY DEF DoneAtMostOnce
  <2>1. doneRuns[c] <= (IF c \in AsyncCalls THEN 1 ELSE 0)
    BY DEF OneEnding
  <2>2. (\E p \in pendingAsync : p.call = c) \/ (\E cb \in io : cb.call = c)
          => doneRuns[c] = 0
    BY DEF OneEnding
  <2> QED BY <2>1, <2>2
<1> QED BY <1>1, CallInvariants, PTL
-----------------------------------------------------------------------------
(* An answer comes after a run.                                            *)

\* The responses that some run of their call produced.
Ran == {r \in Response : runs[r.call] > 0}

\* No frame, future or callback holds an answer to a call the server has not run, and
\* only a call that was made has requests.
AnswersRan ==
  /\ responses \in [ConnIds -> Seq(Ran)]
  /\ inbuf \in [ConnIds -> Seq(Ran)]
  /\ \A c \in Calls : reply[c] \subseteq Ran
  /\ \A cb \in io : cb.rsp \in Ran
  /\ \A q \in requests : pc[q.call] # "idle"

\* Every answer on its way, in a buffer or in a future comes from a run.
LEMMA AnswersStep == TypeOK /\ AnswersRan /\ [Next]_vars => AnswersRan'
<1> SUFFICES ASSUME TypeOK, AnswersRan, [Next]_vars PROVE AnswersRan'
  OBVIOUS
<1> USE DEF chanVars, netVars, callVars
<1>q. \A q \in requests : q.call \in Calls
  BY DEF TypeOK, Request
<1>a. ASSUME NEW c \in Calls, AttemptFails(c)
      PROVE  /\ \A d \in Calls : reply'[d] \subseteq reply[d]
             /\ \A d \in Calls : pc'[d] = "idle" => pc[d] = "idle"
  BY <1>a DEF AttemptFails, TypeOK
\* Steps of a caller's thread: runs and frames stay, futures are at most emptied.
<1>t. ASSUME UNCHANGED <<responses, inbuf, runs, io>>,
             \A d \in Calls : reply'[d] \subseteq reply[d],
             \A d \in Calls : pc'[d] = "idle" => pc[d] = "idle",
             \A q \in requests' : q \in requests \/ pc'[q.call] # "idle"
      PROVE  AnswersRan'
  BY <1>q, <1>t DEF AnswersRan, Ran
<1>1. ASSUME NEW c \in Calls,
             \/ CallMethod(c) \/ RejectController(c) \/ FindConnection(c) \/ Issue(c)
             \/ SendRequest(c) \/ WaitTimeout(c)
      PROVE  AnswersRan'
  <2>1. UNCHANGED <<responses, inbuf, runs, io, reply>>
    BY <1>1 DEF CallMethod, RejectController, FindConnection, Issue, SendRequest,
                WaitTimeout
  <2>2. \A d \in Calls : pc'[d] = "idle" => pc[d] = "idle"
    BY <1>1 DEF CallMethod, RejectController, FindConnection, Issue, SendRequest,
                WaitTimeout, TypeOK
  <2>3. \A q \in requests' : q \in requests \/ q.call = c
    BY <1>1 DEF CallMethod, RejectController, FindConnection, Issue, SendRequest,
                WaitTimeout
  <2>4. pc'[c] # "idle"
    BY <1>1 DEF CallMethod, RejectController, FindConnection, Issue, SendRequest,
                WaitTimeout, TypeOK
  <2> QED BY <1>t, <2>1, <2>2, <2>3, <2>4
<1>2. ASSUME NEW c \in Calls,
             SelectAddress(c) \/ OpenConnection(c) \/ GetFuture(c) \/ RemovePending(c)
      PROVE  AnswersRan'
  <2>1. UNCHANGED <<responses, inbuf, runs, io, requests>>
    BY <1>2 DEF SelectAddress, OpenConnection, GetFuture, RemovePending
  <2>2. CASE ~AttemptFails(c)
    <3>1. UNCHANGED reply /\ \A d \in Calls : pc'[d] = "idle" => pc[d] = "idle"
      BY <1>2, <2>2 DEF SelectAddress, OpenConnection, GetFuture, RemovePending, TypeOK
    <3> QED BY <1>t, <2>1, <3>1
  <2> QED BY <1>a, <1>t, <2>1, <2>2
<1>3. ASSUME NEW k \in ConnIds, HandleRead(k) PROVE AnswersRan'
  <2>1. PICK n \in 0 .. Len(responses[k]) :
          LET avail == inbuf[k] \o SubSeq(responses[k], 1, n)
          IN /\ avail # <<>>
             /\ responses' = [responses EXCEPT
                                ![k] = SubSeq(responses[k], n + 1, Len(responses[k]))]
             /\ inbuf' = [inbuf EXCEPT ![k] = Tail(avail)]
             /\ OnRpcResponse(k, Head(avail))
    BY <1>3 DEF HandleRead
  <2> DEFINE avail == inbuf[k] \o SubSeq(responses[k], 1, n)
             r == Head(avail)
  <2>2. responses[k] \in Seq(Ran) /\ inbuf[k] \in Seq(Ran)
    BY DEF AnswersRan
  <2>3. /\ SubSeq(responses[k], n + 1, Len(responses[k])) \in Seq(Ran)
        /\ r \in Ran
        /\ Tail(avail) \in Seq(Ran)
    BY <2>1, <2>2, ReadFrames
  <2>4. responses' \in [ConnIds -> Seq(Ran)] /\ inbuf' \in [ConnIds -> Seq(Ran)]
    BY <2>1, <2>3 DEF AnswersRan
  <2>5. OnRpcResponse(k, r)
    BY <2>1
  <2>6. UNCHANGED <<pc, requests, runs>>
    BY <1>3 DEF HandleRead
  <2> HIDE DEF r, avail
  <2>7. \A c \in Calls : reply'[c] \subseteq Ran
    <3>1. ASSUME NEW p \in pendingSync, reply' = [reply EXCEPT ![p.call] = {r}]
          PROVE  \A c \in Calls : reply'[c] \subseteq Ran
      BY <2>3, <3>1 DEF AnswersRan, TypeOK
    <3> QED BY <2>5, <3>1 DEF OnRpcResponse, AnswersRan
  <2>8. \A cb \in io' : cb.rsp \in Ran
    BY <2>3, <2>5 DEF OnRpcResponse, AnswersRan
  <2>9. Ran' = Ran
    BY <2>6 DEF Ran
  <2> QED BY <2>4, <2>6, <2>7, <2>8, <2>9 DEF AnswersRan
<1>4. ASSUME NEW q \in requests, ServerRun(q) PROVE AnswersRan'
  <2>1. PICK kind \in Kinds :
          responses' = IF q.conn \in down \/ ~Alive(q.conn)
                       THEN responses
                       ELSE [responses EXCEPT ![q.conn] =
                               Append(@, [id |-> q.id, call |-> q.call, kind |-> kind])]
    BY <1>4 DEF ServerRun
  <2> DEFINE r == [id |-> q.id, call |-> q.call, kind |-> kind]
  <2>2. q.conn \in ConnIds /\ q.call \in Calls /\ r \in Response /\ r.call = q.call
    BY DEF TypeOK, Request, Response
  <2>3. /\ runs' = [runs EXCEPT ![q.call] = runs[q.call] + 1]
        /\ requests' \subseteq requests
        /\ UNCHANGED <<inbuf, reply, io, pc>>
    BY <1>4 DEF ServerRun
  <2>4. runs'[q.call] > 0 /\ \A d \in Calls : runs[d] > 0 => runs'[d] > 0
    <3>1. runs \in [Calls -> Nat]
      BY DEF TypeOK
    <3> QED BY <2>2, <2>3, <3>1
  <2>5. r \in Ran'
    BY <2>2, <2>4 DEF Ran
  <2>6. Ran \subseteq Ran'
    BY <2>4 DEF Ran, Response
  <2>7. \A s \in Seq(Ran) : s \in Seq(Ran')
    BY <2>6, SeqMonotonic
  <2>8. inbuf' \in [ConnIds -> Seq(Ran')] /\ responses \in [ConnIds -> Seq(Ran')]
    BY <2>3, <2>7 DEF AnswersRan
  <2>9. responses' \in [ConnIds -> Seq(Ran')]
    <3>1. Append(responses[q.conn], r) \in Seq(Ran')
      BY <2>2, <2>5, <2>8, AppendProperties
    <3> HIDE DEF r
    <3>2. responses' = responses \/ responses' = [responses EXCEPT ![q.conn] = Append(responses[q.conn], r)]
      BY <2>1 DEF r
    <3> QED BY <2>2, <2>8, <3>1, <3>2
  <2> HIDE DEF r
  <2> QED BY <2>3, <2>6, <2>8, <2>9 DEF AnswersRan
<1>5. ASSUME NEW k \in created \ down, Break(k) PROVE AnswersRan'
  <2>1. responses' \in [ConnIds -> Seq(Ran)]
    BY <1>5, EmptySeq DEF Break, AnswersRan, TypeOK
  <2>2. UNCHANGED <<pc, requests, runs, reply, io, inbuf>>
    BY <1>5 DEF Break
  <2> QED BY <2>1, <2>2 DEF AnswersRan, Ran
<1>6. CASE RunDone
  BY <1>6 DEF RunDone, AnswersRan, Ran
<1>7. CASE UNCHANGED <<pc, reply, io, requests, responses, inbuf, runs>>
  BY <1>7 DEF AnswersRan, Ran
<1> QED BY <1>1, <1>2, <1>3, <1>4, <1>5, <1>6, <1>7
        DEF Next, Caller, Close, Quiescent, vars
-----------------------------------------------------------------------------
(* The refinement.                                                         *)

\* A call that is not over yet is seen as idle or calling.
LEMMA StatusFacts ==
  ASSUME TypeOK, ControllerClean, OneEnding, NEW c \in Calls
  PROVE  /\ pc[c] = "idle" <=> CallStatus(c) = "idle"
         /\ pc[c] # "idle" /\ result[c] # NoCall => CallStatus(c) = "ok"
         /\ pc[c] # "idle" /\ result[c] = NoCall /\ failed[c] => CallStatus(c) = "failed"
         /\ pc[c] # "idle" /\ result[c] = NoCall /\ ~failed[c] => CallStatus(c) = "calling"
         /\ c \notin AsyncCalls /\ pc[c] # "returned" => result[c] = NoCall /\ ~failed[c]
         /\ c \in AsyncCalls /\ doneRuns[c] = 0 => result[c] = NoCall /\ ~failed[c]
         /\ pc[c] \in Early => result[c] = NoCall /\ ~failed[c]
<1>1. /\ c \notin AsyncCalls /\ pc[c] # "returned" => result[c] = NoCall /\ ~failed[c]
      /\ c \in AsyncCalls /\ doneRuns[c] = 0 => result[c] = NoCall /\ ~failed[c]
  BY DEF ControllerClean, OneEnding
<1>2. pc[c] \in Early => result[c] = NoCall /\ ~failed[c]
  BY <1>1 DEF OneEnding, Early
<1>3. /\ pc[c] = "idle" <=> CallStatus(c) = "idle"
      /\ pc[c] # "idle" /\ result[c] # NoCall => CallStatus(c) = "ok"
      /\ pc[c] # "idle" /\ result[c] = NoCall /\ failed[c] => CallStatus(c) = "failed"
      /\ pc[c] # "idle" /\ result[c] = NoCall /\ ~failed[c] => CallStatus(c) = "calling"
  BY DEF CallStatus
<1> QED BY <1>1, <1>2, <1>3

\* A step of RpcCall, or one that changes nothing of what it sees.
CallStep == [Abstract!CallNext]_(Abstract!callVars)

\* Each step of the channel, its callers and its environment is one step of RpcCall, or
\* leaves what RpcCall sees as it was.
LEMMA RefinementStep ==
  ASSUME TypeOK, TypeOK', ControllerClean, ControllerClean', OneEnding, OneEnding',
         OneRequestPerAttempt, AnswersRan, RepliesMatch, [Next]_vars
  PROVE  CallStep
<1> USE DEF chanVars, netVars, callVars
\* A step that no call can be seen to take.
<1>u. ASSUME \A d \in Calls : CallStatus(d)' = CallStatus(d), UNCHANGED runs
      PROVE  CallStep
  <2>1. [d \in Calls |-> CallStatus(d)]' = [d \in Calls |-> CallStatus(d)]
    BY <1>u
  <2> QED BY <1>u, <2>1 DEF CallStep, Abstract!callVars
\* A step that one call is seen to take.
<1>c. ASSUME NEW c \in Calls, NEW to, CallStatus(c)' = to,
             \A d \in Calls : d # c => CallStatus(d)' = CallStatus(d), UNCHANGED runs,
             \/ CallStatus(c) = "idle" /\ to = "calling"
             \/ CallStatus(c) = "idle" /\ to = "failed"
             \/ CallStatus(c) = "calling" /\ to = "failed"
             \/ CallStatus(c) = "calling" /\ to = "ok" /\ runs[c] > 0
             \/ CallStatus(c) = to
      PROVE  CallStep
  <2>1. [d \in Calls |-> CallStatus(d)]'
          = [[d \in Calls |-> CallStatus(d)] EXCEPT ![c] = to]
    BY <1>c
  <2>2. [d \in Calls |-> CallStatus(d)][c] = CallStatus(c)
    OBVIOUS
  <2>3. CASE CallStatus(c) = to
    BY <1>c, <1>u, <2>3
  <2>4. CASE CallStatus(c) # to
    <3>1. Abstract!Invoke(c) \/ Abstract!Reject(c) \/ Abstract!ReturnFailed(c) \/ Abstract!ReturnOk(c)
      BY <1>c, <2>1, <2>2, <2>4
         DEF Abstract!Invoke, Abstract!Reject, Abstract!ReturnFailed, Abstract!ReturnOk
    <3> QED BY <3>1 DEF CallStep, Abstract!CallNext
  <2> QED BY <2>3, <2>4
\* Only a change of its place, result or controller can be seen of a call.
<1>k. ASSUME NEW d \in Calls, pc'[d] = pc[d] \/ (pc[d] # "idle" /\ pc'[d] # "idle"),
             failed'[d] = failed[d], result'[d] = result[d]
      PROVE  CallStatus(d)' = CallStatus(d)
  BY <1>k DEF CallStatus
<1>a. ASSUME NEW c \in Calls, AttemptFails(c), pc[c] # "idle", UNCHANGED runs,
             c \notin AsyncCalls => pc[c] # "returned",
             c \in AsyncCalls => pc[c] \in Early
      PROVE  CallStep
  <2>1. \A d \in Calls : d # c => /\ pc'[d] = pc[d] /\ failed'[d] = failed[d]
                                  /\ result'[d] = result[d]
    BY <1>a DEF AttemptFails, TypeOK
  <2>2. result[c] = NoCall /\ ~failed[c] /\ CallStatus(c) = "calling"
    BY <1>a, StatusFacts
  <2>3. pc'[c] # "idle" /\ result'[c] = result[c]
    BY <1>a DEF AttemptFails, TypeOK
  <2>4. CallStatus(c)' \in {"calling", "failed"}
    BY <2>2, <2>3 DEF CallStatus
  <2> QED BY <1>a, <1>c, <1>k, <2>1, <2>2, <2>4
<1>1. ASSUME NEW c \in Calls, CallMethod(c) PROVE CallStep
  <2>1. /\ pc[c] = "idle" /\ pc'[c] = "attempt"
        /\ \A d \in Calls : d # c => pc'[d] = pc[d]
        /\ UNCHANGED <<failed, result, runs>>
    BY <1>1 DEF CallMethod, TypeOK
  <2>2. result[c] = NoCall /\ ~failed[c] /\ CallStatus(c) = "idle"
    BY <2>1, StatusFacts DEF Early
  <2>3. CallStatus(c)' = "calling"
    BY <2>1, <2>2 DEF CallStatus
  <2> QED BY <1>c, <1>k, <2>1, <2>2, <2>3
<1>2. ASSUME NEW c \in Calls, RejectController(c) PROVE CallStep
  <2>1. /\ pc[c] = "idle" /\ pc'[c] = "returned" /\ failed'[c] = TRUE
        /\ \A d \in Calls : d # c => pc'[d] = pc[d] /\ failed'[d] = failed[d]
        /\ UNCHANGED <<result, runs>>
    BY <1>2 DEF RejectController, TypeOK
  <2>2. result[c] = NoCall /\ CallStatus(c) = "idle"
    BY <2>1, StatusFacts DEF Early
  <2>3. CallStatus(c)' = "failed"
    BY <2>1, <2>2 DEF CallStatus
  <2> QED BY <1>c, <1>k, <2>1, <2>2, <2>3
<1>3. ASSUME NEW c \in Calls, SelectAddress(c) \/ OpenConnection(c) PROVE CallStep
  <2>1. pc[c] \in {"attempt", "open"} /\ UNCHANGED runs
    BY <1>3 DEF SelectAddress, OpenConnection
  <2>2. CASE ~AttemptFails(c)
    <3>1. /\ pc'[c] # "idle" /\ UNCHANGED <<failed, result>>
          /\ \A d \in Calls : d # c => pc'[d] = pc[d]
      BY <1>3, <2>2 DEF SelectAddress, OpenConnection, TypeOK
    <3> QED BY <1>k, <1>u, <2>1, <3>1
  <2> QED BY <1>a, <2>1, <2>2 DEF Early
<1>4. ASSUME NEW c \in Calls,
             FindConnection(c) \/ Issue(c) \/ SendRequest(c) \/ WaitTimeout(c)
      PROVE  CallStep
  <2>1. /\ pc[c] # "idle" /\ pc'[c] # "idle"
        /\ \A d \in Calls : d # c => pc'[d] = pc[d]
        /\ UNCHANGED <<failed, result, runs>>
    BY <1>4 DEF FindConnection, Issue, SendRequest, WaitTimeout, TypeOK
  <2> QED BY <1>k, <1>u, <2>1
<1>5. ASSUME NEW c \in Calls, GetFuture(c) \/ RemovePending(c) PROVE CallStep
  <2>1. pc[c] \in {"wait", "expired"} /\ UNCHANGED runs /\ c \notin AsyncCalls
    BY <1>5 DEF GetFuture, RemovePending, OneRequestPerAttempt, WithinBudget
  <2>2. CASE ~AttemptFails(c)
    <3>a. PICK r \in reply[c] : \E m \in Filled(r) :
            /\ result' = [result EXCEPT ![c] = m]
            /\ pc' = [pc EXCEPT ![c] = "returned"]
            /\ UNCHANGED failed
      BY <1>5, <2>2 DEF GetFuture, RemovePending
    <3>1. PICK m \in Filled(r) :
            /\ result' = [result EXCEPT ![c] = m]
            /\ pc' = [pc EXCEPT ![c] = "returned"]
            /\ UNCHANGED failed
      BY <3>a
    <3>2. m # NoCall /\ runs[c] > 0
      BY <3>1, ChannelAssumption DEF RepliesMatch, AnswersRan, Ran, Filled
    <3>3. /\ result'[c] # NoCall /\ pc'[c] = "returned"
          /\ \A d \in Calls : d # c => pc'[d] = pc[d] /\ result'[d] = result[d]
      BY <3>1, <3>2 DEF TypeOK
    <3>4. CallStatus(c) = "calling"
      BY <2>1, StatusFacts
    <3>5. CallStatus(c)' = "ok"
      BY <3>2, <3>3 DEF CallStatus
    <3> QED BY <1>c, <1>k, <2>1, <3>1, <3>2, <3>3, <3>4, <3>5
  <2> QED BY <1>a, <2>1, <2>2
<1>6. CASE RunDone
  <2>a. PICK cb \in io : \E m \in Filled(cb.rsp) :
          IF cb.rsp.kind = "error"
          THEN failed' = [failed EXCEPT ![cb.call] = TRUE] /\ UNCHANGED result
          ELSE result' = [result EXCEPT ![cb.call] = m] /\ UNCHANGED failed
    BY <1>6 DEF RunDone, Filled
  <2>1. PICK m \in Filled(cb.rsp) :
          IF cb.rsp.kind = "error"
          THEN failed' = [failed EXCEPT ![cb.call] = TRUE] /\ UNCHANGED result
          ELSE result' = [result EXCEPT ![cb.call] = m] /\ UNCHANGED failed
    BY <2>a
  <2>2. UNCHANGED <<pc, runs>>
    BY <1>6 DEF RunDone
  <2> DEFINE c == cb.call
  <2>3. /\ c \in Calls /\ c \in AsyncCalls /\ m # NoCall
        /\ runs[c] > 0 /\ doneRuns[c] = 0 /\ pc[c] # "idle"
    <3>1. /\ c \in Calls /\ c \in AsyncCalls /\ cb.rsp.call = c
          /\ runs[c] > 0 /\ doneRuns[c] = 0 /\ pc[c] # "idle"
      BY DEF TypeOK, Callback, ControllerClean, RepliesMatch, AnswersRan, Ran, OneEnding
    <3> QED BY <3>1, ChannelAssumption DEF Filled
  <2> HIDE DEF c
  <2>4. result[c] = NoCall /\ ~failed[c] /\ CallStatus(c) = "calling"
    BY <2>3, StatusFacts
  <2>5. \A d \in Calls : d # c => failed'[d] = failed[d] /\ result'[d] = result[d]
    BY <2>1, <2>3 DEF TypeOK, c
  <2>6. \/ failed'[c] = TRUE /\ result'[c] = NoCall
        \/ result'[c] # NoCall
    BY <2>1, <2>3, <2>4 DEF TypeOK, c
  <2>7. CallStatus(c)' \in {"failed", "ok"}
    BY <2>2, <2>3, <2>6 DEF CallStatus
  <2>8. \A d \in Calls : d # c => CallStatus(d)' = CallStatus(d)
    BY <1>k, <2>2, <2>5
  <2> QED BY <1>c, <2>2, <2>3, <2>4, <2>7, <2>8
<1>7. ASSUME NEW q \in requests, ServerRun(q) PROVE CallStep
  <2>1. /\ UNCHANGED <<pc, failed, result>>
        /\ runs' = [runs EXCEPT ![q.call] = runs[q.call] + 1]
    BY <1>7 DEF ServerRun
  <2> DEFINE c == q.call
  <2>2. c \in Calls /\ pc[c] # "idle" /\ SentBy(c) # {}
    BY DEF TypeOK, Request, AnswersRan, SentBy
  <2>3. runs[c] < Abstract!Budget(c)
    <3>1. WithinBudget(c) /\ runs[c] \in Nat /\ Abstract!Budget(c) \in Nat
      BY <2>2, BudgetFacts DEF OneRequestPerAttempt, TypeOK
    <3>2. Used(c) \in Nat /\ runs[c] < Used(c) /\ Used(c) <= Abstract!Budget(c)
      BY <2>2, <3>1, UsedFacts DEF WithinBudget
    <3> QED BY <3>1, <3>2
  <2>4. [d \in Calls |-> CallStatus(d)]' = [d \in Calls |-> CallStatus(d)]
    BY <1>k, <2>1
  <2>5. [d \in Calls |-> CallStatus(d)][c] # "idle"
    BY <2>2, StatusFacts
  <2>6. Abstract!Execute(c)
    BY <2>1, <2>3, <2>4, <2>5 DEF Abstract!Execute
  <2> QED BY <2>2, <2>6 DEF CallStep, Abstract!CallNext
<1>8. CASE UNCHANGED <<pc, failed, result, runs>>
  <2>1. \A d \in Calls : CallStatus(d)' = CallStatus(d)
    BY <1>8, <1>k
  <2> QED BY <1>8, <1>u, <2>1
<1>9. ASSUME \/ \E k \in ConnIds : HandleRead(k) \/ Break(k)
             \/ Close \/ Quiescent \/ UNCHANGED vars
      PROVE  UNCHANGED <<pc, failed, result, runs>>
  BY <1>9 DEF HandleRead, Break, Close, Quiescent, vars
<1>10. created \subseteq ConnIds
  BY DEF TypeOK
<1> QED BY <1>1, <1>2, <1>3, <1>4, <1>5, <1>6, <1>7, <1>8, <1>9, <1>10 DEF Next, Caller

\* RpcChannel does what RpcCall promises: a call ends at most once, a result is reported
\* only after the server ran the request, and the server keeps to the call's budget.
THEOREM ChannelImplementsRpcCall == Spec => ImplementsRpcCall
<1>1. Init => Abstract!CallInit
  <2> SUFFICES ASSUME Init PROVE Abstract!CallInit
    OBVIOUS
  <2>1. \A c \in Calls : CallStatus(c) = "idle"
    BY DEF Init, CallStatus
  <2> QED BY <2>1 DEF Init, Abstract!CallInit
<1>2. Init => AnswersRan /\ IdsMatch /\ RepliesMatch
  <2> SUFFICES ASSUME Init PROVE AnswersRan /\ IdsMatch /\ RepliesMatch
    OBVIOUS
  <2>1. <<>> \in Seq(Ran) /\ <<>> \in Seq(GoodFrames)
    BY EmptySeq
  <2>2. AnswersRan
    BY <2>1 DEF Init, AnswersRan
  <2>3. IdsMatch
    BY <2>1 DEF Init, IdsMatch, AllPending
  <2>4. RepliesMatch
    BY DEF Init, RepliesMatch, OwnResult
  <2> QED BY <2>2, <2>3, <2>4
<1>3. TypeOK /\ AnswersRan /\ IdsMatch /\ RepliesMatch /\ [Next]_vars
        => AnswersRan' /\ IdsMatch' /\ RepliesMatch'
  BY AnswersStep, IdsStep, RepliesStep
<1>4. /\ TypeOK /\ TypeOK' /\ ControllerClean /\ ControllerClean' /\ OneEnding /\ OneEnding'
      /\ OneRequestPerAttempt /\ AnswersRan /\ RepliesMatch /\ [Next]_vars
      => [Abstract!CallNext]_(Abstract!callVars)
  BY RefinementStep DEF CallStep
<1> QED BY <1>1, <1>2, <1>3, <1>4, CallInvariants, PTL
        DEF Spec, ImplementsRpcCall, Abstract!CallSpec
=============================================================================

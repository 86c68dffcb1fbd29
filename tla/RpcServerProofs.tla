---------------------------- MODULE RpcServerProofs ----------------------------
(***************************************************************************)
(* What is proved of RpcServer for any clients, descriptors and requests:  *)
(* its type invariant, that a response never reaches another client        *)
(* although descriptors are reused, that epoll holds no Channel that is    *)
(* gone, that the loop's thread leaves no event of one, and that a request *)
(* is neither lost nor doubled on its way.                                 *)
(***************************************************************************)
EXTENDS RpcServer, QueueLemmas

\* What is left of a sequence when a prefix is taken, and the prefix.
LEMMA SplitAt ==
  ASSUME NEW S, NEW s \in Seq(S), NEW n \in 0 .. Len(s)
  PROVE  /\ SubSeq(s, 1, n) \in Seq(S)
         /\ SubSeq(s, n + 1, Len(s)) \in Seq(S)
<1>1. Len(s) \in Nat /\ \A i \in 1 .. Len(s) : s[i] \in S
  BY LenProperties, ElementOfSeq
<1> QED BY <1>1, SubSeqProperties

\* Taking the head of a queue.
LEMMA HeadTail ==
  ASSUME NEW S, NEW s \in Seq(S), s # <<>>
  PROVE  /\ Head(s) \in S /\ Tail(s) \in Seq(S)
         /\ Head(s) \in Range(s)
         /\ Range(Tail(s)) \subseteq Range(s)
<1>1. /\ Head(s) \in S /\ Tail(s) \in Seq(S) /\ Head(s) = s[1]
      /\ Len(s) \in Nat \ {0} /\ DOMAIN s = 1 .. Len(s)
      /\ DOMAIN Tail(s) = 1 .. Len(s) - 1
      /\ \A i \in 1 .. Len(s) - 1 : Tail(s)[i] = s[i + 1]
  BY HeadTailProperties, LenProperties, EmptySeq
<1> QED BY <1>1 DEF Range

\* The range of a sequence over S.
LEMMA RangeSeq ==
  ASSUME NEW S, NEW s \in Seq(S)
  PROVE  Range(s) \subseteq S
BY ElementOfSeq, LenProperties DEF Range

\* What handleRead moves from the socket of x to inputBuffer_.
LEMMA ReadType ==
  ASSUME NEW x, NEW S, NEW a \in [Conns -> Seq(S)], NEW b \in [Conns -> Seq(S)], x \in Conns,
         NEW n \in 1 .. Len(b[x])
  PROVE  /\ [a EXCEPT ![x] = @ \o SubSeq(b[x], 1, n)] \in [Conns -> Seq(S)]
         /\ [b EXCEPT ![x] = SubSeq(@, n + 1, Len(@))] \in [Conns -> Seq(S)]
<1>1. a[x] \in Seq(S) /\ b[x] \in Seq(S) /\ Len(b[x]) \in Nat /\ n \in 0 .. Len(b[x])
  BY LenProperties
<1>2. SubSeq(b[x], 1, n) \in Seq(S) /\ SubSeq(b[x], n + 1, Len(b[x])) \in Seq(S)
  BY <1>1, SplitAt
<1>3. a[x] \o SubSeq(b[x], 1, n) \in Seq(S)
  BY <1>1, <1>2, ConcatProperties
<1> QED BY <1>2, <1>3

\* A request belongs to the client it names.
LEMMA RequestFields ==
  ASSUME NEW r \in Request
  PROVE  r.conn \in Conns /\ r \in Asks(r.conn)
BY DEF Request, Asks

\* What client x asks is a request, and names x.
LEMMA AsksFields ==
  ASSUME NEW x \in Conns, NEW r \in Asks(x)
  PROVE  r \in Request /\ r.conn = x
BY DEF Request, Asks
-----------------------------------------------------------------------------
\* The event being handled is one of a connection.
CurIsConn == \A e \in cur : e.ch \in Conns

TypeInv == TypeOK /\ CurIsConn

\* Destroying objects in the loop's thread keeps the types.
LEMMA ReleaseType ==
  ASSUME TypeOK, ReleaseInLoop
  PROVE  /\ obj' \in [Conns -> {"none", "alive", "removed", "freed"}]
         /\ events' \in [Conns -> SUBSET {"in", "out"}]
         /\ files' \in [Fds -> Conns \cup {NoConn}]
         /\ epoll' \in [Fds -> Registration]
         /\ channels' \subseteq Fds
<1> DEFINE gone == {x \in Conns : obj[x] = "alive" /\ ~Held(x)'}
<1>1. /\ obj' = [x \in Conns |-> IF x \in gone THEN "freed" ELSE obj[x]]
      /\ events' = [x \in Conns |-> IF x \in gone THEN {} ELSE events[x]]
      /\ files' = [f \in Fds |-> IF files[f] \in gone THEN NoConn ELSE files[f]]
      /\ epoll' = [f \in Fds |-> IF files[f] \in gone THEN NoReg ELSE epoll[f]]
      /\ UNCHANGED channels
  BY Zenon DEF ReleaseInLoop
<1> HIDE DEF gone
<1>2. NoReg \in Registration
  BY DEF NoReg, Registration
<1> QED BY <1>1, <1>2 DEF TypeOK

\* So does registering or modifying a Channel.
LEMMA UpdateType ==
  ASSUME TypeOK, NEW f, NEW x \in Conns, NEW m \in SUBSET {"in", "out"}
  PROVE  UpdateChannel(f, x, m) \in [Fds -> Registration]
BY DEF TypeOK, UpdateChannel, Registration

\* So does writing to a descriptor, whoever it belongs to.
LEMMA WrittenType ==
  ASSUME TypeOK, NEW x \in Conns, NEW s \in Seq(Request)
  PROVE  Written(x, s) \in [Conns -> Seq(Request)]
<1> DEFINE y == files[fdOf[x]]
<1>1. ASSUME y \in Conns PROVE got[y] \o s \in Seq(Request)
  BY <1>1, ConcatProperties DEF TypeOK
<1> HIDE DEF y
<1>2. [got EXCEPT ![y] = got[y] \o s] \in [Conns -> Seq(Request)] \/ y \notin Conns
  BY <1>1 DEF TypeOK
<1>3. Written(x, s) = IF y \in Conns /\ hung[y] = "no" THEN [got EXCEPT ![y] = got[y] \o s] ELSE got
  BY DEF Written, y
<1> QED BY <1>2, <1>3 DEF TypeOK

\* So does TcpConnection::send.
LEMMA SendType ==
  ASSUME TypeOK, NEW x \in Conns, NEW r \in Request, Send(x, r)
  PROVE  /\ out' \in [Conns -> Seq(Request)]
         /\ got' \in [Conns -> Seq(Request)]
         /\ events' \in [Conns -> SUBSET {"in", "out"}]
         /\ epoll' \in [Fds -> Registration]
<1>1. CASE got' = Written(x, <<r>>) /\ UNCHANGED <<out, events, epoll>>
  <2>1. <<r>> \in Seq(Request)
    OBVIOUS
  <2> QED BY <1>1, <2>1, WrittenType DEF TypeOK
<1>2. CASE /\ out' = [out EXCEPT ![x] = Append(@, r)]
           /\ EnableWriting(x)
           /\ UNCHANGED got
  <2>1. out' \in [Conns -> Seq(Request)]
    BY <1>2, AppendProperties DEF TypeOK
  <2>2. events[x] \cup {"out"} \in SUBSET {"in", "out"}
    BY DEF TypeOK
  <2>3. events' \in [Conns -> SUBSET {"in", "out"}] /\ epoll' \in [Fds -> Registration]
    BY <1>2, <2>2, UpdateType DEF EnableWriting, TypeOK
  <2> QED BY <1>2, <2>1, <2>3 DEF TypeOK
<1> QED BY <1>1, <1>2 DEF Send

\* epoll_wait returns events of connections and of the listening socket.
LEMMA ReadyType == ASSUME TypeOK PROVE Ready \subseteq Event
<1>1. ASSUME NEW f \in Fds, epoll[f].ch # NoConn
      PROVE  [ch |-> epoll[f].ch, rev |-> Revents(f)] \in Event
  <2>1. epoll[f].ch \in Conns /\ epoll[f].mask \subseteq {"in", "out"}
    BY <1>1 DEF TypeOK, Registration
  <2>2. Revents(f) \subseteq {"in", "out", "err", "hup"}
    BY <2>1 DEF Revents
  <2> QED BY <2>1, <2>2 DEF Event
<1>2. [ch |-> Listener, rev |-> {"in"}] \in Event
  BY DEF Event
<1> QED BY <1>1, <1>2 DEF Ready

\* Every step of clients, loop and workers keeps the types.
LEMMA TypeStep == TypeInv /\ [Next]_vars => TypeInv'
<1> SUFFICES ASSUME TypeOK, CurIsConn, [Next]_vars PROVE TypeOK' /\ CurIsConn'
  BY DEF TypeInv
<1> USE DEF kernelVars, objectVars, threadVars
<1>1. ASSUME NEW x \in Conns, Connect(x) PROVE TypeOK' /\ CurIsConn'
  BY <1>1 DEF Connect, TypeOK, CurIsConn
<1>2. ASSUME NEW x \in Conns, Ask(x) PROVE TypeOK' /\ CurIsConn'
  <2>1. asked[x] + 1 \in 1 .. Len(Kind[x])
    BY <1>2, ServerAssumption, LenProperties DEF Ask, TypeOK
  <2>2. [conn |-> x, id |-> asked[x] + 1] \in Request
    BY <2>1 DEF Request, Asks
  <2>3. unread' \in [Conns -> Seq(Request)]
    BY <1>2, <2>2, AppendProperties DEF Ask, TypeOK
  <2>4. asked' \in [Conns -> Nat]
    BY <1>2 DEF Ask, TypeOK
  <2> QED BY <1>2, <2>3, <2>4 DEF Ask, TypeOK, CurIsConn
<1>3. ASSUME NEW x \in Conns, HangUp(x) PROVE TypeOK' /\ CurIsConn'
  <2>1. hung' \in [Conns -> {"no", "fin", "rst"}]
    BY <1>3 DEF HangUp, TypeOK
  <2> QED BY <1>3, <2>1 DEF HangUp, TypeOK, CurIsConn
<1>4. ASSUME Poll PROVE TypeOK' /\ CurIsConn'
  <2>1. ready' \subseteq Event /\ loopPc' = "dispatch"
    BY <1>4, ReadyType DEF Poll
  <2> QED BY <1>4, <2>1 DEF Poll, TypeOK, CurIsConn
<1>5. ASSUME NEW e \in ready, Accept(e) PROVE TypeOK' /\ CurIsConn'
  <2>1. ready' \subseteq Event
    BY <1>5 DEF Accept, AfterEvent, TypeOK
  <2>2. CASE UNCHANGED <<waiting, files, epoll, obj, fdOf, events, connections, channels>>
    BY <1>5, <2>1, <2>2 DEF Accept, TypeOK, CurIsConn
  <2>3. CASE \E x \in waiting, f \in Accepted :
               /\ waiting' = waiting \ {x}
               /\ files' = [files EXCEPT ![f] = x]
               /\ obj' = [obj EXCEPT ![x] = "alive"]
               /\ fdOf' = [fdOf EXCEPT ![x] = f]
               /\ connections' = connections \cup {x}
               /\ events' = [events EXCEPT ![x] = {"in"}]
               /\ channels' = channels \cup {f}
               /\ epoll' = UpdateChannel(f, x, {"in"})
    <3>1. PICK x \in waiting, f \in Accepted :
               /\ waiting' = waiting \ {x}
               /\ files' = [files EXCEPT ![f] = x]
               /\ obj' = [obj EXCEPT ![x] = "alive"]
               /\ fdOf' = [fdOf EXCEPT ![x] = f]
               /\ connections' = connections \cup {x}
               /\ events' = [events EXCEPT ![x] = {"in"}]
               /\ channels' = channels \cup {f}
               /\ epoll' = UpdateChannel(f, x, {"in"})
      BY <2>3
    <3>2. x \in Conns /\ f \in Fds
      BY DEF TypeOK, Accepted
    <3>3. epoll' \in [Fds -> Registration]
      BY <3>1, <3>2, UpdateType
    <3>4. /\ waiting' \subseteq Conns /\ connections' \subseteq Conns
          /\ channels' \subseteq Fds
          /\ files' \in [Fds -> Conns \cup {NoConn}]
          /\ fdOf' \in [Conns -> Fds \cup {NoFd}]
      BY <3>1, <3>2 DEF TypeOK
    <3>5. /\ obj' \in [Conns -> {"none", "alive", "removed", "freed"}]
          /\ events' \in [Conns -> SUBSET {"in", "out"}]
      BY <3>1, <3>2 DEF TypeOK
    <3> QED BY <1>5, <2>1, <3>3, <3>4, <3>5 DEF Accept, TypeOK, CurIsConn
  <2> QED BY <1>5, <2>2, <2>3 DEF Accept
<1>6. ASSUME NEW e \in ready, DispatchDead(e) PROVE TypeOK' /\ CurIsConn'
  BY <1>6 DEF DispatchDead, AfterEvent, AfterDeadAccess, TypeOK, CurIsConn
<1>7. ASSUME NEW e \in ready, DispatchError(e) PROVE TypeOK' /\ CurIsConn'
  <2>1. ReleaseInLoop /\ ready' \subseteq Event /\ connections' \subseteq Conns
    BY <1>7 DEF DispatchError, AfterEvent, WithoutClosed, TypeOK
  <2> QED BY <1>7, <2>1, ReleaseType DEF DispatchError, TypeOK, CurIsConn
<1>8. ASSUME NEW e \in ready, DispatchRead(e) PROVE TypeOK' /\ CurIsConn'
  <2>1. e \in Event /\ e.ch \in Conns /\ cur' = {e} /\ ready' \subseteq Event
    BY <1>8 DEF DispatchRead, AfterEvent, TypeOK, Event
  <2>4. inbuf' \in [Conns -> Seq(Request)] /\ unread' \in [Conns -> Seq(Request)]
    <3>1. CASE UNCHANGED <<inbuf, unread>>
      BY <3>1 DEF TypeOK
    <3>2. CASE ~UNCHANGED <<inbuf, unread>>
      <4>1. PICK n \in 1 .. Len(unread[e.ch]) :
              /\ inbuf' = [inbuf EXCEPT ![e.ch] = @ \o SubSeq(unread[e.ch], 1, n)]
              /\ unread' = [unread EXCEPT ![e.ch] = SubSeq(@, n + 1, Len(@))]
        BY <1>8, <3>2 DEF DispatchRead
      <4>2. /\ inbuf \in [Conns -> Seq(Request)] /\ unread \in [Conns -> Seq(Request)]
        BY DEF TypeOK
      <4> QED BY <2>1, <4>1, <4>2, ReadType
    <3> QED BY <3>1, <3>2
  <2>2. CASE ReleaseInLoop
    <3>1. connections' \subseteq Conns /\ loopPc' \in {"decode", "afterRead"}
      BY <1>8 DEF DispatchRead, WithoutClosed, TypeOK
    <3> QED BY <1>8, <2>1, <2>2, <2>4, <3>1, ReleaseType DEF DispatchRead, TypeOK, CurIsConn
  <2>3. CASE UNCHANGED <<connections, obj, events, files, epoll, channels>>
    <3>1. loopPc' \in {"decode", "afterRead"}
      BY <1>8 DEF DispatchRead
    <3> QED BY <1>8, <2>1, <2>3, <2>4, <3>1 DEF DispatchRead, TypeOK, CurIsConn
  <2> QED BY <1>8, <2>2, <2>3 DEF DispatchRead
<1>9. ASSUME NEW e \in cur, Decode(e) PROVE TypeOK' /\ CurIsConn'
  <2> DEFINE x == e.ch
             r == Head(inbuf[x])
  <2>1. x \in Conns /\ inbuf[x] \in Seq(Request) /\ inbuf[x] # <<>>
    BY <1>9 DEF Decode, TypeOK, CurIsConn
  <2>2. r \in Request /\ Tail(inbuf[x]) \in Seq(Request)
    BY <2>1, HeadTailProperties
  <2>3. inbuf' = [inbuf EXCEPT ![x] = Tail(inbuf[x])]
    BY <1>9 DEF Decode
  <2>4. \/ work' = work \cup {r} /\ UNCHANGED <<out, got, events, epoll>>
        \/ Send(x, r) /\ UNCHANGED work
    BY <1>9 DEF Decode
  <2>5. UNCHANGED <<waiting, files, asked, unread, hung, obj, fdOf, connections, channels,
                    loopPc, ready, cur, leftover, functors, batch, spent>>
    BY <1>9 DEF Decode
  <2> HIDE DEF x, r
  <2>6. inbuf' \in [Conns -> Seq(Request)]
    BY <2>1, <2>2, <2>3 DEF TypeOK
  <2>7. /\ out' \in [Conns -> Seq(Request)]
        /\ got' \in [Conns -> Seq(Request)]
        /\ events' \in [Conns -> SUBSET {"in", "out"}]
        /\ epoll' \in [Fds -> Registration]
        /\ work' \subseteq Request
    <3>1. CASE work' = work \cup {r} /\ UNCHANGED <<out, got, events, epoll>>
      BY <2>2, <3>1 DEF TypeOK
    <3>2. CASE Send(x, r) /\ UNCHANGED work
      <4>1. work' \subseteq Request
        BY <3>2 DEF TypeOK
      <4> QED BY <2>1, <2>2, <3>2, <4>1, SendType
    <3> QED BY <2>4, <3>1, <3>2
  <2> QED BY <2>5, <2>6, <2>7 DEF TypeOK, CurIsConn
<1>10. ASSUME NEW e \in cur, EndMessages(e) PROVE TypeOK' /\ CurIsConn'
  <2>1. ReleaseInLoop /\ loopPc' = "afterRead"
    BY <1>10 DEF EndMessages
  <2>2. inbuf' \in [Conns -> Seq(Request)]
    <3>1. inbuf' = [inbuf EXCEPT ![e.ch] = IF inbuf[e.ch] = <<>> THEN inbuf[e.ch] ELSE Tail(inbuf[e.ch])]
      BY <1>10 DEF EndMessages
    <3>2. e.ch \in Conns /\ inbuf[e.ch] \in Seq(Request)
      BY DEF TypeOK, CurIsConn
    <3>3. inbuf[e.ch] # <<>> => Tail(inbuf[e.ch]) \in Seq(Request)
      BY <3>2, HeadTailProperties
    <3> QED BY <3>1, <3>2, <3>3 DEF TypeOK
  <2> QED BY <1>10, <2>1, <2>2, ReleaseType DEF EndMessages, TypeOK, CurIsConn
<1>11. ASSUME NEW e \in cur, AfterRead(e) PROVE TypeOK' /\ CurIsConn'
  <2> DEFINE x == e.ch
  <2>1. x \in Conns /\ cur' = {} /\ loopPc' \in {"dispatch", "crashed"}
    BY <1>11 DEF AfterRead, AfterDeadAccess, CurIsConn
  <2>2. UNCHANGED <<waiting, files, asked, unread, hung, obj, fdOf, inbuf, connections,
                    channels, ready, work, leftover, functors, batch, spent>>
    BY <1>11 DEF AfterRead
  <2>3. CASE UNCHANGED <<got, out, events, epoll>>
    BY <2>1, <2>2, <2>3 DEF TypeOK, CurIsConn
  <2>4. CASE ~UNCHANGED <<got, out, events, epoll>>
    <3>1. PICK n \in 0 .. Len(out[x]) :
            /\ got' = Written(x, SubSeq(out[x], 1, n))
            /\ out' = [out EXCEPT ![x] = SubSeq(out[x], n + 1, Len(out[x]))]
            /\ \/ UNCHANGED <<events, epoll>>
               \/ /\ events' = [events EXCEPT ![x] = events[x] \ {"out"}]
                  /\ epoll' = UpdateChannel(fdOf[x], x, events[x] \ {"out"})
      BY <1>11, <2>4 DEF AfterRead
    <3>2. /\ SubSeq(out[x], 1, n) \in Seq(Request)
          /\ SubSeq(out[x], n + 1, Len(out[x])) \in Seq(Request)
      BY <2>1, SplitAt DEF TypeOK
    <3>3. out' \in [Conns -> Seq(Request)] /\ got' \in [Conns -> Seq(Request)]
      BY <2>1, <3>1, <3>2, WrittenType DEF TypeOK
    <3>4. events[x] \ {"out"} \in SUBSET {"in", "out"}
      BY <2>1 DEF TypeOK
    <3>5. UpdateChannel(fdOf[x], x, events[x] \ {"out"}) \in [Fds -> Registration]
      BY <2>1, <3>4, UpdateType
    <3>6. events' \in [Conns -> SUBSET {"in", "out"}] /\ epoll' \in [Fds -> Registration]
      <4>1. CASE UNCHANGED <<events, epoll>>
        BY <4>1 DEF TypeOK
      <4>2. CASE /\ events' = [events EXCEPT ![x] = events[x] \ {"out"}]
                 /\ epoll' = UpdateChannel(fdOf[x], x, events[x] \ {"out"})
        <5> HIDE DEF x
        <5>1. events \in [Conns -> SUBSET {"in", "out"}]
          BY DEF TypeOK
        <5>2. events' \in [Conns -> SUBSET {"in", "out"}]
          BY <2>1, <3>4, <4>2, <5>1
        <5> QED BY <3>5, <4>2, <5>2
      <4> QED BY <3>1, <4>1, <4>2
    <3> QED BY <2>1, <2>2, <3>3, <3>6 DEF TypeOK, CurIsConn
  <2> QED BY <2>3, <2>4
<1>12. ASSUME Swap PROVE TypeOK' /\ CurIsConn'
  BY <1>12, EmptySeq DEF Swap, AfterSwap, TypeOK, CurIsConn
<1>13. ASSUME RunFunctor PROVE TypeOK' /\ CurIsConn'
  <2> DEFINE r == Head(batch)
  <2>1. batch # <<>> /\ batch' = Tail(batch) /\ spent' = spent \cup {r} /\ Send(r.conn, r)
    BY <1>13 DEF RunFunctor
  <2>2. r \in Request /\ Tail(batch) \in Seq(Request)
    BY <2>1, HeadTailProperties DEF TypeOK
  <2>3. UNCHANGED <<waiting, files, asked, unread, hung, obj, fdOf, inbuf, connections,
                    channels, loopPc, ready, cur, work, leftover, functors>>
    BY <1>13 DEF RunFunctor
  <2> HIDE DEF r
  <2>4. r.conn \in Conns
    BY <2>2, RequestFields
  <2>5. /\ out' \in [Conns -> Seq(Request)]
        /\ got' \in [Conns -> Seq(Request)]
        /\ events' \in [Conns -> SUBSET {"in", "out"}]
        /\ epoll' \in [Fds -> Registration]
    BY <2>1, <2>2, <2>4, SendType
  <2> QED BY <2>1, <2>2, <2>3, <2>5 DEF TypeOK, CurIsConn
<1>14. ASSUME EndBatch PROVE TypeOK' /\ CurIsConn'
  <2>1. ReleaseInLoop
    BY <1>14 DEF EndBatch
  <2> QED BY <1>14, <2>1, ReleaseType DEF EndBatch, TypeOK, CurIsConn
<1>15. ASSUME NEW r \in Request, WorkerRun(r) PROVE TypeOK' /\ CurIsConn'
  <2>1. functors' \in Seq(Request)
    BY <1>15, AppendProperties DEF WorkerRun, TypeOK
  <2> QED BY <1>15, <2>1 DEF WorkerRun, TypeOK, CurIsConn
<1>16. ASSUME NEW r \in Request, WorkerDrop(r) PROVE TypeOK' /\ CurIsConn'
  <2>1. r.conn \in Conns
    BY RequestFields
  <2>2. \/ /\ obj' = [obj EXCEPT ![r.conn] = "removed"]
           /\ events' = [events EXCEPT ![r.conn] = {}]
           /\ epoll' = UpdateChannel(fdOf[r.conn], r.conn, {})
        \/ UNCHANGED <<obj, events, epoll>>
    BY <1>16, Zenon DEF WorkerDrop
  <2>3. UpdateChannel(fdOf[r.conn], r.conn, {}) \in [Fds -> Registration]
    BY <2>1, UpdateType
  <2>4. /\ obj' \in [Conns -> {"none", "alive", "removed", "freed"}]
        /\ events' \in [Conns -> SUBSET {"in", "out"}]
        /\ epoll' \in [Fds -> Registration]
    BY <2>1, <2>2, <2>3 DEF TypeOK
  <2>5. /\ leftover' = leftover \ {r}
        /\ UNCHANGED <<connections, loopPc, ready, cur, work, functors, batch, spent>>
        /\ UNCHANGED <<waiting, files, asked, unread, hung, got, fdOf, inbuf, out, channels>>
    BY <1>16, Zenon DEF WorkerDrop
  <2> QED BY <2>4, <2>5 DEF TypeOK, CurIsConn
<1>17. ASSUME NEW x \in Conns, WorkerClose(x) PROVE TypeOK' /\ CurIsConn'
  <2>1. NoReg \in Registration
    BY DEF NoReg, Registration
  <2>2. files' \in [Fds -> Conns \cup {NoConn}] /\ epoll' \in [Fds -> Registration]
    BY <1>17, <2>1 DEF WorkerClose, TypeOK
  <2> QED BY <1>17, <2>2 DEF WorkerClose, TypeOK, CurIsConn
<1>18. CASE UNCHANGED vars
  BY <1>18 DEF vars, TypeOK, CurIsConn
<1> QED BY <1>1, <1>2, <1>3, <1>4, <1>5, <1>6, <1>7, <1>8, <1>9, <1>10, <1>11, <1>12,
           <1>13, <1>14, <1>15, <1>16, <1>17, <1>18
        DEF Next, LoopStep, Client, Worker, Idle

\* Type correctness of the server, for any clients and descriptors.
THEOREM TypeCorrect == Spec => []TypeOK
<1>1. Init => TypeInv
  BY EmptySeq DEF Init, TypeInv, TypeOK, CurIsConn, NoReg, Registration
<1> QED BY <1>1, TypeStep, PTL DEF Spec, TypeInv
-----------------------------------------------------------------------------
(* A descriptor belongs to one connection for as long as its object exists, *)
(* and everything that holds a connection keeps its object alive.           *)

\* The descriptor of an object refers to the object's own connection.
OwnsDescriptor ==
  \A x \in Conns : obj[x] \in {"alive", "removed"} => fdOf[x] \in Fds /\ files[fdOf[x]] = x

\* A connection that somebody holds has not been destroyed.
HeldIsAlive == \A x \in Conns : Held(x) => obj[x] = "alive"

\* What is buffered for a client, or has reached it, is its own.
OwnStreams ==
  \A x \in Conns : /\ unread[x] \in Seq(Asks(x)) /\ inbuf[x] \in Seq(Asks(x))
                   /\ out[x] \in Seq(Asks(x)) /\ got[x] \in Seq(Asks(x))

DeliveryInv == OwnsDescriptor /\ HeldIsAlive /\ OwnStreams

\* Releasing references in the loop's thread takes no descriptor from a live object and
\* destroys nothing that is held.
LEMMA ReleaseKeeps ==
  ASSUME TypeOK, OwnsDescriptor, HeldIsAlive, ReleaseInLoop, UNCHANGED fdOf,
         \A x \in Conns : Held(x)' => obj[x] = "alive"
  PROVE  OwnsDescriptor' /\ HeldIsAlive'
<1> DEFINE gone == {x \in Conns : obj[x] = "alive" /\ ~Held(x)'}
<1>1. /\ obj' = [x \in Conns |-> IF x \in gone THEN "freed" ELSE obj[x]]
      /\ files' = [f \in Fds |-> IF files[f] \in gone THEN NoConn ELSE files[f]]
  BY Zenon DEF ReleaseInLoop
<1>2. \A x \in Conns : Held(x)' => x \notin gone /\ obj[x] = "alive"
  BY Zenon
<1>3. HeldIsAlive'
  <2> HIDE DEF gone
  <2>1. \A x \in Conns : Held(x)' => obj'[x] = "alive"
    BY <1>1, <1>2
  <2> QED BY <2>1, Zenon DEF HeldIsAlive
<1>4. OwnsDescriptor'
  <2> HIDE DEF gone
  <2> QED BY <1>1 DEF OwnsDescriptor
<1> QED BY <1>3, <1>4

\* A response sent on a live connection goes to its own client.
LEMMA SendStreams ==
  ASSUME TypeOK, OwnsDescriptor, OwnStreams, NEW x \in Conns, obj[x] = "alive",
         NEW r \in Asks(x), Send(x, r)
  PROVE  \A y \in Conns : out'[y] \in Seq(Asks(y)) /\ got'[y] \in Seq(Asks(y))
<1>1. CASE got' = Written(x, <<r>>) /\ UNCHANGED <<out, events, epoll>>
  <2>1. files[fdOf[x]] = x
    BY DEF OwnsDescriptor
  <2>2. got' = got \/ got' = [got EXCEPT ![x] = got[x] \o <<r>>]
    BY <1>1, <2>1 DEF Written
  <2>3. got[x] \in Seq(Asks(x)) /\ <<r>> \in Seq(Asks(x))
    BY DEF OwnStreams
  <2>4. got[x] \o <<r>> \in Seq(Asks(x))
    BY <2>3, ConcatProperties
  <2>5. got \in [Conns -> Seq(Request)]
    BY DEF TypeOK
  <2>6. \A y \in Conns : got'[y] \in Seq(Asks(y))
    BY <2>2, <2>4, <2>5 DEF OwnStreams
  <2> QED BY <1>1, <2>6 DEF OwnStreams
<1>2. CASE out' = [out EXCEPT ![x] = Append(@, r)] /\ UNCHANGED got
  <2>1. Append(out[x], r) \in Seq(Asks(x))
    BY AppendProperties DEF OwnStreams
  <2>2. out \in [Conns -> Seq(Request)]
    BY DEF TypeOK
  <2>3. \A y \in Conns : out'[y] \in Seq(Asks(y))
    BY <1>2, <2>1, <2>2 DEF OwnStreams
  <2> QED BY <1>2, <2>3 DEF OwnStreams
<1> QED BY <1>1, <1>2 DEF Send

\* A step of the loop's thread or of a client that destroys nothing and adds no reference
\* keeps the objects' invariants.
LEMMA ObjectsKept ==
  ASSUME OwnsDescriptor, HeldIsAlive, UNCHANGED <<obj, fdOf, files>>,
         \A x \in Conns : Held(x)' => obj[x] = "alive"
  PROVE  OwnsDescriptor' /\ HeldIsAlive'
<1>1. OwnsDescriptor'
  BY DEF OwnsDescriptor
<1>2. HeldIsAlive'
  BY Zenon DEF HeldIsAlive
<1> QED BY <1>1, <1>2

\* A step after which no more references exist than before adds no holder.
LEMMA NoNewHolder ==
  ASSUME HeldIsAlive, connections' \subseteq connections, Captured' \subseteq Captured,
         loopPc' = "decode" => loopPc = "decode" /\ cur' = cur
  PROVE  \A x \in Conns : Held(x)' => obj[x] = "alive"
<1> SUFFICES ASSUME NEW x \in Conns, Held(x)' PROVE Held(x)
  BY DEF HeldIsAlive
<1> QED BY DEF Held

\* A step that leaves tasks and functors alone leaves what they capture.
LEMMA SameCaptured ==
  ASSUME UNCHANGED <<work, leftover, functors, batch, spent>>
  PROVE  Captured' = Captured
BY DEF Captured

\* Every step keeps descriptors, objects and streams with their owners.
LEMMA DeliveryStep == TypeInv /\ DeliveryInv /\ [Next]_vars => DeliveryInv'
<1> SUFFICES ASSUME TypeOK, CurIsConn, OwnsDescriptor, HeldIsAlive, OwnStreams, [Next]_vars
             PROVE  OwnsDescriptor' /\ HeldIsAlive' /\ OwnStreams'
  BY DEF TypeInv, DeliveryInv
<1> USE DEF kernelVars, objectVars, threadVars
<1>a. ASSUME UNCHANGED <<unread, inbuf, out, got>> PROVE OwnStreams'
  BY <1>a DEF OwnStreams
<1>1. ASSUME NEW x \in Conns, Client(x) PROVE OwnsDescriptor' /\ HeldIsAlive' /\ OwnStreams'
  <2>1. UNCHANGED <<obj, fdOf, inbuf, out, connections, got, loopPc, cur>>
        /\ UNCHANGED <<files, work, leftover, functors, batch, spent>>
    BY <1>1 DEF Client, Connect, Ask, HangUp
  <2>2. OwnsDescriptor' /\ HeldIsAlive'
    <3>1. \A y \in Conns : Held(y)' => obj[y] = "alive"
      BY <2>1, SameCaptured, NoNewHolder
    <3> QED BY <2>1, <3>1, ObjectsKept
  <2>3. OwnStreams'
    <3>1. CASE UNCHANGED unread
      BY <2>1, <3>1, <1>a
    <3>2. CASE Ask(x)
      <4>1. asked[x] + 1 \in 1 .. Len(Kind[x])
        BY <3>2, ServerAssumption, LenProperties DEF Ask, TypeOK
      <4>2. [conn |-> x, id |-> asked[x] + 1] \in Asks(x)
        BY <4>1 DEF Asks
      <4>3. Append(unread[x], [conn |-> x, id |-> asked[x] + 1]) \in Seq(Asks(x))
        BY <4>2, AppendProperties DEF OwnStreams
      <4>4. unread' = [unread EXCEPT ![x] = Append(unread[x], [conn |-> x, id |-> asked[x] + 1])]
        BY <3>2 DEF Ask
      <4>5. unread \in [Conns -> Seq(Request)]
        BY DEF TypeOK
      <4>6. \A y \in Conns : unread'[y] \in Seq(Asks(y))
        BY <4>3, <4>4, <4>5 DEF OwnStreams
      <4> QED BY <2>1, <4>6 DEF OwnStreams
    <3> QED BY <1>1, <3>1, <3>2 DEF Client, Connect, HangUp
  <2> QED BY <2>2, <2>3
<1>2. ASSUME Poll \/ \E e \in ready : DispatchDead(e)
      PROVE  OwnsDescriptor' /\ HeldIsAlive' /\ OwnStreams'
  <2>1. /\ UNCHANGED <<obj, fdOf, inbuf, out, connections, got, unread, cur>>
        /\ UNCHANGED <<files, work, leftover, functors, batch, spent>>
        /\ loopPc' # "decode"
    BY <1>2 DEF Poll, DispatchDead, AfterDeadAccess
  <2>2. \A y \in Conns : Held(y)' => obj[y] = "alive"
    BY <2>1, SameCaptured, NoNewHolder
  <2> QED BY <2>1, <2>2, <1>a, ObjectsKept
<1>3. ASSUME NEW e \in ready, Accept(e)
      PROVE  OwnsDescriptor' /\ HeldIsAlive' /\ OwnStreams'
  <2>1. /\ UNCHANGED <<inbuf, out, got, unread, loopPc, cur>>
        /\ UNCHANGED <<work, leftover, functors, batch, spent>>
    BY <1>3 DEF Accept
  <2>2. CASE UNCHANGED <<files, obj, fdOf, connections>>
    <3>1. \A y \in Conns : Held(y)' => obj[y] = "alive"
      BY <2>1, <2>2, SameCaptured, NoNewHolder
    <3> QED BY <2>1, <2>2, <3>1, <1>a, ObjectsKept
  <2>3. CASE ~UNCHANGED <<files, obj, fdOf, connections>>
    <3>1. PICK x \in waiting, f \in Accepted :
            /\ files' = [files EXCEPT ![f] = x]
            /\ obj' = [obj EXCEPT ![x] = "alive"]
            /\ fdOf' = [fdOf EXCEPT ![x] = f]
            /\ connections' = connections \cup {x}
      BY <1>3, <2>3 DEF Accept
    <3>2. x \in Conns /\ f \in Fds /\ files[f] = NoConn
      BY DEF TypeOK, Accepted
    <3>3. OwnsDescriptor'
      <4> SUFFICES ASSUME NEW y \in Conns, obj'[y] \in {"alive", "removed"}
                   PROVE  fdOf'[y] \in Fds /\ files'[fdOf'[y]] = y
        BY DEF OwnsDescriptor
      <4>1. CASE y = x
        BY <3>1, <3>2, <4>1 DEF TypeOK
      <4>2. CASE y # x
        <5>1. fdOf[y] \in Fds /\ files[fdOf[y]] = y /\ fdOf'[y] = fdOf[y]
          BY <3>1, <3>2, <4>2 DEF TypeOK, OwnsDescriptor
        <5>2. fdOf[y] # f
          BY <3>2, <5>1, ServerAssumption
        <5> QED BY <3>1, <5>1, <5>2 DEF TypeOK
      <4> QED BY <4>1, <4>2
    <3>4. HeldIsAlive'
      <4>1. ASSUME NEW y \in Conns, Held(y)' PROVE y = x \/ Held(y)
        BY <2>1, <3>1, <4>1, SameCaptured DEF Held
      <4>2. \A y \in Conns : Held(y)' => obj'[y] = "alive"
        BY <3>1, <3>2, <4>1 DEF HeldIsAlive, TypeOK
      <4> QED BY <4>2, Zenon DEF HeldIsAlive
    <3> QED BY <2>1, <3>3, <3>4, <1>a
  <2> QED BY <2>2, <2>3
<1>4. ASSUME NEW e \in ready, DispatchError(e)
      PROVE  OwnsDescriptor' /\ HeldIsAlive' /\ OwnStreams'
  <2>1. /\ UNCHANGED <<inbuf, out, got, unread, fdOf, loopPc, cur>>
        /\ UNCHANGED <<work, leftover, functors, batch, spent>>
        /\ connections' \subseteq connections
        /\ ReleaseInLoop
    BY <1>4 DEF DispatchError, WithoutClosed
  <2>2. \A y \in Conns : Held(y)' => obj[y] = "alive"
    BY <2>1, SameCaptured, NoNewHolder
  <2> QED BY <2>1, <2>2, <1>a, ReleaseKeeps
<1>5. ASSUME NEW e \in ready, DispatchRead(e)
      PROVE  OwnsDescriptor' /\ HeldIsAlive' /\ OwnStreams'
  <2>1. /\ UNCHANGED <<out, got, fdOf, work, leftover, functors, batch, spent>>
        /\ e.ch \in Conns /\ obj[e.ch] = "alive" /\ cur' = {e}
        /\ connections' \subseteq connections
    BY <1>5 DEF DispatchRead, WithoutClosed, TypeOK, Event
  <2>2. \A y \in Conns : Held(y)' => obj[y] = "alive"
    <3>1. ASSUME NEW y \in Conns, Held(y)' PROVE y = e.ch \/ Held(y)
      BY <2>1, <3>1, SameCaptured DEF Held
    <3> QED BY <2>1, <3>1 DEF HeldIsAlive
  <2>3. OwnsDescriptor' /\ HeldIsAlive'
    <3>1. CASE ReleaseInLoop
      BY <2>1, <2>2, <3>1, ReleaseKeeps
    <3>2. CASE UNCHANGED <<obj, files>>
      BY <2>1, <2>2, <3>2, ObjectsKept
    <3> QED BY <1>5, <3>1, <3>2 DEF DispatchRead
  <2>4. OwnStreams'
    <3>1. CASE UNCHANGED <<inbuf, unread>>
      BY <2>1, <3>1, <1>a
    <3>2. CASE ~UNCHANGED <<inbuf, unread>>
      <4> DEFINE x == e.ch
      <4>1. PICK n \in 1 .. Len(unread[x]) :
              /\ inbuf' = [inbuf EXCEPT ![x] = inbuf[x] \o SubSeq(unread[x], 1, n)]
              /\ unread' = [unread EXCEPT ![x] = SubSeq(unread[x], n + 1, Len(unread[x]))]
        BY <1>5, <3>2 DEF DispatchRead
      <4>2. x \in Conns
        BY <2>1
      <4> HIDE DEF x
      <4>3. /\ inbuf[x] \in Seq(Asks(x)) /\ unread[x] \in Seq(Asks(x))
            /\ n \in 0 .. Len(unread[x])
        BY <4>2, LenProperties DEF OwnStreams
      <4>4. /\ SubSeq(unread[x], 1, n) \in Seq(Asks(x))
            /\ SubSeq(unread[x], n + 1, Len(unread[x])) \in Seq(Asks(x))
        BY <4>3, SplitAt
      <4>5. inbuf[x] \o SubSeq(unread[x], 1, n) \in Seq(Asks(x))
        BY <4>3, <4>4, ConcatProperties
      <4>6. /\ inbuf \in [Conns -> Seq(Request)] /\ unread \in [Conns -> Seq(Request)]
        BY DEF TypeOK
      <4>7. \A y \in Conns : inbuf'[y] \in Seq(Asks(y)) /\ unread'[y] \in Seq(Asks(y))
        BY <4>1, <4>2, <4>4, <4>5, <4>6 DEF OwnStreams
      <4> QED BY <2>1, <4>7 DEF OwnStreams
    <3> QED BY <3>1, <3>2
  <2> QED BY <2>3, <2>4
<1>6. ASSUME NEW e \in cur, Decode(e)
      PROVE  OwnsDescriptor' /\ HeldIsAlive' /\ OwnStreams'
  <2> DEFINE x == e.ch
             r == Head(inbuf[x])
  <2>1. /\ x \in Conns /\ inbuf[x] # <<>> /\ Held(x)
        /\ inbuf' = [inbuf EXCEPT ![x] = Tail(inbuf[x])]
    BY <1>6 DEF Decode, CurIsConn, Held
  <2>2. /\ UNCHANGED <<files, unread, obj, fdOf, connections, loopPc, cur>>
        /\ UNCHANGED <<leftover, functors, batch, spent>>
    BY <1>6 DEF Decode
  <2>3. \/ work' = work \cup {r} /\ UNCHANGED <<out, got>>
        \/ Send(x, r) /\ UNCHANGED work
    BY <1>6 DEF Decode
  <2> HIDE DEF x
  <2>4. inbuf[x] \in Seq(Asks(x))
    BY <2>1 DEF OwnStreams
  <2>5. r \in Asks(x) /\ Tail(inbuf[x]) \in Seq(Asks(x))
    BY <2>1, <2>4, HeadTail
  <2> HIDE DEF r
  <2>6. obj[x] = "alive" /\ r.conn = x
    BY <2>1, <2>5, AsksFields DEF HeldIsAlive
  <2>7. OwnsDescriptor' /\ HeldIsAlive'
    <3>1. Captured' \subseteq Captured \cup {x}
      BY <2>2, <2>3, <2>6 DEF Captured
    <3>2. ASSUME NEW y \in Conns, Held(y)' PROVE y = x \/ Held(y)
      BY <2>2, <3>1, <3>2 DEF Held
    <3>3. \A y \in Conns : Held(y)' => obj[y] = "alive"
      BY <2>6, <3>2 DEF HeldIsAlive
    <3> QED BY <2>2, <3>3, ObjectsKept
  <2>8. \A y \in Conns : inbuf'[y] \in Seq(Asks(y))
    <3>1. inbuf \in [Conns -> Seq(Request)]
      BY DEF TypeOK
    <3> QED BY <2>1, <2>5, <3>1 DEF OwnStreams
  <2>9. \A y \in Conns : out'[y] \in Seq(Asks(y)) /\ got'[y] \in Seq(Asks(y))
    <3>1. CASE UNCHANGED <<out, got>>
      BY <3>1 DEF OwnStreams
    <3>2. CASE Send(x, r)
      BY <2>1, <2>5, <2>6, <3>2, SendStreams
    <3> QED BY <2>3, <3>1, <3>2
  <2> QED BY <2>2, <2>7, <2>8, <2>9 DEF OwnStreams
<1>7. ASSUME NEW e \in cur, EndMessages(e)
      PROVE  OwnsDescriptor' /\ HeldIsAlive' /\ OwnStreams'
  <2> DEFINE x == e.ch
  <2>1. /\ UNCHANGED <<out, got, unread, fdOf, connections, cur>>
        /\ UNCHANGED <<work, leftover, functors, batch, spent>>
        /\ loopPc' = "afterRead" /\ x \in Conns
        /\ ReleaseInLoop
    BY <1>7 DEF EndMessages, CurIsConn
  <2>2. inbuf' = [inbuf EXCEPT ![x] = IF inbuf[x] = <<>> THEN inbuf[x] ELSE Tail(inbuf[x])]
    BY <1>7 DEF EndMessages
  <2> HIDE DEF x
  <2>3. \A y \in Conns : Held(y)' => obj[y] = "alive"
    BY <2>1, SameCaptured, NoNewHolder
  <2>4. OwnsDescriptor' /\ HeldIsAlive'
    BY <2>1, <2>3, ReleaseKeeps
  <2>5. inbuf[x] \in Seq(Asks(x)) /\ inbuf \in [Conns -> Seq(Request)]
    BY <2>1 DEF OwnStreams, TypeOK
  <2>6. inbuf[x] # <<>> => Tail(inbuf[x]) \in Seq(Asks(x))
    BY <2>5, HeadTail
  <2>7. \A y \in Conns : inbuf'[y] \in Seq(Asks(y))
    BY <2>2, <2>5, <2>6 DEF OwnStreams
  <2> QED BY <2>1, <2>4, <2>7 DEF OwnStreams
<1>8. ASSUME NEW e \in cur, AfterRead(e)
      PROVE  OwnsDescriptor' /\ HeldIsAlive' /\ OwnStreams'
  <2> DEFINE x == e.ch
  <2>1. /\ UNCHANGED <<files, unread, obj, fdOf, inbuf, connections>>
        /\ UNCHANGED <<work, leftover, functors, batch, spent>>
        /\ loopPc' # "decode" /\ x \in Conns
    BY <1>8 DEF AfterRead, AfterDeadAccess, CurIsConn
  <2>2. \A y \in Conns : Held(y)' => obj[y] = "alive"
    BY <2>1, SameCaptured, NoNewHolder
  <2>3. OwnsDescriptor' /\ HeldIsAlive'
    BY <2>1, <2>2, ObjectsKept
  <2>4. OwnStreams'
    <3>1. CASE UNCHANGED <<got, out>>
      BY <2>1, <3>1, <1>a
    <3>2. CASE ~UNCHANGED <<got, out>>
      <4>1. PICK n \in 0 .. Len(out[x]) :
              /\ got' = Written(x, SubSeq(out[x], 1, n))
              /\ out' = [out EXCEPT ![x] = SubSeq(out[x], n + 1, Len(out[x]))]
        BY <1>8, <3>2 DEF AfterRead
      <4>2. obj[x] = "alive"
        BY <1>8, <3>2 DEF AfterRead
      <4> HIDE DEF x
      <4>3. /\ out[x] \in Seq(Asks(x)) /\ got[x] \in Seq(Asks(x))
            /\ out \in [Conns -> Seq(Request)] /\ got \in [Conns -> Seq(Request)]
        BY <2>1 DEF OwnStreams, TypeOK
      <4>4. /\ SubSeq(out[x], 1, n) \in Seq(Asks(x))
            /\ SubSeq(out[x], n + 1, Len(out[x])) \in Seq(Asks(x))
        BY <4>3, SplitAt
      <4>5. got[x] \o SubSeq(out[x], 1, n) \in Seq(Asks(x))
        BY <4>3, <4>4, ConcatProperties
      <4>6. files[fdOf[x]] = x
        BY <2>1, <4>2 DEF OwnsDescriptor
      <4>7. got' = got \/ got' = [got EXCEPT ![x] = got[x] \o SubSeq(out[x], 1, n)]
        BY <4>1, <4>6 DEF Written
      <4>8. \A y \in Conns : got'[y] \in Seq(Asks(y))
        BY <4>3, <4>5, <4>7 DEF OwnStreams
      <4>9. \A y \in Conns : out'[y] \in Seq(Asks(y))
        BY <4>1, <4>3, <4>4 DEF OwnStreams
      <4> QED BY <2>1, <4>8, <4>9 DEF OwnStreams
    <3> QED BY <3>1, <3>2
  <2> QED BY <2>3, <2>4
<1>9. ASSUME Swap PROVE OwnsDescriptor' /\ HeldIsAlive' /\ OwnStreams'
  <2>1. /\ UNCHANGED <<files, unread, obj, fdOf, inbuf, out, got, connections>>
        /\ UNCHANGED <<work, leftover, spent>>
        /\ loopPc' # "decode" /\ batch' = functors /\ functors' = <<>>
    BY <1>9 DEF Swap, AfterSwap
  <2>2. Range(<<>>) = {}
    BY DEF Range
  <2>3. Captured' \subseteq Captured
    BY <2>1, <2>2 DEF Captured
  <2>4. \A y \in Conns : Held(y)' => obj[y] = "alive"
    BY <2>1, <2>3, NoNewHolder
  <2> QED BY <2>1, <2>4, <1>a, ObjectsKept
<1>10. ASSUME RunFunctor PROVE OwnsDescriptor' /\ HeldIsAlive' /\ OwnStreams'
  <2> DEFINE r == Head(batch)
             x == r.conn
  <2>1. /\ UNCHANGED <<files, unread, obj, fdOf, inbuf, connections, loopPc, cur>>
        /\ UNCHANGED <<work, leftover, functors>>
        /\ batch # <<>> /\ batch' = Tail(batch) /\ spent' = spent \cup {r}
        /\ Send(x, r)
    BY <1>10 DEF RunFunctor
  <2>2. r \in Request /\ r \in Range(batch) /\ Range(Tail(batch)) \subseteq Range(batch)
    BY <2>1, HeadTail DEF TypeOK
  <2> HIDE DEF r
  <2>3. x \in Conns /\ r \in Asks(x)
    BY <2>2, RequestFields
  <2>4. x \in Captured
    BY <2>2 DEF Captured
  <2> HIDE DEF x
  <2>5. obj[x] = "alive"
    BY <2>3, <2>4 DEF HeldIsAlive, Held
  <2>6. Captured' \subseteq Captured
    BY <2>1, <2>2 DEF Captured
  <2>7. \A y \in Conns : Held(y)' => obj[y] = "alive"
    BY <2>1, <2>6, NoNewHolder
  <2>8. OwnsDescriptor' /\ HeldIsAlive'
    BY <2>1, <2>7, ObjectsKept
  <2>9. \A y \in Conns : out'[y] \in Seq(Asks(y)) /\ got'[y] \in Seq(Asks(y))
    BY <2>1, <2>3, <2>5, SendStreams
  <2> QED BY <2>1, <2>8, <2>9 DEF OwnStreams
<1>11. ASSUME EndBatch PROVE OwnsDescriptor' /\ HeldIsAlive' /\ OwnStreams'
  <2>1. /\ UNCHANGED <<inbuf, out, got, unread, fdOf, connections, cur>>
        /\ UNCHANGED <<work, leftover, functors, batch>>
        /\ spent' = {} /\ loopPc' # "decode" /\ ReleaseInLoop
    BY <1>11 DEF EndBatch
  <2>2. Captured' \subseteq Captured
    BY <2>1 DEF Captured
  <2>3. \A y \in Conns : Held(y)' => obj[y] = "alive"
    BY <2>1, <2>2, NoNewHolder
  <2> QED BY <2>1, <2>3, <1>a, ReleaseKeeps
<1>12. ASSUME NEW r \in Request, WorkerRun(r)
       PROVE  OwnsDescriptor' /\ HeldIsAlive' /\ OwnStreams'
  <2>1. /\ UNCHANGED <<files, unread, obj, fdOf, inbuf, out, got, connections, loopPc, cur>>
        /\ UNCHANGED <<batch, spent>>
        /\ r \in work /\ work' = work \ {r} /\ leftover' = leftover \cup {r}
        /\ functors' = Append(functors, r)
    BY <1>12 DEF WorkerRun
  <2>2. Range(functors') = Range(functors) \cup {r}
    BY <2>1, RangeAppend DEF TypeOK
  <2>3. Captured' \subseteq Captured
    BY <2>1, <2>2 DEF Captured
  <2>4. \A y \in Conns : Held(y)' => obj[y] = "alive"
    BY <2>1, <2>3, NoNewHolder
  <2> QED BY <2>1, <2>4, <1>a, ObjectsKept
<1>13. ASSUME NEW r \in Request, WorkerDrop(r)
       PROVE  OwnsDescriptor' /\ HeldIsAlive' /\ OwnStreams'
  <2>1. /\ UNCHANGED <<files, unread, fdOf, inbuf, out, got, connections, loopPc, cur>>
        /\ UNCHANGED <<work, functors, batch, spent>>
        /\ leftover' = leftover \ {r}
    BY <1>13, Zenon DEF WorkerDrop
  <2>2. \/ obj' = [obj EXCEPT ![r.conn] = "removed"] /\ ~Held(r.conn)' /\ obj[r.conn] = "alive"
        \/ UNCHANGED obj
    BY <1>13, Zenon DEF WorkerDrop
  <2>3. Captured' \subseteq Captured
    BY <2>1 DEF Captured
  <2>4. \A y \in Conns : Held(y)' => obj[y] = "alive"
    BY <2>1, <2>3, NoNewHolder
  <2>5. CASE UNCHANGED obj
    BY <2>1, <2>4, <2>5, <1>a, ObjectsKept
  <2>6. CASE /\ obj' = [obj EXCEPT ![r.conn] = "removed"]
             /\ ~Held(r.conn)' /\ obj[r.conn] = "alive"
    <3>1. r.conn \in Conns
      BY RequestFields
    <3>2. OwnsDescriptor'
      BY <2>1, <2>6, <3>1 DEF OwnsDescriptor, TypeOK
    <3>3. \A y \in Conns : y # r.conn => obj'[y] = obj[y]
      BY <2>6, <3>1 DEF TypeOK
    <3>4. ASSUME NEW y \in Conns, Held(y)' PROVE obj'[y] = "alive"
      <4>1. CASE y = r.conn
        BY <2>6, <3>4, <4>1, Zenon
      <4>2. CASE y # r.conn
        BY <2>4, <3>3, <3>4, <4>2, Zenon
      <4> QED BY <4>1, <4>2
    <3>5. HeldIsAlive'
      BY <3>4, Zenon DEF HeldIsAlive
    <3> QED BY <2>1, <3>2, <3>5, <1>a
  <2> QED BY <2>2, <2>5, <2>6
<1>14. ASSUME NEW x \in Conns, WorkerClose(x)
       PROVE  OwnsDescriptor' /\ HeldIsAlive' /\ OwnStreams'
  <2>1. /\ UNCHANGED <<unread, fdOf, inbuf, out, got, connections, loopPc, cur>>
        /\ UNCHANGED <<work, leftover, functors, batch, spent>>
        /\ obj[x] = "removed"
        /\ obj' = [obj EXCEPT ![x] = "freed"]
        /\ files' = [files EXCEPT ![fdOf[x]] = NoConn]
    BY <1>14 DEF WorkerClose
  <2>2. \A y \in Conns : Held(y)' => obj[y] = "alive"
    BY <2>1, SameCaptured, NoNewHolder
  <2>3. \A y \in Conns : y # x => obj'[y] = obj[y]
    BY <2>1 DEF TypeOK
  <2>4. ASSUME NEW y \in Conns, Held(y)' PROVE obj'[y] = "alive"
    <3>1. obj[y] = "alive" /\ y # x
      BY <2>1, <2>2, <2>4
    <3> QED BY <2>3, <3>1
  <2>5. HeldIsAlive'
    BY <2>4, Zenon DEF HeldIsAlive
  <2>6. OwnsDescriptor'
    <3> SUFFICES ASSUME NEW y \in Conns, obj'[y] \in {"alive", "removed"}
                 PROVE  fdOf'[y] \in Fds /\ files'[fdOf'[y]] = y
      BY DEF OwnsDescriptor
    <3>1. y # x
      BY <2>1 DEF TypeOK
    <3>2. /\ fdOf[y] \in Fds /\ files[fdOf[y]] = y
          /\ fdOf[x] \in Fds /\ files[fdOf[x]] = x
      BY <2>1, <2>3, <3>1 DEF OwnsDescriptor
    <3> QED BY <2>1, <3>1, <3>2 DEF TypeOK
  <2> QED BY <2>1, <2>5, <2>6, <1>a
<1>15. CASE UNCHANGED vars
  <2>1. /\ UNCHANGED <<files, unread, obj, fdOf, inbuf, out, got, connections, loopPc, cur>>
        /\ UNCHANGED <<work, leftover, functors, batch, spent>>
    BY <1>15 DEF vars
  <2>2. \A y \in Conns : Held(y)' => obj[y] = "alive"
    BY <2>1, SameCaptured, NoNewHolder
  <2> QED BY <2>1, <2>2, <1>a, ObjectsKept
<1> QED BY <1>1, <1>2, <1>3, <1>4, <1>5, <1>6, <1>7, <1>8, <1>9, <1>10, <1>11, <1>12,
           <1>13, <1>14, <1>15 DEF Next, LoopStep, Worker, Idle

\* At the start there is no object and nothing is buffered.
LEMMA InitInv == Init => TypeInv /\ DeliveryInv
<1> SUFFICES ASSUME Init PROVE TypeInv /\ DeliveryInv
  OBVIOUS
<1>1. TypeInv
  BY EmptySeq DEF Init, TypeInv, TypeOK, CurIsConn, NoReg, Registration
<1>2. OwnsDescriptor
  BY DEF Init, OwnsDescriptor
<1>3. Range(<<>>) = {}
  BY DEF Range
<1>4. \A x \in Conns : ~Held(x)
  BY <1>3 DEF Init, Held, Captured
<1>5. OwnStreams
  BY EmptySeq DEF Init, OwnStreams
<1> QED BY <1>1, <1>2, <1>4, <1>5 DEF DeliveryInv, HeldIsAlive

\* TypeInv and DeliveryInv hold throughout.
LEMMA DeliveryInvariant == Spec => [](TypeInv /\ DeliveryInv)
BY InitInv, TypeStep, DeliveryStep, PTL DEF Spec

\* ResponseReachesItsClient, for any number of clients, requests and descriptors: a
\* response is only ever written to the client whose request it answers.
THEOREM ResponsesAreNotMisdelivered == Spec => []ResponseReachesItsClient
<1>1. DeliveryInv => ResponseReachesItsClient
  <2> SUFFICES ASSUME OwnStreams, NEW x \in Conns, NEW r \in Range(got[x]) PROVE r.conn = x
    BY DEF DeliveryInv, ResponseReachesItsClient
  <2>1. got[x] \in Seq(Asks(x))
    BY DEF OwnStreams
  <2>2. r \in Asks(x)
    BY <2>1, RangeSeq
  <2> QED BY <2>2, AsksFields
<1> QED BY <1>1, DeliveryInvariant, PTL
-----------------------------------------------------------------------------
(* What epoll holds.                                                       *)

\* An open descriptor is the one of the object it refers to.
DescriptorsBack ==
  \A f \in Fds : files[f] # NoConn =>
    fdOf[files[f]] = f /\ obj[files[f]] \in {"alive", "removed"}

\* A connection in the backlog has no object yet.
WaitingIsNew == \A x \in waiting : obj[x] = "none"

RegistrationInv == DescriptorsBack /\ WaitingIsNew /\ RegistrationIsCurrent

\* updateChannel touches the registration of one descriptor.
LEMMA UpdateChanges ==
  ASSUME TypeOK, NEW f \in Fds, NEW x \in Conns, NEW m, NEW g \in Fds
  PROVE  \/ UpdateChannel(f, x, m)[g] = epoll[g] /\ (g = f => epoll[g].ch = NoConn)
         \/ g = f /\ UpdateChannel(f, x, m)[g] = [ch |-> x, mask |-> m]
BY DEF TypeOK, UpdateChannel

\* Destroying an object in the loop's thread closes every descriptor it had, and with it
\* the registration.
LEMMA ReleaseRegistration ==
  ASSUME TypeOK, RegistrationInv, ReleaseInLoop, UNCHANGED <<fdOf, waiting>>
  PROVE  RegistrationInv'
<1> DEFINE gone == {x \in Conns : obj[x] = "alive" /\ ~Held(x)'}
<1>1. /\ obj' = [x \in Conns |-> IF x \in gone THEN "freed" ELSE obj[x]]
      /\ events' = [x \in Conns |-> IF x \in gone THEN {} ELSE events[x]]
      /\ files' = [f \in Fds |-> IF files[f] \in gone THEN NoConn ELSE files[f]]
      /\ epoll' = [f \in Fds |-> IF files[f] \in gone THEN NoReg ELSE epoll[f]]
  BY Zenon DEF ReleaseInLoop
<1>2. \A x \in gone : obj[x] = "alive"
  BY Zenon
<1> HIDE DEF gone
<1>3. NoReg.ch = NoConn
  BY DEF NoReg
<1>4. DescriptorsBack'
  BY <1>1 DEF RegistrationInv, DescriptorsBack, TypeOK
<1>5. WaitingIsNew'
  BY <1>1, <1>2 DEF RegistrationInv, WaitingIsNew, TypeOK
<1>6. RegistrationIsCurrent'
  <2> SUFFICES ASSUME NEW f \in Fds, epoll'[f].ch # NoConn
               PROVE  /\ files'[f] = epoll'[f].ch
                      /\ obj'[files'[f]] \in {"alive", "removed"}
                      /\ epoll'[f].mask = events'[files'[f]]
                      /\ obj'[files'[f]] = "removed" => events'[files'[f]] = {}
    BY DEF RegistrationIsCurrent
  <2>1. files[f] \notin gone /\ epoll'[f] = epoll[f] /\ files'[f] = files[f]
    BY <1>1, <1>3
  <2>2. /\ files[f] = epoll[f].ch
        /\ obj[files[f]] \in {"alive", "removed"}
        /\ epoll[f].mask = events[files[f]]
        /\ obj[files[f]] = "removed" => events[files[f]] = {}
    BY <2>1 DEF RegistrationInv, RegistrationIsCurrent
  <2>3. files[f] \in Conns
    BY <2>1, <2>2 DEF TypeOK, Registration
  <2>4. obj'[files[f]] = obj[files[f]] /\ events'[files[f]] = events[files[f]]
    BY <1>1, <2>1, <2>3
  <2> QED BY <2>1, <2>2, <2>4
<1> QED BY <1>4, <1>5, <1>6 DEF RegistrationInv

\* Every step keeps descriptors, registrations and objects together.
LEMMA RegistrationStep ==
  TypeInv /\ DeliveryInv /\ RegistrationInv /\ [Next]_vars => RegistrationInv'
<1> SUFFICES ASSUME TypeOK, CurIsConn, OwnsDescriptor, HeldIsAlive, OwnStreams,
                    RegistrationInv, [Next]_vars
             PROVE  RegistrationInv'
  BY DEF TypeInv, DeliveryInv
<1> USE DEF kernelVars, objectVars, threadVars
\* The registration of g is kept, with the events of its Channel, or is that of the live
\* object that has g.
<1> DEFINE Kept(g) ==
             \/ epoll'[g] = epoll[g] /\ (epoll[g].ch # NoConn => events'[files[g]] = events[files[g]])
             \/ /\ obj[files[g]] = "alive"
                /\ epoll'[g].ch = files[g]
                /\ epoll'[g].mask = events'[files[g]]
\* Steps that neither open nor close a descriptor.
<1>k. ASSUME UNCHANGED <<files, obj, fdOf>>, \A x \in waiting' : x \in waiting \/ obj[x] = "none",
             \A g \in Fds : Kept(g)
      PROVE  RegistrationInv'
  <2>1. DescriptorsBack'
    BY <1>k DEF RegistrationInv, DescriptorsBack
  <2>2. WaitingIsNew'
    BY <1>k DEF RegistrationInv, WaitingIsNew
  <2>3. RegistrationIsCurrent'
    BY <1>k DEF RegistrationInv, RegistrationIsCurrent
  <2> QED BY <2>1, <2>2, <2>3 DEF RegistrationInv
\* updateChannel for the Channel of an object that has its descriptor.
<1>u. ASSUME NEW x \in Conns, obj[x] = "alive", NEW m, epoll' = UpdateChannel(fdOf[x], x, m),
             events' = [events EXCEPT ![x] = m], NEW g \in Fds
      PROVE  Kept(g)
  <2>1. fdOf[x] \in Fds /\ files[fdOf[x]] = x
    BY <1>u DEF OwnsDescriptor
  <2>2. events'[x] = m /\ \A y \in Conns : y # x => events'[y] = events[y]
    BY <1>u DEF TypeOK
  <2>3. CASE g = fdOf[x] /\ epoll'[g] = [ch |-> x, mask |-> m]
    BY <1>u, <2>1, <2>2, <2>3
  <2>4. CASE epoll'[g] = epoll[g] /\ epoll[g].ch = NoConn
    BY <2>4
  <2>5. CASE g # fdOf[x] /\ epoll'[g] = epoll[g] /\ epoll[g].ch # NoConn
    <3>1. files[g] \in Conns /\ files[g] # NoConn
      BY <2>5 DEF RegistrationInv, RegistrationIsCurrent, TypeOK, Registration
    <3>2. files[g] # x
      BY <2>5, <3>1 DEF RegistrationInv, DescriptorsBack
    <3> QED BY <2>2, <2>5, <3>1, <3>2
  <2> QED BY <1>u, <2>1, <2>3, <2>4, <2>5, UpdateChanges
<1>s. ASSUME NEW x \in Conns, obj[x] = "alive", NEW r, Send(x, r), NEW g \in Fds
      PROVE  Kept(g)
  <2>1. CASE UNCHANGED <<events, epoll>>
    BY <2>1
  <2>2. CASE EnableWriting(x)
    <3>1. events' = [events EXCEPT ![x] = events[x] \cup {"out"}]
      BY <2>2 DEF EnableWriting
    <3> QED BY <1>s, <1>u, <2>2, <3>1 DEF EnableWriting
  <2> QED BY <1>s, <2>1, <2>2 DEF Send
<1>e. ASSUME UNCHANGED <<events, epoll>> PROVE \A g \in Fds : Kept(g)
  BY <1>e
<1> HIDE DEF Kept
<1>1. ASSUME NEW x \in Conns, Client(x) PROVE RegistrationInv'
  BY <1>1, <1>k, <1>e DEF Client, Connect, Ask, HangUp
<1>2. ASSUME \/ Poll \/ Swap \/ \E e \in ready : DispatchDead(e)
             \/ \E r \in Request : WorkerRun(r)
      PROVE  RegistrationInv'
  <2>1. UNCHANGED <<files, obj, fdOf, waiting, events, epoll>>
    BY <1>2 DEF Poll, Swap, DispatchDead, WorkerRun
  <2> QED BY <1>k, <1>e, <2>1
<1>3. ASSUME NEW e \in ready, Accept(e) PROVE RegistrationInv'
  <2>1. CASE UNCHANGED <<waiting, files, epoll, obj, fdOf, events>>
    BY <1>k, <1>e, <2>1
  <2>2. CASE ~UNCHANGED <<waiting, files, epoll, obj, fdOf, events>>
    <3>1. PICK x \in waiting, f \in Accepted :
            /\ waiting' = waiting \ {x}
            /\ files' = [files EXCEPT ![f] = x]
            /\ obj' = [obj EXCEPT ![x] = "alive"]
            /\ fdOf' = [fdOf EXCEPT ![x] = f]
            /\ events' = [events EXCEPT ![x] = {"in"}]
            /\ epoll' = UpdateChannel(f, x, {"in"})
      BY <1>3, <2>2 DEF Accept
    <3>2. /\ x \in Conns /\ f \in Fds /\ files[f] = NoConn /\ obj[x] = "none"
          /\ x # NoConn
      BY ServerAssumption DEF TypeOK, Accepted, RegistrationInv, WaitingIsNew
    <3>3. \A g \in Fds : g # f => files'[g] = files[g] /\ files[g] # x
      BY <3>1, <3>2 DEF TypeOK, RegistrationInv, DescriptorsBack
    <3>4. /\ files'[f] = x /\ fdOf'[x] = f /\ obj'[x] = "alive" /\ events'[x] = {"in"}
          /\ \A y \in Conns : y # x =>
               fdOf'[y] = fdOf[y] /\ obj'[y] = obj[y] /\ events'[y] = events[y]
      BY <3>1, <3>2 DEF TypeOK
    <3>5. DescriptorsBack'
      <4> SUFFICES ASSUME NEW g \in Fds, files'[g] # NoConn
                   PROVE  fdOf'[files'[g]] = g /\ obj'[files'[g]] \in {"alive", "removed"}
        BY DEF DescriptorsBack
      <4>1. CASE g = f
        BY <3>4, <4>1
      <4>2. CASE g # f
        <5>1. files'[g] = files[g] /\ files[g] # x
          BY <3>3, <4>2
        <5>2. files[g] \in Conns
          BY <5>1 DEF TypeOK
        <5>3. fdOf[files[g]] = g /\ obj[files[g]] \in {"alive", "removed"}
          BY <5>1 DEF RegistrationInv, DescriptorsBack
        <5> QED BY <3>4, <5>1, <5>2, <5>3
      <4> QED BY <4>1, <4>2
    <3>6. WaitingIsNew'
      BY <3>1, <3>4 DEF RegistrationInv, WaitingIsNew, TypeOK
    <3>7. RegistrationIsCurrent'
      <4> SUFFICES ASSUME NEW g \in Fds, epoll'[g].ch # NoConn
                   PROVE  /\ files'[g] = epoll'[g].ch
                          /\ obj'[files'[g]] \in {"alive", "removed"}
                          /\ epoll'[g].mask = events'[files'[g]]
                          /\ obj'[files'[g]] = "removed" => events'[files'[g]] = {}
        BY DEF RegistrationIsCurrent
      <4>1. CASE g = f /\ epoll'[g] = [ch |-> x, mask |-> {"in"}]
        BY <3>4, <4>1
      <4>2. CASE epoll'[g] = epoll[g]
        <5>1. /\ files[g] = epoll[g].ch
              /\ obj[files[g]] \in {"alive", "removed"}
              /\ epoll[g].mask = events[files[g]]
              /\ obj[files[g]] = "removed" => events[files[g]] = {}
          BY <4>2 DEF RegistrationInv, RegistrationIsCurrent
        <5>2. g # f /\ files[g] \in Conns
          BY <3>2, <4>2, <5>1 DEF TypeOK, Registration
        <5> QED BY <3>3, <3>4, <4>2, <5>1, <5>2
      <4>3. \/ UpdateChannel(f, x, {"in"})[g] = epoll[g]
            \/ g = f /\ UpdateChannel(f, x, {"in"})[g] = [ch |-> x, mask |-> {"in"}]
        BY <3>2 DEF TypeOK, UpdateChannel
      <4>4. epoll' = UpdateChannel(f, x, {"in"})
        BY <3>1, Zenon
      <4> QED BY <4>1, <4>2, <4>3, <4>4, Zenon
    <3> QED BY <3>5, <3>6, <3>7 DEF RegistrationInv
  <2> QED BY <2>1, <2>2
<1>4. ASSUME NEW e \in ready, DispatchError(e) PROVE RegistrationInv'
  BY <1>4, ReleaseRegistration DEF DispatchError
<1>5. ASSUME NEW e \in ready, DispatchRead(e) PROVE RegistrationInv'
  <2>1. UNCHANGED <<fdOf, waiting>>
    BY <1>5 DEF DispatchRead
  <2>2. CASE ReleaseInLoop
    BY <2>1, <2>2, ReleaseRegistration
  <2>3. CASE UNCHANGED <<obj, files, events, epoll>>
    BY <1>k, <1>e, <2>1, <2>3
  <2> QED BY <1>5, <2>2, <2>3 DEF DispatchRead
<1>6. ASSUME NEW e \in cur, Decode(e) PROVE RegistrationInv'
  <2> DEFINE x == e.ch
             r == Head(inbuf[x])
  <2>1. x \in Conns /\ obj[x] = "alive" /\ UNCHANGED <<files, obj, fdOf, waiting>>
    BY <1>6 DEF Decode, CurIsConn, Held, HeldIsAlive
  <2>2. UNCHANGED <<events, epoll>> \/ Send(x, r)
    BY <1>6 DEF Decode
  <2> HIDE DEF x, r
  <2>3. ASSUME NEW g \in Fds
        PROVE  Kept(g)
    BY <1>s, <1>e, <2>1, <2>2
  <2> QED BY <1>k, <2>1, <2>3
<1>7. ASSUME NEW e \in cur, EndMessages(e) PROVE RegistrationInv'
  BY <1>7, ReleaseRegistration DEF EndMessages
<1>8. ASSUME NEW e \in cur, AfterRead(e) PROVE RegistrationInv'
  <2> DEFINE x == e.ch
  <2>1. x \in Conns /\ UNCHANGED <<files, obj, fdOf, waiting>>
    BY <1>8 DEF AfterRead, CurIsConn
  <2>2. \/ UNCHANGED <<events, epoll>>
        \/ /\ obj[x] = "alive" /\ epoll' = UpdateChannel(fdOf[x], x, events[x] \ {"out"})
           /\ events' = [events EXCEPT ![x] = events[x] \ {"out"}]
    BY <1>8 DEF AfterRead
  <2> HIDE DEF x
  <2>3. ASSUME NEW g \in Fds
        PROVE  Kept(g)
    BY <1>u, <1>e, <2>1, <2>2
  <2> QED BY <1>k, <2>1, <2>3
<1>9. ASSUME RunFunctor PROVE RegistrationInv'
  <2> DEFINE r == Head(batch)
             x == r.conn
  <2>1. batch # <<>> /\ Send(x, r) /\ UNCHANGED <<files, obj, fdOf, waiting>>
    BY <1>9 DEF RunFunctor
  <2>2. r \in Request /\ r \in Range(batch)
    BY <2>1, HeadTail DEF TypeOK
  <2>3. x \in Conns /\ x \in Captured
    BY <2>2, RequestFields DEF Captured
  <2> HIDE DEF r, x
  <2>4. obj[x] = "alive"
    BY <2>3 DEF HeldIsAlive, Held
  <2>5. ASSUME NEW g \in Fds
        PROVE  Kept(g)
    BY <1>s, <2>1, <2>3, <2>4
  <2> QED BY <1>k, <2>1, <2>5
<1>10. ASSUME EndBatch PROVE RegistrationInv'
  BY <1>10, ReleaseRegistration DEF EndBatch
<1>11. ASSUME NEW r \in Request, WorkerDrop(r) PROVE RegistrationInv'
  <2> DEFINE x == r.conn
  <2>1. UNCHANGED <<files, fdOf, waiting>>
    BY <1>11, Zenon DEF WorkerDrop
  <2>2. \/ /\ obj[x] = "alive" /\ obj' = [obj EXCEPT ![x] = "removed"]
           /\ events' = [events EXCEPT ![x] = {}]
           /\ epoll' = UpdateChannel(fdOf[x], x, {})
        \/ UNCHANGED <<obj, events, epoll>>
    BY <1>11, Zenon DEF WorkerDrop
  <2>3. x \in Conns
    BY RequestFields
  <2> HIDE DEF x
  <2>4. CASE UNCHANGED <<obj, events, epoll>>
    BY <1>k, <1>e, <2>1, <2>4
  <2>5. CASE /\ obj[x] = "alive" /\ obj' = [obj EXCEPT ![x] = "removed"]
             /\ events' = [events EXCEPT ![x] = {}]
             /\ epoll' = UpdateChannel(fdOf[x], x, {})
    <3>1. obj'[x] = "removed" /\ events'[x] = {} /\ \A y \in Conns : y # x => obj'[y] = obj[y]
      BY <2>3, <2>5 DEF TypeOK
    <3>2. DescriptorsBack'
      <4> SUFFICES ASSUME NEW g \in Fds, files'[g] # NoConn
                   PROVE  fdOf'[files'[g]] = g /\ obj'[files'[g]] \in {"alive", "removed"}
        BY DEF DescriptorsBack
      <4>1. files'[g] = files[g] /\ files[g] \in Conns
        BY <2>1 DEF TypeOK
      <4>2. fdOf[files[g]] = g /\ obj[files[g]] \in {"alive", "removed"}
        BY <4>1 DEF RegistrationInv, DescriptorsBack
      <4> QED BY <2>1, <3>1, <4>1, <4>2
    <3>3. WaitingIsNew'
      BY <2>1, <2>5, <3>1 DEF RegistrationInv, WaitingIsNew, TypeOK
    <3>4. RegistrationIsCurrent'
      <4> SUFFICES ASSUME NEW g \in Fds, epoll'[g].ch # NoConn
                   PROVE  /\ files[g] = epoll'[g].ch
                          /\ obj'[files[g]] \in {"alive", "removed"}
                          /\ epoll'[g].mask = events'[files[g]]
                          /\ obj'[files[g]] = "removed" => events'[files[g]] = {}
        BY <2>1 DEF RegistrationIsCurrent
      <4>1. Kept(g)
        BY <1>u, <2>3, <2>5
      <4>2. epoll[g].ch # NoConn =>
              /\ files[g] = epoll[g].ch
              /\ obj[files[g]] \in {"alive", "removed"}
              /\ epoll[g].mask = events[files[g]]
              /\ obj[files[g]] = "removed" => events[files[g]] = {}
        BY DEF RegistrationInv, RegistrationIsCurrent
      <4>3. files[g] = epoll'[g].ch /\ epoll'[g].mask = events'[files[g]]
        BY <4>1, <4>2 DEF Kept
      <4>4. files[g] \in Conns
        BY <4>3 DEF TypeOK
      <4>5. CASE files[g] = x
        BY <3>1, <4>3, <4>5
      <4>6. CASE files[g] # x
        <5>1. obj'[files[g]] = obj[files[g]]
          BY <3>1, <4>4, <4>6
        <5> QED BY <4>1, <4>2, <4>3, <5>1 DEF Kept
      <4> QED BY <4>5, <4>6
    <3> QED BY <3>2, <3>3, <3>4 DEF RegistrationInv
  <2> QED BY <2>2, <2>4, <2>5
<1>12. ASSUME NEW x \in Conns, WorkerClose(x) PROVE RegistrationInv'
  <2>1. /\ UNCHANGED <<fdOf, waiting, events>> /\ obj[x] = "removed"
        /\ obj' = [obj EXCEPT ![x] = "freed"]
        /\ files' = [files EXCEPT ![fdOf[x]] = NoConn]
        /\ epoll' = [epoll EXCEPT ![fdOf[x]] = NoReg]
    BY <1>12 DEF WorkerClose
  <2>2. /\ fdOf[x] \in Fds /\ files[fdOf[x]] = x
        /\ \A g \in Fds : g # fdOf[x] => files[g] # x
    BY <2>1, ServerAssumption DEF OwnsDescriptor, RegistrationInv, DescriptorsBack
  <2>3. /\ files'[fdOf[x]] = NoConn /\ epoll'[fdOf[x]] = NoReg /\ obj'[x] = "freed"
        /\ \A g \in Fds : g # fdOf[x] => files'[g] = files[g] /\ epoll'[g] = epoll[g]
        /\ \A y \in Conns : y # x => obj'[y] = obj[y]
    BY <2>1, <2>2 DEF TypeOK
  <2>4. NoReg.ch = NoConn
    BY DEF NoReg
  <2>5. DescriptorsBack'
    BY <2>1, <2>2, <2>3 DEF RegistrationInv, DescriptorsBack, TypeOK
  <2>6. WaitingIsNew'
    BY <2>1, <2>3 DEF RegistrationInv, WaitingIsNew, TypeOK
  <2>7. RegistrationIsCurrent'
    <3> SUFFICES ASSUME NEW g \in Fds, epoll'[g].ch # NoConn
                 PROVE  /\ files'[g] = epoll'[g].ch
                        /\ obj'[files'[g]] \in {"alive", "removed"}
                        /\ epoll'[g].mask = events'[files'[g]]
                        /\ obj'[files'[g]] = "removed" => events'[files'[g]] = {}
      BY DEF RegistrationIsCurrent
    <3>1. g # fdOf[x] /\ epoll'[g] = epoll[g] /\ files'[g] = files[g]
      BY <2>3, <2>4
    <3>2. /\ files[g] = epoll[g].ch
          /\ obj[files[g]] \in {"alive", "removed"}
          /\ epoll[g].mask = events[files[g]]
          /\ obj[files[g]] = "removed" => events[files[g]] = {}
      BY <3>1 DEF RegistrationInv, RegistrationIsCurrent
    <3>3. files[g] # x /\ files[g] \in Conns
      BY <2>2, <3>1, <3>2 DEF TypeOK
    <3> QED BY <2>1, <2>3, <3>1, <3>2, <3>3
  <2> QED BY <2>5, <2>6, <2>7 DEF RegistrationInv
<1>13. CASE UNCHANGED vars
  BY <1>13, <1>k, <1>e DEF vars
<1> QED BY <1>1, <1>2, <1>3, <1>4, <1>5, <1>6, <1>7, <1>8, <1>9, <1>10, <1>11, <1>12,
           <1>13 DEF Next, LoopStep, Worker, Idle

\* RegistrationInv holds throughout.
LEMMA RegistrationInvariant == Spec => []RegistrationInv
<1>1. Init => RegistrationInv
  <2> SUFFICES ASSUME Init PROVE RegistrationInv
    OBVIOUS
  <2>1. NoReg.ch = NoConn
    BY DEF NoReg
  <2> QED BY <2>1 DEF Init, RegistrationInv, DescriptorsBack, WaitingIsNew,
                      RegistrationIsCurrent
<1> QED BY <1>1, RegistrationStep, DeliveryInvariant, PTL DEF Spec

\* RegistrationIsCurrent, for any number of clients and descriptors: whichever thread
\* destroys a connection, epoll keeps no registration past the close of its descriptor, and
\* only an empty one between ~Channel and that close.
THEOREM RegistrationsFollowDescriptors == Spec => []RegistrationIsCurrent
BY RegistrationInvariant, PTL DEF RegistrationInv
-----------------------------------------------------------------------------
(* The events of one epoll_wait.                                           *)

\* An object that has not been destroyed is held by somebody.
AliveIsHeld == \A x \in Conns : obj[x] = "alive" => Held(x)

\* What the loop's thread has in hand where it stands.
Phases ==
  /\ loopPc # "run" => batch = <<>>
  /\ loopPc \in {"run", "poll"} => ready = {}
  /\ loopPc \notin {"decode", "afterRead"} => cur = {}

\* epoll_wait reports a Channel once, and the event being handled has been taken.
OneEventPerChannel ==
  /\ \A e1, e2 \in ready : e1.ch = e2.ch => e1 = e2
  /\ \A e1 \in cur, e2 \in ready : e1.ch # e2.ch

DispatchInv == AliveIsHeld /\ Phases /\ OneEventPerChannel

\* epoll_wait reports a Channel once: a Channel is registered for its own descriptor only.
LEMMA ReadyOnce ==
  ASSUME TypeOK, RegistrationInv, NEW e1 \in Ready, NEW e2 \in Ready, e1.ch = e2.ch
  PROVE  e1 = e2
<1> DEFINE lis == [ch |-> Listener, rev |-> {"in"}]
           of(f) == [ch |-> epoll[f].ch, rev |-> Revents(f)]
<1>1. ASSUME NEW e \in Ready
      PROVE  e = lis \/ \E f \in Fds : epoll[f].ch # NoConn /\ e = of(f)
  BY Zenon DEF Ready
<1>2. ASSUME NEW f \in Fds, epoll[f].ch # NoConn
      PROVE  of(f).ch \in Conns /\ fdOf[of(f).ch] = f
  <2>1. files[f] = epoll[f].ch /\ epoll[f].ch \in Conns
    BY <1>2 DEF RegistrationInv, RegistrationIsCurrent, TypeOK, Registration
  <2>2. fdOf[epoll[f].ch] = f
    BY <1>2, <2>1 DEF RegistrationInv, DescriptorsBack
  <2> QED BY <2>1, <2>2
<1>3. lis.ch \notin Conns
  BY ServerAssumption
<1> HIDE DEF lis, of
<1> QED BY <1>1, <1>2, <1>3

\* A step that drops no reference keeps every live object held.
LEMMA StillHeld ==
  ASSUME AliveIsHeld, UNCHANGED obj, connections \subseteq connections',
         Captured \subseteq Captured',
         loopPc = "decode" => loopPc' = "decode" /\ cur' = cur
  PROVE  AliveIsHeld'
<1> SUFFICES ASSUME NEW x \in Conns, obj[x] = "alive" PROVE Held(x)'
  BY Zenon DEF AliveIsHeld
<1>1. Held(x)
  BY DEF AliveIsHeld
<1> QED BY <1>1 DEF Held

\* After a release in the loop's thread no live object is left that nobody holds.
LEMMA ReleaseHeld ==
  ASSUME TypeOK, ReleaseInLoop
  PROVE  AliveIsHeld'
<1> DEFINE gone == {x \in Conns : obj[x] = "alive" /\ ~Held(x)'}
<1>1. obj' = [x \in Conns |-> IF x \in gone THEN "freed" ELSE obj[x]]
  BY Zenon DEF ReleaseInLoop
<1>2. \A x \in Conns : x \notin gone => obj[x] # "alive" \/ Held(x)'
  BY Zenon
<1> HIDE DEF gone
<1>3. \A x \in Conns : obj'[x] = "alive" => x \notin gone /\ obj[x] = "alive"
  BY <1>1
<1>4. \A x \in Conns : obj'[x] = "alive" => Held(x)'
  BY <1>2, <1>3, Zenon
<1> QED BY <1>4, Zenon DEF AliveIsHeld

\* A queue holds its head and what is behind it.
LEMMA HeadAndRest ==
  ASSUME NEW S, NEW s \in Seq(S), s # <<>>
  PROVE  Range(s) \subseteq {Head(s)} \cup Range(Tail(s))
<1>1. /\ Head(s) = s[1] /\ Len(s) \in Nat \ {0} /\ DOMAIN s = 1 .. Len(s)
      /\ DOMAIN Tail(s) = 1 .. Len(s) - 1
      /\ \A i \in 1 .. Len(s) - 1 : Tail(s)[i] = s[i + 1]
  BY HeadTailProperties, LenProperties, EmptySeq
<1>2. ASSUME NEW i \in 1 .. Len(s), i # 1 PROVE s[i] \in Range(Tail(s))
  <2>1. i - 1 \in 1 .. Len(s) - 1 /\ Tail(s)[i - 1] = s[i]
    BY <1>1, <1>2
  <2> QED BY <1>1, <2>1 DEF Range
<1> QED BY <1>1, <1>2 DEF Range

\* Every step keeps what is known of the events and of the loop's place.
LEMMA DispatchStep ==
  TypeInv /\ DeliveryInv /\ RegistrationInv /\ DispatchInv /\ [Next]_vars => DispatchInv'
<1> SUFFICES ASSUME TypeOK, CurIsConn, OwnsDescriptor, HeldIsAlive, RegistrationInv,
                    AliveIsHeld, Phases, OneEventPerChannel, [Next]_vars
             PROVE  AliveIsHeld' /\ Phases' /\ OneEventPerChannel'
  BY DEF TypeInv, DeliveryInv, DispatchInv
<1> USE DEF kernelVars, objectVars, threadVars
\* Steps that take no new event.
<1>e. ASSUME ready' \subseteq ready, cur' \subseteq cur PROVE OneEventPerChannel'
  BY <1>e DEF OneEventPerChannel
<1>1. ASSUME \/ \E x \in Conns : Client(x)
             \/ UNCHANGED vars
      PROVE  AliveIsHeld' /\ Phases' /\ OneEventPerChannel'
  <2>1. /\ UNCHANGED <<obj, connections, loopPc, ready, cur>>
        /\ UNCHANGED <<work, leftover, functors, batch, spent>>
    BY <1>1 DEF Client, Connect, Ask, HangUp, vars
  <2>2. AliveIsHeld'
    BY <2>1, SameCaptured, StillHeld
  <2>3. Phases'
    BY <2>1 DEF Phases
  <2> QED BY <1>e, <2>1, <2>2, <2>3
<1>2. ASSUME Poll PROVE AliveIsHeld' /\ Phases' /\ OneEventPerChannel'
  <2>1. /\ UNCHANGED <<obj, connections, work, leftover, functors, batch, spent, cur>>
        /\ loopPc = "poll" /\ loopPc' = "dispatch" /\ ready' = Ready
    BY <1>2 DEF Poll
  <2>2. AliveIsHeld'
    BY <2>1, SameCaptured, StillHeld
  <2>3. Phases' /\ cur' = {}
    BY <2>1 DEF Phases
  <2>4. OneEventPerChannel'
    BY <2>1, <2>3, ReadyOnce DEF OneEventPerChannel
  <2> QED BY <2>2, <2>3, <2>4
<1>3. ASSUME NEW e \in ready, Accept(e)
      PROVE  AliveIsHeld' /\ Phases' /\ OneEventPerChannel'
  <2>1. /\ UNCHANGED <<loopPc, cur>> /\ UNCHANGED <<work, leftover, functors, batch, spent>>
        /\ loopPc = "dispatch" /\ ready' \subseteq ready
    BY <1>3 DEF Accept, AfterEvent
  <2>2. AliveIsHeld'
    <3>1. CASE UNCHANGED <<obj, connections>>
      BY <2>1, <3>1, SameCaptured, StillHeld
    <3>2. CASE ~UNCHANGED <<obj, connections>>
      <4>1. PICK x \in waiting : /\ obj' = [obj EXCEPT ![x] = "alive"]
                                 /\ connections' = connections \cup {x}
        BY <1>3, <3>2 DEF Accept
      <4>2. ASSUME NEW y \in Conns, obj'[y] = "alive" PROVE Held(y)'
        <5>1. CASE y = x
          BY <4>1, <5>1 DEF Held
        <5>2. CASE y # x
          <6>1. obj[y] = "alive"
            BY <4>1, <4>2, <5>2 DEF TypeOK
          <6>2. Held(y)
            BY <6>1 DEF AliveIsHeld
          <6> QED BY <2>1, <4>1, <6>2, SameCaptured DEF Held
        <5> QED BY <5>1, <5>2
      <4> QED BY <4>2, Zenon DEF AliveIsHeld
    <3> QED BY <3>1, <3>2
  <2>3. Phases'
    BY <2>1 DEF Phases
  <2> QED BY <1>e, <2>1, <2>2, <2>3
<1>4. ASSUME NEW e \in ready, DispatchDead(e)
      PROVE  AliveIsHeld' /\ Phases' /\ OneEventPerChannel'
  <2>1. /\ UNCHANGED <<obj, connections, work, leftover, functors, batch, spent, cur>>
        /\ loopPc = "dispatch" /\ ready' \subseteq ready /\ loopPc' \in {"dispatch", "crashed"}
    BY <1>4 DEF DispatchDead, AfterEvent, AfterDeadAccess
  <2>2. AliveIsHeld'
    BY <2>1, SameCaptured, StillHeld
  <2>3. Phases'
    BY <2>1 DEF Phases
  <2> QED BY <1>e, <2>1, <2>2, <2>3
<1>5. ASSUME NEW e \in ready, DispatchError(e)
      PROVE  AliveIsHeld' /\ Phases' /\ OneEventPerChannel'
  <2>1. /\ ReleaseInLoop /\ UNCHANGED <<loopPc, cur, batch>>
        /\ loopPc = "dispatch" /\ ready' \subseteq ready
    BY <1>5 DEF DispatchError, AfterEvent
  <2>2. AliveIsHeld'
    BY <2>1, ReleaseHeld
  <2>3. Phases'
    BY <2>1 DEF Phases
  <2> QED BY <1>e, <2>1, <2>2, <2>3
<1>6. ASSUME NEW e \in ready, DispatchRead(e)
      PROVE  AliveIsHeld' /\ Phases' /\ OneEventPerChannel'
  <2>1. /\ UNCHANGED <<work, leftover, functors, batch, spent>>
        /\ loopPc = "dispatch" /\ ready' = ready \ {e} /\ cur' = {e}
        /\ loopPc' \in {"decode", "afterRead"}
    BY <1>6 DEF DispatchRead, AfterEvent
  <2>2. AliveIsHeld'
    <3>1. CASE ReleaseInLoop
      BY <3>1, ReleaseHeld
    <3>2. CASE UNCHANGED <<obj, connections>>
      BY <2>1, <3>2, SameCaptured, StillHeld
    <3> QED BY <1>6, <3>1, <3>2 DEF DispatchRead
  <2>3. Phases'
    BY <2>1 DEF Phases
  <2>4. OneEventPerChannel'
    BY <2>1 DEF OneEventPerChannel
  <2> QED BY <2>2, <2>3, <2>4
<1>7. ASSUME NEW e \in cur, Decode(e)
      PROVE  AliveIsHeld' /\ Phases' /\ OneEventPerChannel'
  <2>1. /\ UNCHANGED <<obj, connections, loopPc, ready, cur, leftover, functors, batch, spent>>
        /\ work \subseteq work'
    BY <1>7 DEF Decode
  <2>2. Captured \subseteq Captured'
    BY <2>1 DEF Captured
  <2>3. AliveIsHeld'
    BY <2>1, <2>2, StillHeld
  <2>4. Phases'
    BY <2>1 DEF Phases
  <2> QED BY <1>e, <2>1, <2>3, <2>4
<1>8. ASSUME NEW e \in cur, EndMessages(e)
      PROVE  AliveIsHeld' /\ Phases' /\ OneEventPerChannel'
  <2>1. /\ ReleaseInLoop /\ UNCHANGED <<cur, batch, ready>>
        /\ loopPc = "decode" /\ loopPc' = "afterRead"
    BY <1>8 DEF EndMessages
  <2>2. AliveIsHeld'
    BY <2>1, ReleaseHeld
  <2>3. Phases'
    BY <2>1 DEF Phases
  <2> QED BY <1>e, <2>1, <2>2, <2>3
<1>9. ASSUME NEW e \in cur, AfterRead(e)
      PROVE  AliveIsHeld' /\ Phases' /\ OneEventPerChannel'
  <2>1. /\ UNCHANGED <<obj, connections, ready, work, leftover, functors, batch, spent>>
        /\ cur' = {} /\ loopPc = "afterRead" /\ loopPc' \in {"dispatch", "crashed"}
    BY <1>9 DEF AfterRead, AfterDeadAccess
  <2>2. AliveIsHeld'
    BY <2>1, SameCaptured, StillHeld
  <2>3. Phases'
    BY <2>1 DEF Phases
  <2> QED BY <1>e, <2>1, <2>2, <2>3
<1>10. ASSUME Swap PROVE AliveIsHeld' /\ Phases' /\ OneEventPerChannel'
  <2>1. /\ UNCHANGED <<obj, connections, ready, cur, work, leftover, spent>>
        /\ loopPc = "dispatch" /\ loopPc' = "run" /\ ready = {} /\ batch' = functors
    BY <1>10 DEF Swap
  <2>2. Range(batch) = {}
    BY <2>1, EmptyRange DEF Phases
  <2>3. Captured \subseteq Captured'
    BY <2>1, <2>2 DEF Captured
  <2>4. AliveIsHeld'
    BY <2>1, <2>3, StillHeld
  <2>5. Phases'
    BY <2>1 DEF Phases
  <2> QED BY <1>e, <2>1, <2>4, <2>5
<1>11. ASSUME RunFunctor PROVE AliveIsHeld' /\ Phases' /\ OneEventPerChannel'
  <2>1. /\ UNCHANGED <<obj, connections, ready, cur, loopPc, work, leftover, functors>>
        /\ loopPc = "run" /\ batch # <<>> /\ batch' = Tail(batch)
        /\ spent' = spent \cup {Head(batch)}
    BY <1>11 DEF RunFunctor
  <2>2. Range(batch) \subseteq {Head(batch)} \cup Range(Tail(batch))
    BY <2>1, HeadAndRest DEF TypeOK
  <2>3. Captured \subseteq Captured'
    BY <2>1, <2>2 DEF Captured
  <2>4. AliveIsHeld'
    BY <2>1, <2>3, StillHeld
  <2>5. Phases'
    BY <2>1 DEF Phases
  <2> QED BY <1>e, <2>1, <2>4, <2>5
<1>12. ASSUME EndBatch PROVE AliveIsHeld' /\ Phases' /\ OneEventPerChannel'
  <2>1. /\ ReleaseInLoop /\ UNCHANGED <<cur, batch, ready>>
        /\ loopPc = "run" /\ loopPc' = "poll" /\ batch = <<>>
    BY <1>12 DEF EndBatch
  <2>2. AliveIsHeld'
    BY <2>1, ReleaseHeld
  <2>3. Phases'
    BY <2>1 DEF Phases
  <2> QED BY <1>e, <2>1, <2>2, <2>3
<1>13. ASSUME NEW r \in Request, WorkerRun(r)
       PROVE  AliveIsHeld' /\ Phases' /\ OneEventPerChannel'
  <2>1. /\ UNCHANGED <<obj, connections, loopPc, ready, cur, batch, spent>>
        /\ work' = work \ {r} /\ leftover' = leftover \cup {r} /\ functors' = Append(functors, r)
    BY <1>13 DEF WorkerRun
  <2>2. Range(functors') = Range(functors) \cup {r}
    BY <2>1, RangeAppend DEF TypeOK
  <2>3. Captured \subseteq Captured'
    BY <2>1, <2>2 DEF Captured
  <2>4. AliveIsHeld'
    BY <2>1, <2>3, StillHeld
  <2>5. Phases'
    BY <2>1 DEF Phases
  <2> QED BY <1>e, <2>1, <2>4, <2>5
<1>14. ASSUME NEW r \in Request, WorkerDrop(r)
       PROVE  AliveIsHeld' /\ Phases' /\ OneEventPerChannel'
  <2> DEFINE x == r.conn
  <2>1. /\ leftover' = leftover \ {r}
        /\ UNCHANGED <<connections, loopPc, ready, cur, work, functors, batch, spent>>
    BY <1>14, Zenon DEF WorkerDrop
  <2>2. \/ obj[x] = "alive" /\ ~Held(x)' /\ obj' = [obj EXCEPT ![x] = "removed"]
        \/ ~(obj[x] = "alive" /\ ~Held(x)') /\ UNCHANGED obj
    BY <1>14, Zenon DEF WorkerDrop
  <2>3. x \in Conns
    BY RequestFields
  <2>4. ASSUME NEW y \in Conns, y # x, Held(y) PROVE Held(y)'
    <3>1. y \in Captured => y \in Captured'
      BY <2>1, <2>4 DEF Captured
    <3> QED BY <2>1, <2>4, <3>1 DEF Held
  <2> HIDE DEF x
  <2>5. ASSUME NEW y \in Conns, obj'[y] = "alive" PROVE obj[y] = "alive" /\ (y = x => Held(x)')
    <3>1. CASE obj' = [obj EXCEPT ![x] = "removed"]
      BY <2>3, <2>5, <3>1 DEF TypeOK
    <3>2. CASE UNCHANGED obj /\ ~(obj[x] = "alive" /\ ~Held(x)')
      BY <2>5, <3>2, Zenon
    <3> QED BY <2>2, <3>1, <3>2, Zenon
  <2>6. ASSUME NEW y \in Conns, obj'[y] = "alive" PROVE Held(y)'
    <3>1. CASE y = x
      BY <2>5, <2>6, <3>1, Zenon
    <3>2. CASE y # x
      BY <2>4, <2>5, <2>6, <3>2, Zenon DEF AliveIsHeld
    <3> QED BY <3>1, <3>2
  <2>7. AliveIsHeld'
    BY <2>6, Zenon DEF AliveIsHeld
  <2>8. Phases'
    BY <2>1 DEF Phases
  <2> QED BY <1>e, <2>1, <2>7, <2>8
<1>15. ASSUME NEW x \in Conns, WorkerClose(x)
       PROVE  AliveIsHeld' /\ Phases' /\ OneEventPerChannel'
  <2>1. /\ UNCHANGED <<connections, loopPc, ready, cur>>
        /\ UNCHANGED <<work, leftover, functors, batch, spent>>
        /\ obj' = [obj EXCEPT ![x] = "freed"]
    BY <1>15 DEF WorkerClose
  <2>2. ASSUME NEW y \in Conns, obj'[y] = "alive" PROVE Held(y)'
    <3>1. obj[y] = "alive"
      BY <2>1, <2>2 DEF TypeOK
    <3>2. Held(y)
      BY <3>1 DEF AliveIsHeld
    <3> QED BY <2>1, <3>2, SameCaptured DEF Held
  <2>3. AliveIsHeld'
    BY <2>2, Zenon DEF AliveIsHeld
  <2>4. Phases'
    BY <2>1 DEF Phases
  <2> QED BY <1>e, <2>1, <2>3, <2>4
<1> QED BY <1>1, <1>2, <1>3, <1>4, <1>5, <1>6, <1>7, <1>8, <1>9, <1>10, <1>11, <1>12,
           <1>13, <1>14, <1>15 DEF Next, LoopStep, Worker, Idle

\* DispatchInv holds throughout.
LEMMA DispatchInvariant == Spec => []DispatchInv
<1>1. Init => DispatchInv
  BY DEF Init, DispatchInv, AliveIsHeld, Phases, OneEventPerChannel
<1> QED BY <1>1, DispatchStep, DeliveryInvariant, RegistrationInvariant, PTL DEF Spec

\* What a release in the loop's thread destroys was alive and has no holder left.
LEMMA ReleasedWasLetGo ==
  ASSUME ReleaseInLoop, NEW x \in Conns, obj[x] = "alive", obj'[x] = "freed"
  PROVE  ~Held(x)'
<1> DEFINE gone == {y \in Conns : obj[y] = "alive" /\ ~Held(y)'}
<1>1. obj' = [y \in Conns |-> IF y \in gone THEN "freed" ELSE obj[y]]
  BY Zenon DEF ReleaseInLoop
<1>2. x \in gone => ~Held(x)'
  BY Zenon
<1> HIDE DEF gone
<1>3. x \in gone
  BY <1>1
<1> QED BY <1>2, <1>3, Zenon

\* The destruction of a connection in a step of the loop's thread leaves no event for its
\* Channel.
LEMMA NoDanglingStep ==
  ASSUME TypeOK, DispatchInv, [Next]_vars,
         NEW x \in Conns, obj[x] = "alive", obj'[x] = "freed"
  PROVE  \A e \in ready' : e.ch # x
<1> USE DEF kernelVars, objectVars, threadVars
<1>1. Held(x)
  BY DEF DispatchInv, AliveIsHeld
<1>2. ASSUME NEW e \in ready, DispatchError(e) \/ DispatchRead(e)
      PROVE  \A d \in ready' : d.ch # x
  <2>1. /\ loopPc = "dispatch" /\ ready' = ready \ {e}
        /\ UNCHANGED <<work, leftover, functors, batch, spent>>
    BY <1>2 DEF DispatchError, DispatchRead, AfterEvent
  <2>2. ReleaseInLoop /\ connections' = connections \ {e.ch}
    BY <1>2 DEF DispatchError, DispatchRead, WithoutClosed
  <2>3. ~Held(x)'
    BY <2>2, ReleasedWasLetGo
  <2>4. x \in connections /\ x \notin connections'
    BY <1>1, <2>1, <2>3, SameCaptured DEF Held
  <2>5. x = e.ch
    BY <2>2, <2>4
  <2> QED BY <2>1, <2>5 DEF DispatchInv, OneEventPerChannel
<1>3. ASSUME NEW e \in cur, EndMessages(e) PROVE \A d \in ready' : d.ch # x
  <2>1. /\ UNCHANGED <<connections, ready, cur>> /\ ReleaseInLoop
        /\ UNCHANGED <<work, leftover, functors, batch, spent>>
    BY <1>3 DEF EndMessages
  <2>2. ~Held(x)'
    BY <2>1, ReleasedWasLetGo
  <2>3. \E d \in cur : d.ch = x
    BY <1>1, <2>1, <2>2, SameCaptured DEF Held
  <2> QED BY <2>1, <2>3 DEF DispatchInv, OneEventPerChannel
<1>4. ASSUME EndBatch PROVE \A d \in ready' : d.ch # x
  BY <1>4 DEF EndBatch, DispatchInv, Phases
\* No other step destroys an object that was alive.
<1>5. ASSUME UNCHANGED obj PROVE FALSE
  BY <1>5
<1>6. ASSUME NEW e \in ready, Accept(e) PROVE FALSE
  <2>1. UNCHANGED obj \/ \E y \in waiting : obj' = [obj EXCEPT ![y] = "alive"]
    BY <1>6 DEF Accept
  <2> QED BY <1>5, <2>1 DEF TypeOK
<1>7. ASSUME NEW r \in Request, WorkerDrop(r) PROVE FALSE
  <2>1. UNCHANGED obj \/ obj' = [obj EXCEPT ![r.conn] = "removed"]
    BY <1>7, Zenon DEF WorkerDrop
  <2> QED BY <1>5, <2>1 DEF TypeOK
<1>8. ASSUME NEW y \in Conns, WorkerClose(y) PROVE FALSE
  <2>1. obj[y] = "removed" /\ obj' = [obj EXCEPT ![y] = "freed"]
    BY <1>8 DEF WorkerClose
  <2> QED BY <2>1 DEF TypeOK
<1>9. ASSUME \/ Poll \/ Swap \/ RunFunctor \/ UNCHANGED vars
             \/ \E e \in ready : DispatchDead(e)
             \/ \E e \in cur : Decode(e) \/ AfterRead(e)
             \/ \E y \in Conns : Client(y)
             \/ \E r \in Request : WorkerRun(r)
      PROVE  UNCHANGED obj
  BY <1>9 DEF Poll, Swap, RunFunctor, vars, DispatchDead, Decode, AfterRead, Client,
              Connect, Ask, HangUp, WorkerRun
<1> QED BY <1>2, <1>3, <1>4, <1>5, <1>6, <1>7, <1>8, <1>9
        DEF Next, LoopStep, Worker, Idle

\* LoopLeavesNoDanglingEvent, for any number of clients and descriptors: when a handler or
\* the end of a batch of functors destroys a connection in the loop's thread, no event of
\* the same epoll_wait that is still to be handled points to its Channel.
THEOREM HandlersLeaveNoDanglingEvent == Spec => LoopLeavesNoDanglingEvent
<1>1. TypeInv /\ DispatchInv /\ [Next]_vars
        => [\A x \in Conns :
              obj[x] = "alive" /\ obj'[x] = "freed" => \A e \in ready' : e.ch # x]_vars
  BY NoDanglingStep DEF TypeInv
<1> QED BY <1>1, DeliveryInvariant, DispatchInvariant, PTL
        DEF Spec, LoopLeavesNoDanglingEvent
-----------------------------------------------------------------------------
(* A request on its way from the socket through the pool to the client.    *)

\* How often the request r is on its way in, with the pool and the functors, and on its
\* way out or with its client.
Inbound(r) == Count(unread[r.conn], r) + Count(inbuf[r.conn], r)
Inside(r) == (IF r \in work THEN 1 ELSE 0) + Count(functors, r) + Count(batch, r)
Outbound(r) == Count(out[r.conn], r) + Count(got[r.conn], r)
Copies(r) == Inbound(r) + Inside(r) + Outbound(r)

\* A request exists once if its client has sent it, the client stays and onMessage does
\* not swallow it; it never exists twice, and not before it has been sent.
OneCopy(r) ==
  /\ Copies(r) <= 1
  /\ r.id > asked[r.conn] => Copies(r) = 0
  /\ r.id <= asked[r.conn] /\ hung[r.conn] = "no" /\ Kind[r.conn][r.id] # "empty"
       => Copies(r) = 1

CopyInv == \A r \in Request : OneCopy(r)

\* The counts are natural numbers.
LEMMA CopiesType ==
  ASSUME TypeOK, NEW r \in Request
  PROVE  Inbound(r) \in Nat /\ Inside(r) \in Nat /\ Outbound(r) \in Nat
<1>1. /\ unread[r.conn] \in Seq(Request) /\ inbuf[r.conn] \in Seq(Request)
      /\ out[r.conn] \in Seq(Request) /\ got[r.conn] \in Seq(Request)
      /\ functors \in Seq(Request) /\ batch \in Seq(Request)
  BY RequestFields DEF TypeOK
<1>2. /\ Count(unread[r.conn], r) \in Nat /\ Count(inbuf[r.conn], r) \in Nat
      /\ Count(out[r.conn], r) \in Nat /\ Count(got[r.conn], r) \in Nat
      /\ Count(functors, r) \in Nat /\ Count(batch, r) \in Nat
  BY <1>1, CountType
<1> QED BY <1>2 DEF Inbound, Inside, Outbound

\* The same of the counts after a step.
LEMMA CopiesTypeNext ==
  ASSUME TypeOK', NEW r \in Request
  PROVE  Inbound(r)' \in Nat /\ Inside(r)' \in Nat /\ Outbound(r)' \in Nat
<1>1. /\ unread'[r.conn] \in Seq(Request) /\ inbuf'[r.conn] \in Seq(Request)
      /\ out'[r.conn] \in Seq(Request) /\ got'[r.conn] \in Seq(Request)
      /\ functors' \in Seq(Request) /\ batch' \in Seq(Request)
  BY RequestFields DEF TypeOK
<1>2. /\ Count(unread'[r.conn], r) \in Nat /\ Count(inbuf'[r.conn], r) \in Nat
      /\ Count(out'[r.conn], r) \in Nat /\ Count(got'[r.conn], r) \in Nat
      /\ Count(functors', r) \in Nat /\ Count(batch', r) \in Nat
  BY <1>1, CountType
<1> QED BY <1>2 DEF Inbound, Inside, Outbound

\* write() of s to a live connection: its own client gets s, unless it has gone.
LEMMA WriteGot ==
  ASSUME TypeOK, OwnsDescriptor, NEW x \in Conns, obj[x] = "alive", NEW s \in Seq(Request),
         NEW r \in Request
  PROVE  Count(Written(x, s)[r.conn], r)
           = Count(got[r.conn], r)
             + IF r.conn = x /\ hung[x] = "no" THEN Count(s, r) ELSE 0
<1>1. files[fdOf[x]] = x /\ r.conn \in Conns /\ got \in [Conns -> Seq(Request)]
  BY RequestFields DEF OwnsDescriptor, TypeOK
<1>2. Count(got[r.conn], r) \in Nat
  BY <1>1, CountType
<1>3. CASE hung[x] = "no"
  <2>1. Written(x, s) = [got EXCEPT ![x] = got[x] \o s]
    BY <1>1, <1>3 DEF Written
  <2>2. CASE r.conn = x
    <3>1. Written(x, s)[r.conn] = got[x] \o s
      BY <1>1, <2>1, <2>2
    <3>2. Count(got[x] \o s, r) = Count(got[x], r) + Count(s, r)
      BY <1>1, CountConcat
    <3> QED BY <1>3, <2>2, <3>1, <3>2
  <2>3. CASE r.conn # x
    <3>1. Written(x, s)[r.conn] = got[r.conn]
      BY <1>1, <2>1, <2>3
    <3> QED BY <1>2, <2>3, <3>1
  <2> QED BY <2>2, <2>3
<1>4. CASE hung[x] # "no"
  <2>1. Written(x, s) = got
    BY <1>1, <1>4 DEF Written
  <2> QED BY <1>2, <1>4, <2>1
<1> QED BY <1>3, <1>4

\* send() on a live connection adds one copy of the response, unless the client has gone.
LEMMA SendCopies ==
  ASSUME TypeOK, OwnsDescriptor, NEW x \in Conns, obj[x] = "alive",
         NEW q \in Asks(x), Send(x, q), NEW r \in Request
  PROVE  /\ Outbound(r)' <= Outbound(r) + IF q = r THEN 1 ELSE 0
         /\ hung[r.conn] = "no" => Outbound(r)' = Outbound(r) + IF q = r THEN 1 ELSE 0
<1>1. q \in Request /\ q.conn = x /\ r.conn \in Conns
  BY AsksFields, RequestFields
<1>2. out \in [Conns -> Seq(Request)] /\ got \in [Conns -> Seq(Request)]
  BY DEF TypeOK
<1>3. Count(out[r.conn], r) \in Nat /\ Count(got[r.conn], r) \in Nat
  BY <1>1, <1>2, CountType
<1>4. CASE got' = Written(x, <<q>>) /\ UNCHANGED out
  <2>1. <<q>> \in Seq(Request) /\ Count(<<q>>, r) = IF q = r THEN 1 ELSE 0
    BY <1>1, CountSmall
  <2>2. Count(got'[r.conn], r)
          = Count(got[r.conn], r)
            + IF r.conn = x /\ hung[x] = "no" THEN Count(<<q>>, r) ELSE 0
    BY <1>4, <2>1, WriteGot
  <2> QED BY <1>1, <1>3, <1>4, <2>1, <2>2 DEF Outbound
<1>5. CASE out' = [out EXCEPT ![x] = Append(@, q)] /\ UNCHANGED got
  <2>1. CASE r.conn = x
    <3>1. out'[r.conn] = Append(out[x], q)
      BY <1>2, <1>5, <2>1
    <3>2. Count(Append(out[x], q), r) = Count(out[x], r) + IF q = r THEN 1 ELSE 0
      BY <1>1, <1>2, CountAppend
    <3> QED BY <1>3, <1>5, <2>1, <3>1, <3>2 DEF Outbound
  <2>2. CASE r.conn # x
    <3>1. out'[r.conn] = out[r.conn] /\ q # r
      BY <1>1, <1>2, <1>5, <2>2
    <3> QED BY <1>3, <1>5, <3>1 DEF Outbound
  <2> QED BY <2>1, <2>2
<1> QED BY <1>4, <1>5 DEF Send

\* handleWrite moves responses from outputBuffer_ to the client, or loses them if it has
\* gone.
LEMMA WriteCopies ==
  ASSUME TypeOK, OwnsDescriptor, NEW x \in Conns, obj[x] = "alive", NEW r \in Request,
         NEW n \in 0 .. Len(out[x]), got' = Written(x, SubSeq(out[x], 1, n)),
         out' = [out EXCEPT ![x] = SubSeq(@, n + 1, Len(@))]
  PROVE  /\ Outbound(r)' <= Outbound(r)
         /\ hung[r.conn] = "no" => Outbound(r)' = Outbound(r)
<1> DEFINE s == SubSeq(out[x], 1, n)
           t == SubSeq(out[x], n + 1, Len(out[x]))
<1>1. /\ out \in [Conns -> Seq(Request)] /\ got \in [Conns -> Seq(Request)]
      /\ out[x] \in Seq(Request) /\ r.conn \in Conns
  BY RequestFields DEF TypeOK
<1>2. /\ s \in Seq(Request) /\ t \in Seq(Request)
      /\ Count(out[x], r) = Count(s, r) + Count(t, r)
  BY <1>1, CountSplit
<1>3. out' = [out EXCEPT ![x] = t] /\ got' = Written(x, s)
  OBVIOUS
<1> HIDE DEF s, t
<1>4. /\ Count(s, r) \in Nat /\ Count(t, r) \in Nat
      /\ Count(out[r.conn], r) \in Nat /\ Count(got[r.conn], r) \in Nat
  BY <1>1, <1>2, CountType
<1>5. Count(got'[r.conn], r)
        = Count(got[r.conn], r) + IF r.conn = x /\ hung[x] = "no" THEN Count(s, r) ELSE 0
  BY <1>2, <1>3, WriteGot
<1>6. CASE r.conn = x
  <2>1. out'[r.conn] = t
    BY <1>1, <1>3, <1>6
  <2>2. Outbound(r)' = Count(t, r) + Count(got'[r.conn], r)
    BY <2>1 DEF Outbound
  <2>3. Outbound(r) = (Count(s, r) + Count(t, r)) + Count(got[r.conn], r)
    BY <1>2, <1>6 DEF Outbound
  <2>4. CASE hung[x] = "no"
    BY <1>4, <1>5, <1>6, <2>2, <2>3, <2>4
  <2>5. CASE hung[x] # "no"
    BY <1>4, <1>5, <1>6, <2>2, <2>3, <2>5
  <2> QED BY <2>4, <2>5
<1>7. CASE r.conn # x
  <2>1. out'[r.conn] = out[r.conn]
    BY <1>1, <1>3, <1>7
  <2> QED BY <1>4, <1>5, <1>7, <2>1 DEF Outbound
<1> QED BY <1>6, <1>7

\* handleRead moves requests from the socket to inputBuffer_.
LEMMA ReadCopies ==
  ASSUME TypeOK, NEW x \in Conns, NEW r \in Request, NEW n \in 1 .. Len(unread[x]),
         inbuf' = [inbuf EXCEPT ![x] = @ \o SubSeq(unread[x], 1, n)],
         unread' = [unread EXCEPT ![x] = SubSeq(@, n + 1, Len(@))]
  PROVE  Inbound(r)' = Inbound(r)
<1> DEFINE s == SubSeq(unread[x], 1, n)
           t == SubSeq(unread[x], n + 1, Len(unread[x]))
<1>1. /\ unread \in [Conns -> Seq(Request)] /\ inbuf \in [Conns -> Seq(Request)]
      /\ unread[x] \in Seq(Request) /\ inbuf[x] \in Seq(Request)
      /\ r.conn \in Conns /\ n \in 0 .. Len(unread[x])
  BY RequestFields, LenProperties DEF TypeOK
<1>2. /\ s \in Seq(Request) /\ t \in Seq(Request)
      /\ Count(unread[x], r) = Count(s, r) + Count(t, r)
  BY <1>1, CountSplit
<1>3. unread' = [unread EXCEPT ![x] = t] /\ inbuf' = [inbuf EXCEPT ![x] = inbuf[x] \o s]
  OBVIOUS
<1> HIDE DEF s, t
<1>4. /\ Count(s, r) \in Nat /\ Count(t, r) \in Nat /\ Count(inbuf[x], r) \in Nat
      /\ Count(inbuf[x] \o s, r) = Count(inbuf[x], r) + Count(s, r)
  BY <1>1, <1>2, CountType, CountConcat
<1>5. CASE r.conn = x
  <2>1. unread'[r.conn] = t /\ inbuf'[r.conn] = inbuf[x] \o s
    BY <1>1, <1>3, <1>5
  <2>2. Inbound(r)' = Count(t, r) + (Count(inbuf[x], r) + Count(s, r))
    BY <1>4, <2>1 DEF Inbound
  <2>3. Inbound(r) = (Count(s, r) + Count(t, r)) + Count(inbuf[x], r)
    BY <1>2, <1>5 DEF Inbound
  <2> QED BY <1>4, <2>2, <2>3
<1>6. CASE r.conn # x
  <2>1. unread'[r.conn] = unread[r.conn] /\ inbuf'[r.conn] = inbuf[r.conn]
    BY <1>1, <1>3, <1>6
  <2> QED BY <2>1 DEF Inbound
<1> QED BY <1>5, <1>6

\* onMessage takes the request at the head of inputBuffer_.
LEMMA TakeCopies ==
  ASSUME TypeOK, OwnStreams, NEW x \in Conns, NEW r \in Request, inbuf[x] # <<>>,
         inbuf' = [inbuf EXCEPT ![x] = Tail(@)], UNCHANGED unread
  PROVE  Inbound(r) = Inbound(r)' + IF Head(inbuf[x]) = r THEN 1 ELSE 0
<1>1. /\ inbuf \in [Conns -> Seq(Request)] /\ inbuf[x] \in Seq(Request)
      /\ unread[r.conn] \in Seq(Request) /\ r.conn \in Conns
  BY RequestFields DEF TypeOK
<1>2. /\ Tail(inbuf[x]) \in Seq(Request) /\ Head(inbuf[x]) \in Asks(x)
  BY <1>1, HeadTail DEF OwnStreams
<1>3. Count(inbuf[x], r) = Count(Tail(inbuf[x]), r) + IF Head(inbuf[x]) = r THEN 1 ELSE 0
  BY <1>1, CountTail
<1>4. /\ Count(Tail(inbuf[x]), r) \in Nat /\ Count(inbuf[r.conn], r) \in Nat
      /\ Count(unread[r.conn], r) \in Nat
  BY <1>1, <1>2, CountType
<1>5. CASE r.conn = x
  <2>1. inbuf'[r.conn] = Tail(inbuf[x])
    BY <1>1, <1>5
  <2> QED BY <1>3, <1>4, <1>5, <2>1 DEF Inbound
<1>6. CASE r.conn # x
  <2>1. inbuf'[r.conn] = inbuf[r.conn] /\ Head(inbuf[x]) # r
    BY <1>1, <1>2, <1>6, AsksFields
  <2> QED BY <1>4, <2>1 DEF Inbound
<1> QED BY <1>5, <1>6

\* A step that moves requests along keeps each in one place.
LEMMA CopiesKept ==
  ASSUME TypeOK, TypeOK', NEW r \in Request, OneCopy(r), UNCHANGED asked,
         hung'[r.conn] = "no" => hung[r.conn] = "no",
         Copies(r)' <= Copies(r),
         hung[r.conn] = "no" /\ Kind[r.conn][r.id] # "empty" => Copies(r)' = Copies(r)
  PROVE  OneCopy(r)'
<1>1. Copies(r) \in Nat
  BY CopiesType DEF Copies
<1>2. Copies(r)' \in Nat
  BY CopiesTypeNext DEF Copies
<1> QED BY <1>1, <1>2 DEF OneCopy

\* Every step keeps a request in one place.
LEMMA CopyStep ==
  TypeInv /\ DeliveryInv /\ DispatchInv /\ TypeInv' /\ CopyInv /\ [Next]_vars => CopyInv'
<1> SUFFICES ASSUME TypeOK, TypeOK', CurIsConn, OwnsDescriptor, HeldIsAlive, OwnStreams,
                    Phases, [Next]_vars, NEW r \in Request, OneCopy(r)
             PROVE  OneCopy(r)'
  BY Zenon DEF TypeInv, DeliveryInv, DispatchInv, CopyInv
<1> USE DEF kernelVars, objectVars, threadVars
<1>n. Inbound(r) \in Nat /\ Inside(r) \in Nat /\ Outbound(r) \in Nat
  BY CopiesType
<1>m. Inbound(r)' \in Nat /\ Inside(r)' \in Nat /\ Outbound(r)' \in Nat
  BY CopiesTypeNext
<1>i. ASSUME UNCHANGED <<unread, inbuf>> PROVE Inbound(r)' = Inbound(r)
  BY <1>i DEF Inbound
<1>w. ASSUME UNCHANGED <<work, functors, batch>> PROVE Inside(r)' = Inside(r)
  BY <1>w DEF Inside
<1>o. ASSUME UNCHANGED <<out, got>> PROVE Outbound(r)' = Outbound(r)
  BY <1>o DEF Outbound
\* Steps that move nothing.
<1>k. ASSUME UNCHANGED asked, hung'[r.conn] = "no" => hung[r.conn] = "no",
             Inbound(r)' = Inbound(r), Inside(r)' = Inside(r), Outbound(r)' = Outbound(r)
      PROVE  OneCopy(r)'
  <2>1. Copies(r)' = Copies(r)
    BY <1>k DEF Copies
  <2>2. Copies(r)' <= Copies(r)
    BY <1>n, <1>k DEF Copies
  <2> QED BY <1>k, <2>1, <2>2, CopiesKept
\* Steps of the loop's thread and the workers.
<1>s. ASSUME UNCHANGED asked, UNCHANGED hung, Copies(r)' <= Copies(r),
             hung[r.conn] = "no" /\ Kind[r.conn][r.id] # "empty" => Copies(r)' = Copies(r)
      PROVE  OneCopy(r)'
  BY <1>s, CopiesKept
<1>1. ASSUME \/ Poll \/ EndBatch \/ UNCHANGED vars
             \/ \E e \in ready : Accept(e) \/ DispatchDead(e) \/ DispatchError(e)
             \/ \E q \in Request : WorkerDrop(q)
             \/ \E x \in Conns : WorkerClose(x) \/ Connect(x)
      PROVE  OneCopy(r)'
  <2>1. /\ UNCHANGED <<asked, hung, unread, inbuf>> /\ UNCHANGED <<work, functors, batch>>
        /\ UNCHANGED <<out, got>>
    BY <1>1, Zenon DEF Poll, EndBatch, vars, Accept, DispatchDead, DispatchError,
                       WorkerDrop, WorkerClose, Connect
  <2> QED BY <1>k, <1>i, <1>w, <1>o, <2>1
<1>2. ASSUME NEW x \in Conns, HangUp(x) PROVE OneCopy(r)'
  <2>1. /\ UNCHANGED <<asked, unread, inbuf>> /\ UNCHANGED <<work, functors, batch>>
        /\ UNCHANGED <<out, got>>
        /\ \E how \in {"fin", "rst"} : hung' = [hung EXCEPT ![x] = how]
    BY <1>2 DEF HangUp
  <2>2. hung'[r.conn] = "no" => hung[r.conn] = "no"
    BY <2>1, RequestFields DEF TypeOK
  <2> QED BY <1>k, <1>i, <1>w, <1>o, <2>1, <2>2
<1>3. ASSUME NEW x \in Conns, Ask(x) PROVE OneCopy(r)'
  <2> DEFINE q == [conn |-> x, id |-> asked[x] + 1]
  <2>1. /\ unread' = [unread EXCEPT ![x] = Append(unread[x], q)]
        /\ asked' = [asked EXCEPT ![x] = asked[x] + 1]
        /\ UNCHANGED <<hung, inbuf, work, functors, batch, out, got>>
        /\ asked[x] + 1 \in 1 .. Len(Kind[x]) /\ asked[x] \in Nat
    BY <1>3, ServerAssumption, LenProperties DEF Ask, TypeOK
  <2>2. /\ q \in Request /\ q.conn = x /\ q.id = asked[x] + 1
    BY <2>1 DEF Request, Asks
  <2>3. /\ unread \in [Conns -> Seq(Request)] /\ r.conn \in Conns
        /\ inbuf[r.conn] \in Seq(Request) /\ asked \in [Conns -> Nat]
    BY RequestFields DEF TypeOK
  <2>4. Count(unread[r.conn], r) \in Nat /\ Count(inbuf[r.conn], r) \in Nat
    BY <2>3, CountType
  <2>5. r.id \in Nat /\ (r.conn = x /\ r.id = asked[x] + 1 => r = q)
    <3>1. PICK i \in 1 .. Len(Kind[r.conn]) : r = [conn |-> r.conn, id |-> i]
      BY RequestFields DEF Asks
    <3>2. Len(Kind[r.conn]) \in Nat
      BY <2>3, ServerAssumption, LenProperties
    <3> QED BY <3>1, <3>2
  <2>6. Inside(r)' = Inside(r) /\ Outbound(r)' = Outbound(r)
    BY <1>w, <1>o, <2>1
  <2> HIDE DEF q
  <2>7. CASE r = q
    <3>1. unread'[r.conn] = Append(unread[x], q) /\ asked'[r.conn] = r.id /\ r.conn = x
      BY <2>1, <2>2, <2>3, <2>7
    <3>2. Count(Append(unread[x], q), r) = Count(unread[x], r) + 1
      BY <2>2, <2>3, <2>7, CountAppend
    <3>3. Inbound(r)' = Inbound(r) + 1
      <4>1. Inbound(r)' = Count(unread'[r.conn], r) + Count(inbuf[r.conn], r)
        BY <2>1 DEF Inbound
      <4>2. Count(unread'[r.conn], r) = Count(unread[r.conn], r) + 1
        BY <3>1, <3>2
      <4> QED BY <2>4, <4>1, <4>2 DEF Inbound
    <3>4. r.id > asked[r.conn]
      BY <2>1, <2>2, <2>7
    <3>5. Copies(r) = 0
      BY <3>4 DEF OneCopy
    <3>6. Copies(r)' = 1
      BY <1>n, <2>6, <3>3, <3>5 DEF Copies
    <3>7. ~(r.id > asked'[r.conn])
      BY <2>5, <3>1
    <3> QED BY <3>6, <3>7 DEF OneCopy
  <2>8. CASE r # q
    <3>1. Inbound(r)' = Inbound(r)
      <4>1. CASE r.conn = x
        <5>1. unread'[r.conn] = Append(unread[x], q)
          BY <2>1, <2>3, <4>1
        <5>2. Count(Append(unread[x], q), r) = Count(unread[x], r) + 0
          BY <2>2, <2>3, <2>8, CountAppend
        <5> QED BY <2>1, <2>4, <4>1, <5>1, <5>2 DEF Inbound
      <4>2. CASE r.conn # x
        <5>1. unread'[r.conn] = unread[r.conn]
          BY <2>1, <2>3, <4>2
        <5> QED BY <2>1, <5>1 DEF Inbound
      <4> QED BY <4>1, <4>2
    <3>2. Copies(r)' = Copies(r)
      BY <2>6, <3>1 DEF Copies
    <3>3. asked'[r.conn] \in {asked[r.conn], asked[r.conn] + 1} /\ asked[r.conn] \in Nat
      BY <2>1, <2>3
    <3>4. /\ r.id > asked'[r.conn] => r.id > asked[r.conn]
          /\ r.id <= asked'[r.conn] => r.id <= asked[r.conn]
      BY <2>1, <2>3, <2>5, <2>8, <3>3
    <3> QED BY <2>1, <3>2, <3>4 DEF OneCopy
  <2> QED BY <2>7, <2>8
<1>4. ASSUME NEW e \in ready, DispatchRead(e) PROVE OneCopy(r)'
  <2>1. UNCHANGED <<asked, hung, out, got>> /\ UNCHANGED <<work, functors, batch>>
    BY <1>4 DEF DispatchRead
  <2>2. Inbound(r)' = Inbound(r)
    <3>1. CASE UNCHANGED <<unread, inbuf>>
      BY <1>i, <3>1
    <3>2. CASE ~UNCHANGED <<unread, inbuf>>
      <4>1. e.ch \in Conns
        BY <1>4 DEF DispatchRead, TypeOK, Event
      <4>2. PICK n \in 1 .. Len(unread[e.ch]) :
              /\ inbuf' = [inbuf EXCEPT ![e.ch] = @ \o SubSeq(unread[e.ch], 1, n)]
              /\ unread' = [unread EXCEPT ![e.ch] = SubSeq(@, n + 1, Len(@))]
        BY <1>4, <3>2 DEF DispatchRead
      <4> QED BY <4>1, <4>2, ReadCopies
    <3> QED BY <3>1, <3>2
  <2> QED BY <1>k, <1>w, <1>o, <2>1, <2>2
<1>5. ASSUME NEW e \in cur, Decode(e) PROVE OneCopy(r)'
  <2> DEFINE x == e.ch
             q == Head(inbuf[x])
  <2>1. /\ UNCHANGED <<asked, hung, functors, batch, unread>> /\ inbuf[x] # <<>>
        /\ inbuf' = [inbuf EXCEPT ![x] = Tail(@)]
    BY <1>5 DEF Decode
  <2>2. x \in Conns /\ obj[x] = "alive"
    BY <1>5 DEF Decode, CurIsConn, Held, HeldIsAlive
  <2>3. q \in Asks(x)
    BY <2>1, <2>2, HeadTail DEF OwnStreams
  <2>4. Inbound(r) = Inbound(r)' + IF q = r THEN 1 ELSE 0
    BY <2>1, <2>2, TakeCopies
  <2>5. \/ work' = work \cup {q} /\ UNCHANGED <<out, got>>
        \/ Send(x, q) /\ UNCHANGED work
    BY <1>5 DEF Decode
  <2> HIDE DEF x, q
  <2>6. CASE work' = work \cup {q} /\ UNCHANGED <<out, got>>
    <3>1. Outbound(r)' = Outbound(r)
      BY <1>o, <2>6
    <3>2. Count(functors, r) \in Nat /\ Count(batch, r) \in Nat
      BY CountType DEF TypeOK
    <3>3. CASE q = r
      <4>1. Inside(r) = 0
        BY <1>n, <1>m, <2>4, <3>3 DEF OneCopy, Copies
      <4>2. r \notin work
        BY <3>2, <4>1 DEF Inside
      <4>3. Inside(r)' = Inside(r) + 1
        BY <2>1, <2>6, <3>2, <3>3, <4>2 DEF Inside
      <4>4. Copies(r)' = Copies(r)
        BY <1>n, <1>m, <2>4, <3>1, <3>3, <4>3 DEF Copies
      <4>5. Copies(r) \in Nat
        BY <1>n DEF Copies
      <4> QED BY <1>s, <2>1, <4>4, <4>5
    <3>4. CASE q # r
      <4>1. Inside(r)' = Inside(r)
        BY <2>1, <2>6, <3>4 DEF Inside
      <4>2. Inbound(r)' = Inbound(r)
        BY <1>n, <1>m, <2>4, <3>4
      <4> QED BY <1>k, <2>1, <3>1, <4>1, <4>2
    <3> QED BY <3>3, <3>4
  <2>7. CASE Send(x, q) /\ UNCHANGED work
    <3>1. Inside(r)' = Inside(r)
      BY <1>w, <2>1, <2>7
    <3>2. /\ Outbound(r)' <= Outbound(r) + IF q = r THEN 1 ELSE 0
          /\ hung[r.conn] = "no" => Outbound(r)' = Outbound(r) + IF q = r THEN 1 ELSE 0
      BY <2>2, <2>3, <2>7, SendCopies
    <3>3. Copies(r)' <= Copies(r) /\ (hung[r.conn] = "no" => Copies(r)' = Copies(r))
      BY <1>n, <1>m, <2>4, <3>1, <3>2 DEF Copies
    <3> QED BY <1>s, <2>1, <3>3
  <2> QED BY <2>5, <2>6, <2>7
<1>6. ASSUME NEW e \in cur, EndMessages(e) PROVE OneCopy(r)'
  <2> DEFINE x == e.ch
             q == Head(inbuf[x])
  <2>1. /\ UNCHANGED <<asked, hung, unread, out, got>> /\ UNCHANGED <<work, functors, batch>>
        /\ inbuf[x] # <<>> => Kind[x][q.id] = "empty"
        /\ inbuf' = [inbuf EXCEPT ![x] = IF @ = <<>> THEN @ ELSE Tail(@)]
    BY <1>6 DEF EndMessages
  <2>2. x \in Conns /\ inbuf \in [Conns -> Seq(Request)]
    BY DEF CurIsConn, TypeOK
  <2>3. CASE inbuf[x] = <<>>
    <3>1. UNCHANGED inbuf
      BY <2>1, <2>2, <2>3
    <3> QED BY <1>k, <1>i, <1>w, <1>o, <2>1, <3>1
  <2>4. CASE inbuf[x] # <<>>
    <3>1. inbuf' = [inbuf EXCEPT ![x] = Tail(@)]
      BY <2>1, <2>4
    <3>2. Inbound(r) = Inbound(r)' + IF q = r THEN 1 ELSE 0
      BY <2>1, <2>2, <2>4, <3>1, TakeCopies
    <3>3. q \in Asks(x)
      BY <2>2, <2>4, HeadTail DEF OwnStreams
    <3>4. q = r => Kind[r.conn][r.id] = "empty"
      BY <2>1, <2>2, <2>4, <3>3, AsksFields
    <3> HIDE DEF q, x
    <3>5. Inside(r)' = Inside(r) /\ Outbound(r)' = Outbound(r)
      BY <1>w, <1>o, <2>1
    <3>6. Copies(r)' <= Copies(r) /\ (q # r => Copies(r)' = Copies(r))
      BY <1>n, <1>m, <3>2, <3>5 DEF Copies
    <3> QED BY <1>s, <2>1, <3>4, <3>6
  <2> QED BY <2>3, <2>4
<1>7. ASSUME NEW e \in cur, AfterRead(e) PROVE OneCopy(r)'
  <2>1. UNCHANGED <<asked, hung, unread, inbuf>> /\ UNCHANGED <<work, functors, batch>>
    BY <1>7 DEF AfterRead
  <2>2. Inbound(r)' = Inbound(r) /\ Inside(r)' = Inside(r)
    BY <1>i, <1>w, <2>1
  <2>3. CASE UNCHANGED <<got, out>>
    BY <1>k, <1>o, <2>1, <2>2, <2>3
  <2>4. CASE ~UNCHANGED <<got, out>>
    <3>1. e.ch \in Conns
      BY DEF CurIsConn
    <3>2. obj[e.ch] = "alive"
      BY <1>7, <2>4 DEF AfterRead
    <3>3. PICK n \in 0 .. Len(out[e.ch]) :
            /\ got' = Written(e.ch, SubSeq(out[e.ch], 1, n))
            /\ out' = [out EXCEPT ![e.ch] = SubSeq(@, n + 1, Len(@))]
      BY <1>7, <2>4 DEF AfterRead
    <3>4. /\ Outbound(r)' <= Outbound(r)
          /\ hung[r.conn] = "no" => Outbound(r)' = Outbound(r)
      BY <3>1, <3>2, <3>3, WriteCopies
    <3>5. Copies(r)' <= Copies(r) /\ (hung[r.conn] = "no" => Copies(r)' = Copies(r))
      BY <1>n, <1>m, <2>2, <3>4 DEF Copies
    <3> QED BY <1>s, <2>1, <3>5
  <2> QED BY <2>3, <2>4
<1>8. ASSUME Swap PROVE OneCopy(r)'
  <2>1. /\ UNCHANGED <<asked, hung, unread, inbuf, out, got, work>>
        /\ batch' = functors /\ functors' = <<>> /\ batch = <<>>
    BY <1>8 DEF Swap, AfterSwap, Phases
  <2>2. Count(<<>>, r) = 0 /\ Count(functors, r) \in Nat
    BY CountSmall, CountType DEF TypeOK
  <2>3. Inside(r)' = Inside(r)
    BY <2>1, <2>2 DEF Inside
  <2> QED BY <1>k, <1>i, <1>o, <2>1, <2>3
<1>9. ASSUME RunFunctor PROVE OneCopy(r)'
  <2> DEFINE q == Head(batch)
             x == q.conn
  <2>1. /\ UNCHANGED <<asked, hung, unread, inbuf, work, functors>>
        /\ batch # <<>> /\ batch' = Tail(batch) /\ Send(x, q)
    BY <1>9 DEF RunFunctor
  <2>2. q \in Request /\ q \in Range(batch) /\ batch \in Seq(Request)
    BY <2>1, HeadTail DEF TypeOK
  <2>3. x \in Conns /\ x \in Captured /\ q \in Asks(x)
    BY <2>2, RequestFields DEF Captured
  <2>4. /\ Count(batch, r) = Count(batch', r) + IF q = r THEN 1 ELSE 0
    BY <2>1, <2>2, CountTail
  <2>5. Count(batch', r) \in Nat /\ Count(functors, r) \in Nat
    BY CountType DEF TypeOK
  <2> HIDE DEF q, x
  <2>6. obj[x] = "alive"
    BY <2>3 DEF HeldIsAlive, Held
  <2>7. Inside(r) = Inside(r)' + IF q = r THEN 1 ELSE 0
    BY <2>1, <2>4, <2>5 DEF Inside
  <2>8. /\ Outbound(r)' <= Outbound(r) + IF q = r THEN 1 ELSE 0
        /\ hung[r.conn] = "no" => Outbound(r)' = Outbound(r) + IF q = r THEN 1 ELSE 0
    BY <2>1, <2>3, <2>6, SendCopies
  <2>9. Inbound(r)' = Inbound(r)
    BY <1>i, <2>1
  <2>10. Copies(r)' <= Copies(r) /\ (hung[r.conn] = "no" => Copies(r)' = Copies(r))
    BY <1>n, <1>m, <2>7, <2>8, <2>9 DEF Copies
  <2> QED BY <1>s, <2>1, <2>10
<1>10. ASSUME NEW q \in Request, WorkerRun(q) PROVE OneCopy(r)'
  <2>1. /\ UNCHANGED <<asked, hung, unread, inbuf, out, got, batch>>
        /\ q \in work /\ work' = work \ {q} /\ functors' = Append(functors, q)
    BY <1>10 DEF WorkerRun
  <2>2. Count(functors', r) = Count(functors, r) + IF q = r THEN 1 ELSE 0
    BY <2>1, CountAppend DEF TypeOK
  <2>3. Count(functors, r) \in Nat /\ Count(batch, r) \in Nat
    BY CountType DEF TypeOK
  <2>4. Inside(r)' = Inside(r)
    BY <2>1, <2>2, <2>3 DEF Inside
  <2> QED BY <1>k, <1>i, <1>o, <2>1, <2>4
<1> QED BY <1>1, <1>2, <1>3, <1>4, <1>5, <1>6, <1>7, <1>8, <1>9, <1>10
        DEF Next, LoopStep, Worker, Idle, Client

\* CopyInv holds throughout.
LEMMA CopyInvariant == Spec => []CopyInv
<1>1. Init => CopyInv
  <2> SUFFICES ASSUME Init, NEW r \in Request PROVE OneCopy(r)
    BY DEF CopyInv
  <2>1. r.conn \in Conns /\ r \in Asks(r.conn)
    BY RequestFields
  <2>2. r.id \in Nat \ {0}
    <3>1. Len(Kind[r.conn]) \in Nat
      BY <2>1, ServerAssumption, LenProperties
    <3> QED BY <2>1, <3>1 DEF Asks
  <2>3. Count(<<>>, r) = 0
    BY CountSmall
  <2>4. Inbound(r) = 0 /\ Inside(r) = 0 /\ Outbound(r) = 0
    BY <2>1, <2>3 DEF Init, Inbound, Inside, Outbound
  <2>5. Copies(r) = 0 /\ asked[r.conn] = 0
    BY <2>1, <2>4 DEF Copies, Init
  <2> QED BY <2>2, <2>5 DEF OneCopy
<1> QED BY <1>1, CopyStep, DeliveryInvariant, DispatchInvariant, PTL DEF Spec

\* The positions of r in the streams of x.
StreamPlaces(x, r) ==
  {<<"unread", x, k>> : k \in Where(unread[x], r)}
  \cup {<<"inbuf", x, k>> : k \in Where(inbuf[x], r)}
  \cup {<<"out", x, k>> : k \in Where(out[x], r)}
  \cup {<<"got", x, k>> : k \in Where(got[x], r)}

\* A request is in the streams of its own client only.
LEMMA PlacesOfOne ==
  ASSUME OwnStreams, NEW r \in Request
  PROVE  Places(r) = {<<"work", q>> : q \in work \cap {r}}
                     \cup {<<"functors", k>> : k \in Where(functors, r)}
                     \cup {<<"batch", k>> : k \in Where(batch, r)}
                     \cup StreamPlaces(r.conn, r)
<1>1. Places(r) = {<<"work", q>> : q \in work \cap {r}}
                  \cup {<<"functors", k>> : k \in Where(functors, r)}
                  \cup {<<"batch", k>> : k \in Where(batch, r)}
                  \cup UNION {StreamPlaces(x, r) : x \in Conns}
  BY Zenon DEF Places, StreamPlaces, Where
<1>2. ASSUME NEW x \in Conns, x # r.conn PROVE StreamPlaces(x, r) = {}
  <2>1. ASSUME NEW s \in Seq(Asks(x)) PROVE Where(s, r) = {}
    <3>1. \A k \in DOMAIN s : s[k] \in Asks(x)
      BY LenProperties, ElementOfSeq
    <3> QED BY <1>2, <3>1, AsksFields DEF Where
  <2>2. /\ Where(unread[x], r) = {} /\ Where(inbuf[x], r) = {}
        /\ Where(out[x], r) = {} /\ Where(got[x], r) = {}
    BY <2>1 DEF OwnStreams
  <2> QED BY <2>2 DEF StreamPlaces
<1>3. r.conn \in Conns
  BY RequestFields
<1>4. UNION {StreamPlaces(x, r) : x \in Conns} = StreamPlaces(r.conn, r)
  BY <1>2, <1>3
<1> QED BY <1>1, <1>4

\* Tagging the positions does not change how many there are, if there is at most one.
LEMMA TaggedPlaces ==
  ASSUME NEW W, NEW T, IsFiniteSet(W), Cardinality(W) <= 1,
         W = {} => T = {}, \A k : W = {k} => \E p : T = {p}
  PROVE  IsFiniteSet(T) /\ Cardinality(T) = Cardinality(W)
<1>1. CASE W = {}
  BY <1>1, FS_EmptySet
<1>2. CASE \E k : W = {k}
  <2>1. PICK k : W = {k}
    BY <1>2
  <2>2. PICK p : T = {p}
    BY <2>1
  <2> QED BY <2>1, <2>2, FS_Singleton
<1>3. Cardinality(W) \in Nat
  BY FS_CardinalityType
<1>4. Cardinality(W) = 0 \/ Cardinality(W) = 1
  BY <1>3
<1> QED BY <1>1, <1>2, <1>4, FS_EmptySet, FS_Singleton

\* There are as many places as copies, if there is at most one copy.
LEMMA PlacesAreCopies ==
  ASSUME TypeOK, OwnStreams, NEW r \in Request, Copies(r) <= 1
  PROVE  Cardinality(Places(r)) = Copies(r)
<1> DEFINE x == r.conn
           A == {<<"work", q>> : q \in work \cap {r}}
           B == {<<"functors", k>> : k \in Where(functors, r)}
           C == {<<"batch", k>> : k \in Where(batch, r)}
           D == {<<"unread", x, k>> : k \in Where(unread[x], r)}
           E == {<<"inbuf", x, k>> : k \in Where(inbuf[x], r)}
           F == {<<"out", x, k>> : k \in Where(out[x], r)}
           G == {<<"got", x, k>> : k \in Where(got[x], r)}
           a == IF r \in work THEN 1 ELSE 0
<1>1. Places(r) = A \cup B \cup C \cup (D \cup E \cup F \cup G)
  BY PlacesOfOne DEF StreamPlaces
<1>2. /\ unread[x] \in Seq(Request) /\ inbuf[x] \in Seq(Request)
      /\ out[x] \in Seq(Request) /\ got[x] \in Seq(Request)
      /\ functors \in Seq(Request) /\ batch \in Seq(Request)
  BY RequestFields DEF TypeOK
<1>3. /\ Count(unread[x], r) \in Nat /\ IsFiniteSet(Where(unread[x], r))
      /\ Count(inbuf[x], r) \in Nat /\ IsFiniteSet(Where(inbuf[x], r))
      /\ Count(out[x], r) \in Nat /\ IsFiniteSet(Where(out[x], r))
      /\ Count(got[x], r) \in Nat /\ IsFiniteSet(Where(got[x], r))
      /\ Count(functors, r) \in Nat /\ IsFiniteSet(Where(functors, r))
      /\ Count(batch, r) \in Nat /\ IsFiniteSet(Where(batch, r))
  BY <1>2, CountType
<1>4. Copies(r) = (Count(unread[x], r) + Count(inbuf[x], r))
                  + (a + Count(functors, r) + Count(batch, r))
                  + (Count(out[x], r) + Count(got[x], r))
  BY DEF Copies, Inbound, Inside, Outbound
<1>5. IsFiniteSet(A) /\ Cardinality(A) = a
  <2>1. A = IF r \in work THEN {<<"work", r>>} ELSE {}
    BY Zenon
  <2> QED BY <2>1, FS_EmptySet, FS_Singleton
<1>6. a \in {0, 1}
  OBVIOUS
<1> HIDE DEF a
<1>7. /\ Count(unread[x], r) <= 1 /\ Count(inbuf[x], r) <= 1 /\ Count(out[x], r) <= 1
      /\ Count(got[x], r) <= 1 /\ Count(functors, r) <= 1 /\ Count(batch, r) <= 1
  BY <1>3, <1>4, <1>6
<1>t. ASSUME NEW s, NEW T, IsFiniteSet(Where(s, r)), Count(s, r) <= 1,
             Where(s, r) = {} => T = {}, \A k : Where(s, r) = {k} => \E p : T = {p}
      PROVE  IsFiniteSet(T) /\ Cardinality(T) = Count(s, r)
  <2> DEFINE W == Where(s, r)
  <2>1. Cardinality(W) <= 1
    BY <1>t DEF Count
  <2>2. IsFiniteSet(W) /\ (W = {} => T = {}) /\ \A k : W = {k} => \E p : T = {p}
    BY <1>t
  <2> HIDE DEF W
  <2>3. IsFiniteSet(T) /\ Cardinality(T) = Cardinality(W)
    BY <2>1, <2>2, TaggedPlaces
  <2> QED BY <2>3 DEF W, Count
<1>8. /\ IsFiniteSet(B) /\ Cardinality(B) = Count(functors, r)
      /\ IsFiniteSet(C) /\ Cardinality(C) = Count(batch, r)
  <2>1. /\ Where(functors, r) = {} => B = {}
        /\ \A k : Where(functors, r) = {k} => B = {<<"functors", k>>}
        /\ Where(batch, r) = {} => C = {}
        /\ \A k : Where(batch, r) = {k} => C = {<<"batch", k>>}
    BY Zenon
  <2> HIDE DEF B, C
  <2>2. IsFiniteSet(B) /\ Cardinality(B) = Count(functors, r)
    BY <1>3, <1>7, <1>t, <2>1, Zenon
  <2>3. IsFiniteSet(C) /\ Cardinality(C) = Count(batch, r)
    BY <1>3, <1>7, <1>t, <2>1, Zenon
  <2> QED BY <2>2, <2>3
<1>9. /\ IsFiniteSet(D) /\ Cardinality(D) = Count(unread[x], r)
      /\ IsFiniteSet(E) /\ Cardinality(E) = Count(inbuf[x], r)
      /\ IsFiniteSet(F) /\ Cardinality(F) = Count(out[x], r)
      /\ IsFiniteSet(G) /\ Cardinality(G) = Count(got[x], r)
  <2>1. /\ Where(unread[x], r) = {} => D = {}
        /\ \A k : Where(unread[x], r) = {k} => D = {<<"unread", x, k>>}
        /\ Where(inbuf[x], r) = {} => E = {}
        /\ \A k : Where(inbuf[x], r) = {k} => E = {<<"inbuf", x, k>>}
    BY Zenon
  <2>2. /\ Where(out[x], r) = {} => F = {}
        /\ \A k : Where(out[x], r) = {k} => F = {<<"out", x, k>>}
        /\ Where(got[x], r) = {} => G = {}
        /\ \A k : Where(got[x], r) = {k} => G = {<<"got", x, k>>}
    BY Zenon
  <2> HIDE DEF D, E, F, G, x
  <2>3. IsFiniteSet(D) /\ Cardinality(D) = Count(unread[x], r)
    BY <1>3, <1>7, <1>t, <2>1, Zenon
  <2>4. IsFiniteSet(E) /\ Cardinality(E) = Count(inbuf[x], r)
    BY <1>3, <1>7, <1>t, <2>1, Zenon
  <2>5. IsFiniteSet(F) /\ Cardinality(F) = Count(out[x], r)
    BY <1>3, <1>7, <1>t, <2>2, Zenon
  <2>6. IsFiniteSet(G) /\ Cardinality(G) = Count(got[x], r)
    BY <1>3, <1>7, <1>t, <2>2, Zenon
  <2> QED BY <2>3, <2>4, <2>5, <2>6
<1> DEFINE Pool == A \cup B
           In == D \cup E
           OutIn == In \cup F
           Server == Pool \cup C
           Streams == OutIn \cup G
<1> HIDE DEF A, B, C, D, E, F, G, x
<1>10. IsFiniteSet(Pool) /\ Cardinality(Pool) = Cardinality(A) + Cardinality(B)
  <2>1. Cardinality(A) + Cardinality(B) <= 1
    BY <1>3, <1>4, <1>5, <1>6, <1>8
  <2> QED BY <1>5, <1>8, <2>1, SmallUnion
<1>11. IsFiniteSet(In) /\ Cardinality(In) = Cardinality(D) + Cardinality(E)
  <2>1. Cardinality(D) + Cardinality(E) <= 1
    BY <1>3, <1>4, <1>6, <1>9
  <2> QED BY <1>9, <2>1, SmallUnion
<1> HIDE DEF Pool, In
<1>12. IsFiniteSet(Server) /\ Cardinality(Server) = Cardinality(Pool) + Cardinality(C)
  <2>1. Cardinality(Pool) + Cardinality(C) <= 1
    BY <1>3, <1>4, <1>5, <1>6, <1>8, <1>10
  <2> QED BY <1>8, <1>10, <2>1, SmallUnion
<1>13. IsFiniteSet(OutIn) /\ Cardinality(OutIn) = Cardinality(In) + Cardinality(F)
  <2>1. Cardinality(In) + Cardinality(F) <= 1
    BY <1>3, <1>4, <1>6, <1>9, <1>11
  <2> QED BY <1>9, <1>11, <2>1, SmallUnion
<1> HIDE DEF Server, OutIn
<1>14. IsFiniteSet(Streams) /\ Cardinality(Streams) = Cardinality(OutIn) + Cardinality(G)
  <2>1. Cardinality(OutIn) + Cardinality(G) <= 1
    BY <1>3, <1>4, <1>6, <1>9, <1>11, <1>13
  <2> QED BY <1>9, <1>13, <2>1, SmallUnion
<1> HIDE DEF Streams
<1>15. Cardinality(Server \cup Streams) = Copies(r)
  <2>1. Cardinality(Server) + Cardinality(Streams) = Copies(r)
    BY <1>3, <1>4, <1>5, <1>6, <1>8, <1>9, <1>10, <1>11, <1>12, <1>13, <1>14
  <2> QED BY <1>12, <1>14, <2>1, SmallUnion
<1>16. Places(r) = Server \cup Streams
  BY <1>1 DEF Server, Streams, Pool, In, OutIn
<1> QED BY <1>15, <1>16

\* RequestInOnePlace, for any clients and any sequences of requests: no request of a
\* client that stays is lost or answered twice between the socket, inputBuffer_, the pool,
\* pendingFunctors_, the batch being run, outputBuffer_ and the client.
THEOREM RequestsAreNotLostOrDoubled == Spec => []RequestInOnePlace
<1>1. TypeInv /\ DeliveryInv /\ CopyInv => RequestInOnePlace
  <2> SUFFICES ASSUME TypeOK, OwnStreams, CopyInv, NEW x \in Conns, NEW r \in Asks(x),
                      hung[x] = "no", r.id <= asked[x], Kind[x][r.id] # "empty"
               PROVE  Cardinality(Places(r)) = 1
    BY DEF TypeInv, DeliveryInv, RequestInOnePlace
  <2>1. r \in Request /\ r.conn = x
    BY AsksFields
  <2>2. Copies(r) = 1
    BY <2>1 DEF CopyInv, OneCopy
  <2> QED BY <2>1, <2>2, PlacesAreCopies
<1> QED BY <1>1, DeliveryInvariant, CopyInvariant, PTL
=============================================================================

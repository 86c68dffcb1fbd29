------------------------------- MODULE RpcServer -------------------------------
(***************************************************************************)
(* The server: Acceptor, TcpConnection, Channel and the epoll registration *)
(* of EventLoop, run by the loop's thread, and RpcServer's onMessage, which*)
(* hands requests to the pool and gets responses back through runInLoop.   *)
(*                                                                         *)
(* What is followed closely is the life of a TcpConnection object: who     *)
(* holds a shared_ptr to it, which thread drops the last one, and what     *)
(* becomes of its descriptor, which the kernel gives to a later            *)
(* connection. The task queue is modelled in EventLoop, the pool in        *)
(* ThreadPool; here a queued task is run by some worker, and a functor by  *)
(* the loop's thread after the events of the poll.                         *)
(***************************************************************************)
EXTENDS Integers, Sequences, FiniteSets, Functions

CONSTANTS
  Conns,       \* clients' TCP connections; also the objects the server makes for them
  Fds,         \* descriptors the process can have for them
  Kind,        \* Kind[x]: the requests client x has to send, by their kinds (see Kinds)
  Listener,    \* the acceptor's channel
  NoConn, NoFd

\* A request that parses, one that does not, and one whose message serialises to no
\* bytes: tryUnpackWithId returns "" for it as for an incomplete frame.
Kinds == {"ok", "malformed", "empty"}

ASSUME ServerAssumption ==
  /\ Kind \in [Conns -> Seq(Kinds)]
  /\ NoConn \notin Conns
  /\ Listener \notin Conns
  /\ Listener # NoConn
  /\ NoFd \notin Fds

VARIABLES
  \* the kernel and the clients
  waiting,      \* connections in the backlog of the listening socket
  files,        \* files[f]: the connection descriptor f refers to
  epoll,        \* epoll[f]: the registration of f, [ch, mask], ch = NoConn if none
  asked,        \* asked[x]: requests client x has sent
  unread,       \* unread[x]: requests that have arrived and were not read
  hung,         \* hung[x]: whether the client has closed ("fin") or reset ("rst")
  got,          \* got[x]: the requests whose responses reached client x, in order
  \* the server's objects
  obj,          \* obj[x]: the TcpConnection object of x
  fdOf,         \* fdOf[x]: its descriptor
  events,       \* events[x]: events_ of its Channel
  inbuf,        \* inbuf[x]: inputBuffer_
  out,          \* out[x]: outputBuffer_, responses named by their requests
  connections,  \* connections_ of RpcServer
  channels,     \* the descriptors in channels_ of EventLoop
  \* the threads
  loopPc,       \* where the loop's thread stands
  ready,        \* the events of this poll not yet handled
  cur,          \* the event being handled, as a set
  work,         \* tasks in the pool, queued or running, named by their requests
  leftover,     \* tasks that have run and that their worker has not destroyed yet
  functors,     \* pendingFunctors_: responses to be sent
  batch,        \* functors swapped out and not yet run
  spent         \* functors of the batch that have run, not yet destroyed

kernelVars == <<waiting, files, epoll, asked, unread, hung, got>>
objectVars == <<obj, fdOf, events, inbuf, out, connections, channels>>
threadVars == <<loopPc, ready, cur, work, leftover, functors, batch, spent>>
vars == <<kernelVars, objectVars, threadVars>>

Asks(x) == {[conn |-> x, id |-> i] : i \in 1 .. Len(Kind[x])}
Request == UNION {Asks(x) : x \in Conns}
Registration == [ch : Conns \cup {NoConn}, mask : SUBSET {"in", "out"}]
Event == [ch : Conns \cup {Listener}, rev : SUBSET {"in", "out", "err", "hup"}]

NoReg == [ch |-> NoConn, mask |-> {}]

Init ==
  /\ waiting = {}
  /\ files = [f \in Fds |-> NoConn]
  /\ epoll = [f \in Fds |-> NoReg]
  /\ asked = [x \in Conns |-> 0]
  /\ unread = [x \in Conns |-> <<>>]
  /\ hung = [x \in Conns |-> "no"]
  /\ got = [x \in Conns |-> <<>>]
  /\ obj = [x \in Conns |-> "none"]
  /\ fdOf = [x \in Conns |-> NoFd]
  /\ events = [x \in Conns |-> {}]
  /\ inbuf = [x \in Conns |-> <<>>]
  /\ out = [x \in Conns |-> <<>>]
  /\ connections = {}
  /\ channels = {}
  /\ loopPc = "poll"
  /\ ready = {}
  /\ cur = {}
  /\ work = {}
  /\ leftover = {}
  /\ functors = <<>>
  /\ batch = <<>>
  /\ spent = {}
-----------------------------------------------------------------------------
(* References, registration and destruction.                               *)

\* The connections that tasks and functors hold a shared_ptr to.
Captured ==
  {r.conn : r \in work \cup leftover \cup Range(functors) \cup Range(batch) \cup spent}

\* Somebody holds a shared_ptr to x: the server's set, a task, a functor, or the
\* loop's thread while it is inside messageCallback_.
HeldBySetOnly(x) == x \in connections
Held(x) ==
  \/ x \in connections
  \/ x \in Captured
  \/ loopPc = "decode" /\ \E e \in cur : e.ch = x

\* The registrations after EventLoop::updateChannel for the Channel of x and f with the
\* given mask. A descriptor that is already in channels_ is modified, which fails (ENOENT)
\* and changes nothing if it is not registered.
UpdateChannel(f, x, mask) ==
  IF f \notin channels \/ epoll[f].ch # NoConn
  THEN [epoll EXCEPT ![f] = [ch |-> x, mask |-> mask]]
  ELSE epoll

\* The loop's thread has let go of some references: objects nobody holds any more are
\* destroyed, the Channel (remove(): its descriptor stays in channels_) before the
\* Socket, whose close also ends the registration.
ReleaseInLoop ==
  LET gone == {x \in Conns : obj[x] = "alive" /\ ~Held(x)'}
  IN /\ obj' = [x \in Conns |-> IF x \in gone THEN "freed" ELSE obj[x]]
     /\ events' = [x \in Conns |-> IF x \in gone THEN {} ELSE events[x]]
     /\ files' = [f \in Fds |-> IF files[f] \in gone THEN NoConn ELSE files[f]]
     /\ epoll' = [f \in Fds |-> IF files[f] \in gone THEN NoReg ELSE epoll[f]]
     /\ UNCHANGED channels

\* write() of s to the descriptor of x: it goes to whatever the descriptor refers to,
\* and is lost if that client is gone.
Written(x, s) ==
  LET y == files[fdOf[x]]
  IN IF y \in Conns /\ hung[y] = "no" THEN [got EXCEPT ![y] = @ \o s] ELSE got

\* channel_->enableWriting()
DoNotEnable(x) == UNCHANGED <<events, epoll>>
EnableWriting(x) ==
  /\ events' = [events EXCEPT ![x] = @ \cup {"out"}]
  /\ epoll' = UpdateChannel(fdOf[x], x, events[x] \cup {"out"})

\* TcpConnection::send of the response to r, in the loop's thread.
Send(x, r) ==
  \/ /\ out[x] = <<>>
     /\ got' = Written(x, <<r>>)
     /\ UNCHANGED <<out, events, epoll>>
  \/ \* the socket is full, or the buffer was not empty
     /\ out' = [out EXCEPT ![x] = Append(@, r)]
     /\ EnableWriting(x)
     /\ UNCHANGED got
-----------------------------------------------------------------------------
(* The clients.                                                            *)

Connect(x) ==
  /\ obj[x] = "none" /\ x \notin waiting
  /\ waiting' = waiting \cup {x}
  /\ UNCHANGED <<files, epoll, asked, unread, hung, got, objectVars, threadVars>>

Ask(x) ==
  /\ obj[x] # "none" \/ x \in waiting
  /\ hung[x] = "no"
  /\ asked[x] < Len(Kind[x])
  /\ asked' = [asked EXCEPT ![x] = @ + 1]
  /\ unread' = [unread EXCEPT ![x] = Append(@, [conn |-> x, id |-> asked[x] + 1])]
  /\ UNCHANGED <<waiting, files, epoll, hung, got, objectVars, threadVars>>

HangUp(x) ==
  /\ obj[x] # "none" \/ x \in waiting
  /\ hung[x] = "no"
  /\ \E how \in {"fin", "rst"} : hung' = [hung EXCEPT ![x] = how]
  /\ UNCHANGED <<waiting, files, epoll, asked, unread, got, objectVars, threadVars>>
-----------------------------------------------------------------------------
(* The thread in EventLoop::loop.                                          *)

\* What level-triggered epoll reports of a registered descriptor. Errors are reported
\* whether asked for or not.
Revents(f) ==
  LET x == files[f]
      readable == IF unread[x] # <<>> \/ hung[x] # "no" THEN {"in"} ELSE {}
      broken == IF hung[x] = "rst" THEN {"err", "hup"} ELSE {}
  IN (epoll[f].mask \cap (readable \cup {"out"})) \cup broken

Ready ==
  {[ch |-> epoll[f].ch, rev |-> Revents(f)] :
     f \in {g \in Fds : epoll[g].ch # NoConn /\ Revents(g) # {}}}
  \cup {e \in {[ch |-> Listener, rev |-> {"in"}]} : waiting # {}}

\* epoll_wait returns, for events or because a functor was queued.
Poll ==
  /\ loopPc = "poll"
  /\ Ready # {} \/ functors # <<>>
  /\ ready' = Ready
  /\ loopPc' = "dispatch"
  /\ UNCHANGED <<kernelVars, objectVars, cur, work, leftover, functors, batch, spent>>

\* The events left after e has been taken.
AfterEvent(e) == ready \ {e}

\* The descriptors accept4 may return. It may also fail with -1, because the process has
\* none left or the client has gone, and handleRead ignores that.
AcceptedUnchecked == {f \in Fds : files[f] = NoConn} \cup {NoFd}
Accepted == {f \in Fds : files[f] = NoConn}

\* Acceptor::handleRead and RpcServer's callback for a new connection.
Accept(e) ==
  /\ loopPc = "dispatch" /\ e \in ready /\ e.ch = Listener
  /\ ready' = AfterEvent(e)
  /\ \/ UNCHANGED <<waiting, files, epoll, obj, fdOf, events, connections, channels>>
     \/ \E x \in waiting, f \in Accepted :
          /\ waiting' = waiting \ {x}
          /\ files' = [files EXCEPT ![f] = x]
          /\ obj' = [obj EXCEPT ![x] = "alive"]
          /\ fdOf' = [fdOf EXCEPT ![x] = f]
          /\ connections' = connections \cup {x}
          /\ events' = [events EXCEPT ![x] = {"in"}]
          /\ channels' = channels \cup {f}
          /\ epoll' = UpdateChannel(f, x, {"in"})
  /\ UNCHANGED <<asked, unread, hung, got, inbuf, out, loopPc, cur, work, leftover,
                 functors, batch, spent>>

\* connections_ after handleClose, that is, after RpcServer's close callback.
KeepClosed(x) == connections
SweepClosed(x) == {y \in connections : hung[y] = "no"}
WithoutClosed(x) == connections \ {x}

\* What the loop's thread does next after it has touched a destroyed Channel: undefined,
\* so it goes on or the process dies.
AfterDeadAccess == {"dispatch", "crashed"}

\* An event for a Channel that no longer exists.
DispatchDead(e) ==
  /\ loopPc = "dispatch" /\ e \in ready /\ e.ch # Listener
  /\ obj[e.ch] # "alive"
  /\ ready' = AfterEvent(e)
  /\ loopPc' \in AfterDeadAccess
  /\ UNCHANGED <<kernelVars, objectVars, cur, work, leftover, functors, batch, spent>>

\* Channel::handleEvent that closes at once: an error, or a hang-up with nothing to read.
DispatchError(e) ==
  /\ loopPc = "dispatch" /\ e \in ready /\ e.ch # Listener
  /\ obj[e.ch] = "alive"
  /\ ("hup" \in e.rev /\ "in" \notin e.rev) \/ "err" \in e.rev
  /\ ready' = AfterEvent(e)
  /\ connections' = WithoutClosed(e.ch)
  /\ UNCHANGED <<loopPc, cur, work, leftover, functors, batch, spent>>
  /\ ReleaseInLoop
  /\ UNCHANGED <<waiting, asked, unread, hung, got, fdOf, inbuf, out>>

\* Channel::handleEvent up to the end of TcpConnection::handleRead, or up to the call of
\* messageCallback_ if something was read.
DispatchRead(e) ==
  /\ loopPc = "dispatch" /\ e \in ready /\ e.ch # Listener
  /\ obj[e.ch] = "alive"
  /\ ~(("hup" \in e.rev /\ "in" \notin e.rev) \/ "err" \in e.rev)
  /\ ready' = AfterEvent(e)
  /\ cur' = {e}
  /\ LET x == e.ch
     IN \/ /\ "in" \in e.rev /\ unread[x] # <<>>
           /\ \E n \in 1 .. Len(unread[x]) :
                /\ inbuf' = [inbuf EXCEPT ![x] = @ \o SubSeq(unread[x], 1, n)]
                /\ unread' = [unread EXCEPT ![x] = SubSeq(@, n + 1, Len(@))]
           /\ loopPc' = "decode"
           /\ UNCHANGED <<connections, obj, events, files, epoll, channels>>
        \/ \* read() returns 0 or ECONNRESET
           /\ "in" \in e.rev /\ unread[x] = <<>> /\ hung[x] # "no"
           /\ loopPc' = "afterRead"
           /\ connections' = WithoutClosed(x)
           /\ UNCHANGED <<work, leftover, functors, batch, spent>>
           /\ ReleaseInLoop
           /\ UNCHANGED <<inbuf, unread>>
        \/ \* nothing was asked of read(), or EAGAIN
           /\ "in" \notin e.rev \/ (unread[x] = <<>> /\ hung[x] = "no")
           /\ loopPc' = "afterRead"
           /\ UNCHANGED <<inbuf, unread, connections, obj, events, files, epoll, channels>>
  /\ UNCHANGED <<waiting, asked, hung, got, fdOf, out, work, leftover, functors, batch,
                 spent>>

\* One turn of the loop in RpcServer::onMessage: a request goes to the pool, or is
\* answered with WRONG_PROTO at once.
Decode(e) ==
  LET x == e.ch
      r == Head(inbuf[x])
  IN /\ loopPc = "decode" /\ e \in cur
     /\ inbuf[x] # <<>> /\ Kind[x][r.id] # "empty"
     /\ inbuf' = [inbuf EXCEPT ![x] = Tail(@)]
     /\ \/ /\ Kind[x][r.id] = "ok"
           /\ work' = work \cup {r}
           /\ UNCHANGED <<out, got, events, epoll>>
        \/ /\ Kind[x][r.id] = "malformed"
           /\ Send(x, r)
           /\ UNCHANGED work
     /\ UNCHANGED <<waiting, files, asked, unread, hung, obj, fdOf, connections, channels,
                    loopPc, ready, cur, leftover, functors, batch, spent>>

\* onMessage breaks when no message is left, or at a message without bytes, which is
\* consumed. handleRead returns and its shared_ptr is gone.
EndMessages(e) ==
  LET x == e.ch
  IN /\ loopPc = "decode" /\ e \in cur
     /\ inbuf[x] # <<>> => Kind[x][Head(inbuf[x]).id] = "empty"
     /\ inbuf' = [inbuf EXCEPT ![x] = IF @ = <<>> THEN @ ELSE Tail(@)]
     /\ loopPc' = "afterRead"
     /\ UNCHANGED <<connections, ready, cur, work, leftover, functors, batch, spent>>
     /\ ReleaseInLoop
     /\ UNCHANGED <<waiting, asked, unread, hung, got, fdOf, out>>

\* The rest of Channel::handleEvent: revents_ is read again, and if the socket is writable
\* TcpConnection::handleWrite runs.
AfterRead(e) ==
  /\ loopPc = "afterRead" /\ e \in cur
  /\ cur' = {}
  /\ LET x == e.ch
     IN \/ /\ obj[x] # "alive"
           /\ loopPc' \in AfterDeadAccess
           /\ UNCHANGED <<got, out, events, epoll>>
        \/ /\ obj[x] = "alive"
           /\ loopPc' = "dispatch"
           /\ \/ /\ "out" \notin e.rev
                 /\ UNCHANGED <<got, out, events, epoll>>
              \/ \* the client is gone and write() fails
                 /\ "out" \in e.rev /\ hung[x] # "no" /\ out[x] # <<>>
                 /\ UNCHANGED <<got, out, events, epoll>>
              \/ /\ "out" \in e.rev
                 /\ \E n \in 0 .. Len(out[x]) :
                      /\ n = 0 => out[x] = <<>>
                      /\ got' = Written(x, SubSeq(out[x], 1, n))
                      /\ out' = [out EXCEPT ![x] = SubSeq(@, n + 1, Len(@))]
                      /\ IF n < Len(out[x])
                         THEN UNCHANGED <<events, epoll>>
                         ELSE /\ events' = [events EXCEPT ![x] = @ \ {"out"}]
                              /\ epoll' = UpdateChannel(fdOf[x], x, events[x] \ {"out"})
  /\ UNCHANGED <<waiting, files, asked, unread, hung, obj, fdOf, inbuf, connections,
                 channels, ready, work, leftover, functors, batch, spent>>

\* pendingFunctors_ after doPendingFunctors has swapped it out.
KeepPending == functors
AfterSwap == <<>>

\* doPendingFunctors, after the events of the poll.
Swap ==
  /\ loopPc = "dispatch" /\ ready = {}
  /\ loopPc' = "run"
  /\ batch' = functors
  /\ functors' = AfterSwap
  /\ UNCHANGED <<kernelVars, objectVars, ready, cur, work, leftover, spent>>

RunFunctor ==
  /\ loopPc = "run" /\ batch # <<>>
  /\ LET r == Head(batch)
     IN /\ batch' = Tail(batch)
        /\ spent' = spent \cup {r}
        /\ Send(r.conn, r)
  /\ UNCHANGED <<waiting, files, asked, unread, hung, obj, fdOf, inbuf, connections,
                 channels, loopPc, ready, cur, work, leftover, functors>>

\* The vector of functors is destroyed.
EndBatch ==
  /\ loopPc = "run" /\ batch = <<>>
  /\ loopPc' = "poll"
  /\ spent' = {}
  /\ UNCHANGED <<connections, ready, cur, work, leftover, functors, batch>>
  /\ ReleaseInLoop
  /\ UNCHANGED <<waiting, asked, unread, hung, got, fdOf, inbuf, out>>
-----------------------------------------------------------------------------
(* The workers of the pool.                                                *)

\* A task runs the method, whatever dispatchRequest answers, and queues the sending of
\* the response: a worker is never the thread that constructed the loop.
WorkerRun(r) ==
  /\ loopPc # "crashed" /\ r \in work
  /\ work' = work \ {r}
  /\ leftover' = leftover \cup {r}
  /\ functors' = Append(functors, r)
  /\ UNCHANGED <<kernelVars, objectVars, loopPc, ready, cur, batch, spent>>

\* The worker destroys its task. If that was the last reference, ~TcpConnection runs
\* here; this is ~Channel, which calls updateChannel.
WorkerDrop(r) ==
  LET x == r.conn
  IN /\ loopPc # "crashed" /\ r \in leftover
     /\ leftover' = leftover \ {r}
     /\ UNCHANGED <<connections, loopPc, ready, cur, work, functors, batch, spent>>
     /\ IF obj[x] = "alive" /\ ~Held(x)'
        THEN /\ obj' = [obj EXCEPT ![x] = "removed"]
             /\ events' = [events EXCEPT ![x] = {}]
             /\ epoll' = UpdateChannel(fdOf[x], x, {})
        ELSE UNCHANGED <<obj, events, epoll>>
     /\ UNCHANGED <<waiting, files, asked, unread, hung, got, fdOf, inbuf, out, channels>>

\* The other half, ~Socket.
CloseForgotten(x) ==
  /\ obj[x] = "removed"
  /\ obj' = [obj EXCEPT ![x] = "freed"]
  /\ UNCHANGED <<kernelVars, fdOf, events, inbuf, out, connections, channels, threadVars>>
WorkerClose(x) ==
  /\ loopPc # "crashed" /\ obj[x] = "removed"
  /\ obj' = [obj EXCEPT ![x] = "freed"]
  /\ files' = [files EXCEPT ![fdOf[x]] = NoConn]
  /\ epoll' = [epoll EXCEPT ![fdOf[x]] = NoReg]
  /\ UNCHANGED <<waiting, asked, unread, hung, got, fdOf, events, inbuf, out, connections,
                 channels, threadVars>>
-----------------------------------------------------------------------------
LoopStep ==
  \/ Poll
  \/ \E e \in ready : Accept(e) \/ DispatchDead(e) \/ DispatchError(e) \/ DispatchRead(e)
  \/ \E e \in cur : Decode(e) \/ EndMessages(e) \/ AfterRead(e)
  \/ Swap \/ RunFunctor \/ EndBatch

Client(x) == Connect(x) \/ Ask(x) \/ HangUp(x)

Worker(r) == WorkerRun(r) \/ WorkerDrop(r)

\* Threads do not run after the process has died; a server with nothing to do waits.
Idle ==
  /\ \/ loopPc = "crashed"
     \/ loopPc = "poll" /\ Ready = {} /\ functors = <<>> /\ work = {} /\ leftover = {}
  /\ UNCHANGED vars

Next ==
  \/ LoopStep
  \/ \E x \in Conns : Client(x) \/ WorkerClose(x)
  \/ \E r \in Request : Worker(r)
  \/ Idle

Spec == Init /\ [][Next]_vars

\* The loop's thread and the workers run, and service methods return. Nothing is assumed
\* of clients.
FairSpec ==
  /\ Spec
  /\ WF_vars(LoopStep)
  /\ \A r \in Request : WF_vars(Worker(r))
  /\ \A x \in Conns : WF_vars(WorkerClose(x))
-----------------------------------------------------------------------------
(* Properties.                                                             *)

\* Type invariant.
TypeOK ==
  /\ waiting \subseteq Conns
  /\ files \in [Fds -> Conns \cup {NoConn}]
  /\ epoll \in [Fds -> Registration]
  /\ asked \in [Conns -> Nat]
  /\ unread \in [Conns -> Seq(Request)]
  /\ hung \in [Conns -> {"no", "fin", "rst"}]
  /\ got \in [Conns -> Seq(Request)]
  /\ obj \in [Conns -> {"none", "alive", "removed", "freed"}]
  /\ fdOf \in [Conns -> Fds \cup {NoFd}]
  /\ events \in [Conns -> SUBSET {"in", "out"}]
  /\ inbuf \in [Conns -> Seq(Request)]
  /\ out \in [Conns -> Seq(Request)]
  /\ connections \subseteq Conns
  /\ channels \subseteq Fds
  /\ loopPc \in {"poll", "dispatch", "decode", "afterRead", "run", "crashed"}
  /\ ready \subseteq Event
  /\ cur \subseteq Event
  /\ work \subseteq Request
  /\ leftover \subseteq Request
  /\ functors \in Seq(Request)
  /\ batch \in Seq(Request)
  /\ spent \subseteq Request

\* A response never reaches another client, although a worker may still be running the
\* request of a client that has hung up while the kernel gives its descriptor to the next
\* one: every task and functor keeps the connection, and with it the descriptor, open.
ResponseReachesItsClient == \A x \in Conns : \A r \in Range(got[x]) : r.conn = x

\* Where the request r or its response is found.
Places(r) ==
  {<<"work", q>> : q \in work \cap {r}}
  \cup {<<"functors", k>> : k \in {j \in DOMAIN functors : functors[j] = r}}
  \cup {<<"batch", k>> : k \in {j \in DOMAIN batch : batch[j] = r}}
  \cup UNION {{<<"unread", x, k>> : k \in {j \in DOMAIN unread[x] : unread[x][j] = r}}
              \cup {<<"inbuf", x, k>> : k \in {j \in DOMAIN inbuf[x] : inbuf[x][j] = r}}
              \cup {<<"out", x, k>> : k \in {j \in DOMAIN out[x] : out[x][j] = r}}
              \cup {<<"got", x, k>> : k \in {j \in DOMAIN got[x] : got[x][j] = r}}
              : x \in Conns}

\* Each request of a client that stays is in exactly one place on its way from the socket
\* through the pool, pendingFunctors_ and outputBuffer_ back to the client: none is lost
\* or answered twice.
RequestInOnePlace ==
  \A x \in Conns : \A r \in Asks(x) :
    hung[x] = "no" /\ r.id <= asked[x] /\ Kind[x][r.id] # "empty"
      => Cardinality(Places(r)) = 1

\* The loop's thread never leaves an event in the batch of epoll_wait that points to a
\* Channel it has destroyed itself: a handler destroys its own connection only, and
\* functors run after the events. A Channel destroyed by a worker is another matter.
LoopLeavesNoDanglingEvent ==
  [][\A x \in Conns :
       obj[x] = "alive" /\ obj'[x] = "freed" => \A e \in ready' : e.ch # x]_vars

\* What epoll holds of a descriptor follows the descriptor, whichever thread destroys its
\* connection: it is the registration of the connection that has it now, never of one that
\* had it before, with the events that one asks for. ~Channel only clears the events
\* (Channel::remove, Channel.cpp:28) and ~Socket's close ends the registration. In between,
\* when a worker destroys the connection, epoll holds a Channel that is gone, although
\* Channel.h:33 says that remove() takes it out; it then asks for nothing.
RegistrationIsCurrent ==
  \A f \in Fds : epoll[f].ch # NoConn =>
    /\ files[f] = epoll[f].ch
    /\ obj[files[f]] \in {"alive", "removed"}
    /\ epoll[f].mask = events[files[f]]
    /\ obj[files[f]] = "removed" => events[files[f]] = {}

Registered(x) == obj[x] = "alive" /\ epoll[fdOf[x]].ch = x

\* A registered connection whose client has hung up is destroyed and its descriptor given
\* back, however many of its requests are still with the workers.
HungUpIsReleased ==
  \A x \in Conns : (Registered(x) /\ hung[x] # "no") ~> (obj[x] = "freed" \/ loopPc = "crashed")

\* A request on a registered connection is answered, unless its client hangs up or a
\* request without bytes comes before it, at which onMessage stops decoding.
RequestIsAnswered ==
  \A x \in Conns : \A r \in {q \in Asks(x) : \A i \in 1 .. q.id : Kind[x][i] # "empty"} :
    (Registered(x) /\ asked[x] >= r.id)
      ~> (hung[x] # "no" \/ loopPc = "crashed" \/ r \in Range(got[x]))

\* TcpConnection.cpp:25: connectEstablished registers the connection with epoll.
EstablishedIsRegistered == \A x \in connections : Registered(x)

\* TcpConnection.cpp:69: the object may have been destroyed in the close callback, and is
\* not accessed after that.
DestroyedIsNotAccessed == loopPc = "afterRead" => \A e \in cur : obj[e.ch] = "alive"
=============================================================================

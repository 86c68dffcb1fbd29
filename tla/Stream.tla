-------------------------------- MODULE Stream --------------------------------
(***************************************************************************)
(* One direction of a connection, byte by byte: TcpConnection::send and    *)
(* handleWrite at one end, the socket, handleRead and the decoding of      *)
(* frames at the other. Writes take part of what they are offered, reads   *)
(* return any part of what has arrived.                                    *)
(*                                                                         *)
(* side tells who sends. The server sends in its loop's thread only, and   *)
(* the client at the other end decodes one frame per read (onRpcResponse). *)
(* The client sends from any thread, without a lock; the server decodes    *)
(* all it has (onMessage). As long as the socket takes each request whole, *)
(* no client thread writes to outputBuffer_. From the first write that     *)
(* falls short on, several threads may be in outputBuffer_ at once, which  *)
(* is undefined, and nothing further is modelled (torn).                   *)
(***************************************************************************)
EXTENDS RpcCodec, Functions

CONSTANTS
  Payloads,   \* the messages that may be sent, <<>> among them
  MaxSends,   \* how many are sent
  Room        \* Room[s]: how many bytes the socket holds when s sends

Sides == {"server", "client"}

ASSUME StreamAssumption ==
  /\ Payloads \subseteq Seq(Byte)
  /\ \A data \in Payloads : IdSize + Len(data) <= MaxLen
  /\ MaxSends \in Nat /\ MaxSends < Base ^ IdSize
  /\ Room \in [Sides -> Nat]

VARIABLES
  side,       \* who sends
  out,        \* outputBuffer_ of the sender
  writing,    \* EPOLLOUT is asked for
  pipe,       \* the bytes in the socket
  in,         \* inputBuffer_ of the receiver
  decoding,   \* the receiver is in its message callback
  torn,       \* a client's write has fallen short
  sent,       \* the messages sent, in order (history)
  stream,     \* their frames (history)
  eaten,      \* the bytes the receiver has taken out of its buffer (history)
  received    \* the messages the receiver has got, in order

vars == <<side, out, writing, pipe, in, decoding, torn, sent, stream, eaten, received>>

Init ==
  /\ side \in Sides
  /\ out = NewBuffer
  /\ writing = FALSE
  /\ pipe = <<>>
  /\ in = NewBuffer
  /\ decoding = FALSE
  /\ torn = FALSE
  /\ sent = <<>>
  /\ stream = <<>>
  /\ eaten = <<>>
  /\ received = <<>>

Free == Room[side] - Len(pipe)

\* The next message, with its id, joins those sent.
Message(data) == [id |-> Len(sent) + 1, data |-> data]
Frame(data) == packWithId(Len(sent) + 1, data)
Record(data) ==
  /\ Len(sent) < MaxSends
  /\ sent' = Append(sent, Message(data))
  /\ stream' = stream \o Frame(data)

DoNotEnable == UNCHANGED writing
EnableWriting == writing' = TRUE
-----------------------------------------------------------------------------
(* The sender.                                                             *)

\* send() with an empty outputBuffer_: write() takes n bytes, the rest is buffered.
SendDirect(data) ==
  /\ side = "server"
  /\ Record(data)
  /\ readableBytes(out) = 0
  /\ \E n \in 1 .. Len(Frame(data)) :
       LET rest == SubSeq(Frame(data), n + 1, Len(Frame(data)))
       IN /\ n <= Free
          /\ pipe' = pipe \o SubSeq(Frame(data), 1, n)
          /\ IF n < Len(Frame(data))
             THEN out' = append(out, rest) /\ EnableWriting
             ELSE UNCHANGED <<out, writing>>
  /\ UNCHANGED <<side, in, decoding, torn, eaten, received>>

\* send() with something buffered before it, or a write() that fails with EAGAIN.
SendBuffered(data) ==
  /\ side = "server"
  /\ Record(data)
  /\ readableBytes(out) > 0 \/ Free = 0
  /\ out' = append(out, Frame(data))
  /\ EnableWriting
  /\ UNCHANGED <<side, pipe, in, decoding, torn, eaten, received>>

\* A client thread's send(): outputBuffer_ is empty, and write() takes the whole frame.
\* A request names its service and method, so it has bytes.
SendRequest(data) ==
  /\ side = "client" /\ ~torn
  /\ data # <<>>
  /\ Record(data)
  /\ Len(Frame(data)) <= Free
  /\ pipe' = pipe \o Frame(data)
  /\ UNCHANGED <<side, out, writing, in, decoding, torn, eaten, received>>

\* A client thread's write() falls short.
FallShort ==
  /\ side = "client" /\ ~torn
  /\ Len(sent) < MaxSends
  /\ torn' = TRUE
  /\ UNCHANGED <<side, out, writing, pipe, in, decoding, sent, stream, eaten, received>>

\* channel_->disableWriting() once everything is written.
KeepWriting(b) == UNCHANGED writing
DisableIfDone(b) == writing' = (readableBytes(b) > 0)

\* The socket takes bytes again: handleWrite.
HandleWrite ==
  /\ ~torn
  /\ writing /\ Free > 0
  /\ \E n \in 0 .. readableBytes(out) :
       /\ n <= Free
       /\ n = 0 => readableBytes(out) = 0
       /\ pipe' = pipe \o SubSeq(Contents(out), 1, n)
       /\ out' = IF n > 0 THEN retrieve(out, n) ELSE out
       /\ DisableIfDone(out')
  /\ UNCHANGED <<side, in, decoding, torn, sent, stream, eaten, received>>
-----------------------------------------------------------------------------
(* The receiver.                                                           *)

\* handleRead.
Read ==
  /\ ~torn /\ ~decoding
  /\ \E n \in 1 .. Len(pipe) :
       /\ n <= writableBytes(in) + ExtraSize
       /\ in' = readFd(in, SubSeq(pipe, 1, n))
       /\ pipe' = SubSeq(pipe, n + 1, Len(pipe))
  /\ decoding' = TRUE
  /\ UNCHANGED <<side, out, writing, torn, sent, stream, eaten, received>>

\* Whether the message callback goes on after a message: onMessage does, onRpcResponse not.
DecodesOne == FALSE
DecodesAll == side = "client"

\* One call of tryUnpackWithId. An empty string ends the callback.
Decode ==
  /\ ~torn /\ decoding
  /\ LET r == tryUnpackWithId(in)
     IN /\ in' = r.buf
        /\ eaten' = eaten \o SubSeq(Contents(in), 1, readableBytes(in) - readableBytes(r.buf))
        /\ IF r.data = <<>>
           THEN decoding' = FALSE /\ UNCHANGED received
           ELSE /\ received' = Append(received, [id |-> r.id, data |-> r.data])
                /\ decoding' = DecodesAll
  /\ UNCHANGED <<side, out, writing, pipe, torn, sent, stream>>
-----------------------------------------------------------------------------
\* Everything is sent and the threads wait, or nothing is known any more.
Idle ==
  /\ torn \/ (Len(sent) = MaxSends /\ ~decoding /\ ~writing /\ pipe = <<>>)
  /\ UNCHANGED vars

Next ==
  \/ \E data \in Payloads : SendDirect(data) \/ SendBuffered(data) \/ SendRequest(data)
  \/ FallShort \/ HandleWrite \/ Read \/ Decode \/ Idle

Spec == Init /\ [][Next]_vars

\* The loops at both ends run. Nothing makes anybody send.
FairSpec == Spec /\ WF_vars(HandleWrite) /\ WF_vars(Read) /\ WF_vars(Decode)
-----------------------------------------------------------------------------
(* Properties.                                                             *)

\* Type invariant; the indices of both buffers stay in order and inside the vector.
TypeOK ==
  /\ side \in Sides
  /\ out \in BufferType
  /\ writing \in BOOLEAN
  /\ pipe \in Seq(Byte)
  /\ in \in BufferType
  /\ decoding \in BOOLEAN
  /\ torn \in BOOLEAN
  /\ sent \in Seq([id : Nat, data : Payloads])
  /\ stream \in Seq(Byte)
  /\ eaten \in Seq(Byte)
  /\ received \in Seq([id : Nat, data : Seq(Byte)])

\* No byte is lost, doubled or moved between send() and the decoder, through short
\* writes, outputBuffer_ growing and moving its contents, reads that end anywhere and
\* readFd's second vector.
StreamIntact == stream = eaten \o Contents(in) \o pipe \o Contents(out)

\* The receiver gets the messages that were sent, each whole, once and with its id, in
\* order: of the first k all but those without bytes, and nothing else. However the reads
\* cut the stream, no frame is taken before it is complete and none is mistaken for another.
ReceivedAsSent ==
  \E k \in 0 .. Len(sent) :
    /\ Range(received) = {sent[i] : i \in {j \in 1 .. k : sent[j].data # <<>>}}
    /\ \A i, j \in 1 .. Len(received) : i < j => received[i].id < received[j].id

\* EPOLLOUT is asked for exactly while something is buffered: asked for longer, the loop
\* would spin on a writable socket; shorter, the bytes would stay.
WritesWhilePending == writing <=> readableBytes(out) > 0

\* What is in outputBuffer_ and in the socket gets to the receiver's buffer.
OutputDrains == []<>(torn \/ (readableBytes(out) = 0 /\ pipe = <<>>))

\* The server gets every request, also those that came in one read.
RequestsArrive == side = "client" => []<>(torn \/ received = sent)
=============================================================================

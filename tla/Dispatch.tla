------------------------------- MODULE Dispatch -------------------------------
(***************************************************************************)
(* A call from the caller's message to the server's method and back, by    *)
(* what becomes of the messages: how the channel wraps the arguments,      *)
(* how RpcServer::onMessage and dispatchRequest take them apart, find the  *)
(* service, call it and wrap the result or an error, and what onRpcResponse*)
(* and the caller make of the answer. Who sends what over which connection *)
(* and when is the subject of RpcChannel and RpcServer; here frames arrive.*)
(*                                                                         *)
(* MathServiceImpl is modelled; UserService stands for any other service,  *)
(* whose method may return a message without bytes or throw.               *)
(***************************************************************************)
EXTENDS Protobuf

CONSTANTS
  Calls,      \* calls, each made at most once and run by a worker of its own
  Width,      \* the width of int32
  Texts,      \* the error messages made of the exceptions of the user's service
  TooLong,    \* texts with which a response is longer than a frame may be (64 MB)
  Unset       \* an argument the caller has not set

VARIABLES
  services,   \* services_ of RpcServiceRegistry
  server,     \* "new", "up" or "crashed"
  pc,         \* pc[c]: how far call c has come
  ask,        \* ask[c]: what the caller asks for
  wire,       \* wire[c]: the payload of the frame on its way, request or response
  task,       \* task[c]: the RpcRequest the pool's task holds
  answer,     \* answer[c]: the RpcResponse the caller has got
  result      \* result[c]: the caller's response message

vars == <<services, server, pc, ask, wire, task, answer, result>>

int32 == -(2 ^ (Width - 1)) .. 2 ^ (Width - 1) - 1
Wrap(n) == ((n + 2 ^ (Width - 1)) % 2 ^ Width) - 2 ^ (Width - 1)

Services == {"math.MathService", "user.UserService"}
Methods == {"Add", "Sub", "Void", "Throw"}
MethodsOf(s) == IF s = "math.MathService" THEN {"Add", "Sub"} ELSE {"Void", "Throw"}

\* Every exception is given a message, names in a .proto file are ASCII, and no text is
\* not a long one.
ASSUME DispatchAssumption ==
  /\ Width \in Nat \ {0}
  /\ Texts # {}
  /\ NotUtf8 \cap (Services \cup {"nobody"} \cup Methods) = {}
  /\ "" \notin TooLong

\* What may be asked for. "cut" is what a client other than this repository's channel may
\* have made of the header or of the arguments.
Asks ==
  [service : {"math.MathService"}, method : {"Add"}, cut : {"nothing"},
   a : int32 \cup {Unset}, b : int32 \cup {Unset}]
  \cup [service : Services \cup {"nobody"}, method : Methods,
        cut : {"nothing", "header", "args"}, a : {0}, b : {1}]

Init ==
  /\ services = {}
  /\ server = "new"
  /\ pc = [c \in Calls |-> "new"]
  /\ ask = [c \in Calls |-> <<>>]
  /\ wire = [c \in Calls |-> <<>>]
  /\ task = [c \in Calls |-> New(RpcRequest)]
  /\ answer = [c \in Calls |-> New(RpcResponse)]
  /\ result = [c \in Calls |-> New(AddResponse)]

Error == [NO_ERROR |-> 0, WRONG_PROTO |-> 1, NO_SERVICE |-> 2, NO_METHOD |-> 3,
          INVALID_ARGUMENT |-> 4, INTERNAL_ERROR |-> 5]
-----------------------------------------------------------------------------
(* Start-up.                                                               *)

RegisterService(s) ==
  /\ server = "new"
  /\ services' = services \cup {s}
  /\ UNCHANGED <<server, pc, ask, wire, task, answer, result>>

Start ==
  /\ server = "new"
  /\ server' = "up"
  /\ UNCHANGED <<services, pc, ask, wire, task, answer, result>>
-----------------------------------------------------------------------------
(* The client.                                                             *)

\* The classes of the messages of the caller's stub; the methods of UserService take what
\* Add takes, and what they return has no fields set.
RequestOf(method) == IF method = "Sub" THEN SubRequest ELSE AddRequest
ResponseOf(method) == IF method = "Sub" THEN SubResponse ELSE AddResponse

\* The caller's arguments.
Arguments(q) ==
  LET C == RequestOf(q.method)
      withA == IF q.a = Unset THEN New(C) ELSE SetField(C, New(C), 1, q.a)
      args == IF q.b = Unset THEN withA ELSE SetField(C, withA, 2, q.b)
  IN Serialize(C, args) \o (IF q.cut = "args" THEN <<CutEntry>> ELSE <<>>)

\* The RpcRequest of doCall and doCallAsync.
MakeRequest(q) ==
  LET toService == SetField(RpcRequest, New(RpcRequest), 1, q.service)
      named == SetField(RpcRequest, toService, 2, q.method)
  IN Serialize(RpcRequest, SetField(RpcRequest, named, 3, Arguments(q)))
       \o (IF q.cut = "header" THEN <<CutEntry>> ELSE <<>>)

Send(c) ==
  /\ pc[c] = "new"
  /\ \E q \in Asks :
       /\ ask' = [ask EXCEPT ![c] = q]
       /\ wire' = [wire EXCEPT ![c] = MakeRequest(q)]
  /\ pc' = [pc EXCEPT ![c] = "sent"]
  /\ UNCHANGED <<services, server, task, answer, result>>

\* tryUnpackWithId's check of the length: of what a response holds, only the text of an
\* exception is ever too much for a frame.
FitsFrame(response) == Get(response, 2) \notin TooLong

\* onRpcResponse: a frame over the limit is thrown away, a payload without bytes looks like
\* an incomplete frame and one that does not parse is dropped, so that nobody hears of it.
\* The caller gets a copy.
OnRpcResponse(c) ==
  /\ pc[c] = "answered"
  /\ LET p == Parse(RpcResponse, wire[c])
     IN IF FitsFrame(p.msg) /\ wire[c] # <<>> /\ p.ok
        THEN /\ answer' = [answer EXCEPT ![c] = Copy(p.msg)]
             /\ pc' = [pc EXCEPT ![c] = "heard"]
        ELSE /\ pc' = [pc EXCEPT ![c] = "unheard"]
             /\ UNCHANGED answer
  /\ UNCHANGED <<services, server, ask, wire, task, result>>

\* The end of doCall: SetFailed, or the result is parsed into the caller's response.
TakeAnswer(c) ==
  /\ pc[c] = "heard"
  /\ IF Get(answer[c], 1) # Error.NO_ERROR
     THEN /\ pc' = [pc EXCEPT ![c] = "failed"]
          /\ UNCHANGED result
     ELSE /\ pc' = [pc EXCEPT ![c] = "ok"]
          /\ result' = [result EXCEPT ![c] =
                          Parse(ResponseOf(ask[c].method), Get(answer[c], 3)).msg]
  /\ UNCHANGED <<services, server, ask, wire, task, answer>>
-----------------------------------------------------------------------------
(* The server.                                                             *)

\* The answer to a payload that is not an RpcRequest.
WrongProtoForgotten == New(RpcResponse)
WrongProto == SetField(RpcResponse, New(RpcResponse), 1, Error.WRONG_PROTO)

\* onMessage.
OnMessage(c) ==
  /\ server = "up" /\ pc[c] = "sent"
  /\ LET p == Parse(RpcRequest, wire[c])
     IN IF p.ok
        THEN /\ task' = [task EXCEPT ![c] = p.msg]
             /\ pc' = [pc EXCEPT ![c] = "queued"]
             /\ UNCHANGED wire
        ELSE /\ wire' = [wire EXCEPT ![c] = Serialize(RpcResponse, WrongProto)]
             /\ pc' = [pc EXCEPT ![c] = "answered"]
             /\ UNCHANGED task
  /\ UNCHANGED <<services, server, ask, answer, result>>

findService(name) == name \in services

Failure(code, text) ==
  {SetField(RpcResponse, SetField(RpcResponse, New(RpcResponse), 1, code), 2, text)}

Success(bytes) ==
  {SetField(RpcResponse, SetField(RpcResponse, New(RpcResponse), 1, Error.NO_ERROR), 3, bytes)}

\* No response: a null pointer is followed and the process is killed.
Crash == {}

\* GetRequestPrototype and GetResponsePrototype of MathServiceImpl, for every method.
GetRequestPrototype == AddRequest
GetResponsePrototype == AddResponse

\* The parsed arguments.
ParseIgnored(bytes) == [Parse(GetRequestPrototype, bytes) EXCEPT !.ok = TRUE]
ParseArguments(bytes) == Parse(GetRequestPrototype, bytes)

\* dynamic_cast to the classes the method works on.
Casts(request, response) ==
  GetRequestPrototype.name = request.name /\ GetResponsePrototype.name = response.name

\* CallMethod of MathServiceImpl with Add and Sub. What is too large for int is undefined;
\* the compilers in use wrap it.
CallMath(method, args) ==
  LET Respond(C, n) == Success(Serialize(C, SetField(C, New(C), 1, Wrap(n))))
      a == Get(args, 1)
      b == Get(args, 2)
  IN CASE method = "Add" /\ Casts(AddRequest, AddResponse) -> Respond(AddResponse, a + b)
       [] method = "Sub" /\ Casts(SubRequest, SubResponse) -> Respond(SubResponse, a - b)
       [] OTHER -> Crash

\* The user's service: a response without bytes, or an exception derived from
\* std::exception, whose text is passed on, or another one.
CallUserUncaught(method) == IF method = "Void" THEN Success(<<>>) ELSE Crash
CallUser(method) ==
  IF method = "Void"
  THEN Success(<<>>)
  ELSE UNION {Failure(Error.INTERNAL_ERROR, text) : text \in Texts}

\* dispatchRequest: the responses it may return.
DispatchRequest(request) ==
  LET s == Get(request, 1)
      m == Get(request, 2)
      p == ParseArguments(Get(request, 3))
  IN CASE ~findService(s) -> Failure(Error.NO_SERVICE, "")
       [] findService(s) /\ m \notin MethodsOf(s) -> Failure(Error.NO_METHOD, "")
       [] findService(s) /\ m \in MethodsOf(s) /\ ~p.ok ->
            Failure(Error.INVALID_ARGUMENT, "")
       [] OTHER -> IF s = "math.MathService" THEN CallMath(m, p.msg) ELSE CallUser(m)

\* The pool's task.
RunTask(c) ==
  /\ server = "up" /\ pc[c] = "queued"
  /\ \/ \E response \in DispatchRequest(task[c]) :
          /\ wire' = [wire EXCEPT ![c] = Serialize(RpcResponse, response)]
          /\ pc' = [pc EXCEPT ![c] = "answered"]
          /\ UNCHANGED server
     \/ /\ DispatchRequest(task[c]) = Crash
        /\ server' = "crashed"
        /\ UNCHANGED <<pc, wire>>
  /\ UNCHANGED <<services, ask, task, answer, result>>
-----------------------------------------------------------------------------
Next ==
  \/ \E s \in Services : RegisterService(s)
  \/ Start
  \/ \E c \in Calls :
       Send(c) \/ OnMessage(c) \/ RunTask(c) \/ OnRpcResponse(c) \/ TakeAnswer(c)

Spec == Init /\ [][Next]_vars
-----------------------------------------------------------------------------
(* Properties.                                                             *)

\* The caller asks for method m of a service s that is registered, and nothing is cut off.
Reaches(c, s, m) ==
  /\ pc[c] # "new" /\ server # "new"
  /\ s \in services
  /\ ask[c].service = s /\ ask[c].method = m /\ ask[c].cut = "nothing"

\* Every call of Add that comes back brings the sum, and none fails or goes unheard: a sum
\* of zero too, which proto3's rule would leave out of AddResponse, then of RpcResponse,
\* until nothing is left on the wire, and arguments that were never set. This rests on the
\* has bits of AddResponse (math_service.pb.cc:510).
AddIsAnswered ==
  \A c \in Calls : Reaches(c, "math.MathService", "Add") =>
    LET Value(x) == IF x = Unset THEN 0 ELSE x
    IN /\ pc[c] \notin {"failed", "unheard"}
       /\ pc[c] = "ok" =>
            /\ Has(AddResponse, result[c], 1)
            /\ Get(result[c], 1) = Wrap(Value(ask[c].a) + Value(ask[c].b))

\* The first thing wrong with a request, in the order header, service, method, arguments.
Cause(q) ==
  CASE q.cut = "header" -> Error.WRONG_PROTO
    [] q.cut # "header" /\ q.service \notin services -> Error.NO_SERVICE
    [] q.cut # "header" /\ q.service \in services /\ q.method \notin MethodsOf(q.service) ->
         Error.NO_METHOD
    [] q.cut = "args" /\ q.service \in services /\ q.method \in MethodsOf(q.service) ->
         Error.INVALID_ARGUMENT
    [] OTHER -> IF q.method = "Throw" THEN Error.INTERNAL_ERROR ELSE Error.NO_ERROR

\* The error code the caller gets is that of the first thing wrong with its request, and a
\* request with nothing wrong gets none unless the method threw (onMessage,
\* dispatchRequest).
ErrorNamesTheCause ==
  \A c \in Calls : pc[c] \in {"failed", "ok"} => Get(answer[c], 1) = Cause(ask[c])

\* An answer the server has sent goes unheard in three cases only, and in each the caller
\* waits for its timeout: a method has returned a message without bytes, so that the whole
\* RpcResponse has none (rpc_codec.h:71, rpc_channel.cpp:224); an exception's text is not
\* UTF-8, which the server's serialiser lets pass and the client's parser does not
\* (rpc_header.pb.cc:605, rpc_header.pb.cc:557); or it is so long that the frame exceeds
\* what tryUnpackWithId accepts, which packWithId does not ask (rpc_codec.h:55).
UnheardOnlyIfMute ==
  \A c \in Calls : pc[c] = "unheard" =>
    \/ Reaches(c, "user.UserService", "Void")
    \/ Reaches(c, "user.UserService", "Throw") /\ Texts \cap (NotUtf8 \cup TooLong) # {}

\* Whatever else is asked for, and whatever the other workers are doing, the server
\* survives it. Sub, whose prototypes are those of Add (math_service_impl.h:45), kills it:
\* that is SubIsServed below, and it is the only method that does.
OnlySubCrashes ==
  server = "crashed" =>
    \E c \in Calls : pc[c] = "queued" /\ Reaches(c, "math.MathService", "Sub")

\* math_service.proto:22 and rpc_benchmark.cpp:261: Sub is a method to be called like Add.
SubIsServed ==
  \A c \in Calls : Reaches(c, "math.MathService", "Sub") => server # "crashed"
=============================================================================

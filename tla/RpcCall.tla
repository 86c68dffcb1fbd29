------------------------------- MODULE RpcCall -------------------------------
(***************************************************************************)
(* What a remote call promises its caller, whatever happens on the way:    *)
(*   - it ends at most once, with the server's answer or with a failure;   *)
(*   - an answer is only ever reported after the server ran the request,   *)
(*     though it may be one that the caller cannot read;                   *)
(*   - the server runs it at most Budget(c) times: once when the call is   *)
(*     asynchronous or not idempotent, MaxRetries + 1 times otherwise.     *)
(* A call that was reported as failed may still be run later, or may have  *)
(* been run already: a failure says nothing about the server.              *)
(***************************************************************************)
EXTENDS Integers

CONSTANTS
  Calls,        \* the calls made on a channel
  AsyncCalls,   \* the ones given a done closure
  Idempotent,   \* the ones whose controller allows a retry
  MaxRetries    \* CustomController::maxRetries(), a natural number

VARIABLES
  status,       \* status[c]: where the caller of c stands
  execs         \* execs[c]: how often a server ran a request of c

callVars == <<status, execs>>

\* How many requests a call may send: doCallAsync sends one, CallMethod's loop
\* one per attempt.
Budget(c) == IF c \in AsyncCalls \/ c \notin Idempotent THEN 1 ELSE MaxRetries + 1

CallInit ==
  /\ status = [c \in Calls |-> "idle"]
  /\ execs = [c \in Calls |-> 0]

Invoke(c) ==
  /\ status[c] = "idle"
  /\ status' = [status EXCEPT ![c] = "calling"]
  /\ UNCHANGED execs

Execute(c) ==
  /\ status[c] # "idle"
  /\ execs[c] < Budget(c)
  /\ execs' = [execs EXCEPT ![c] = @ + 1]
  /\ UNCHANGED status

ReturnOk(c) ==
  /\ status[c] = "calling"
  /\ execs[c] > 0
  /\ status' = [status EXCEPT ![c] = "ok"]
  /\ UNCHANGED execs

ReturnFailed(c) ==
  /\ status[c] = "calling"
  /\ status' = [status EXCEPT ![c] = "failed"]
  /\ UNCHANGED execs

\* CallMethod with a controller that is not a CustomController fails at once.
Reject(c) ==
  /\ status[c] = "idle"
  /\ status' = [status EXCEPT ![c] = "failed"]
  /\ UNCHANGED execs

CallNext ==
  \E c \in Calls :
    Invoke(c) \/ Execute(c) \/ ReturnOk(c) \/ ReturnFailed(c) \/ Reject(c)

CallSpec == CallInit /\ [][CallNext]_callVars
=============================================================================

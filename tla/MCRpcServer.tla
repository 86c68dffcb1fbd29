----------------------------- MODULE MCRpcServer -----------------------------
(* Instances of RpcServer for TLC: how many clients, descriptors and requests, *)
(* and which requests can be parsed.                                           *)
EXTENDS RpcServer, TLC

CONSTANTS c1, c2

\* One request for the pool each.
AllGood == [x \in Conns |-> <<"ok">>]

\* c1 sends one that cannot be parsed, c2 one for the pool before one without bytes.
Mixed == [x \in Conns |-> IF x = c1 THEN <<"malformed">> ELSE <<"ok", "empty">>]
=============================================================================

---------------------------- MODULE MCRpcChannel ----------------------------
(* Instances of RpcChannel for TLC: which calls there are and of which kind. *)
EXTENDS RpcChannel, TLC

CONSTANTS retried, once, async1, async2, foreign

\* A call that may be retried, one that must not be, an asynchronous one, and one whose
\* controller is not a CustomController.
AllCalls == {retried, once, async1, foreign}

\* Two asynchronous calls.
PairCalls == {async1, async2}
=============================================================================

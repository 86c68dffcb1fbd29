----------------------------- MODULE MCEventLoop -----------------------------
(* Instances of EventLoop for TLC: which tasks queue a further one.           *)
EXTENDS EventLoop, TLC

CONSTANTS f1, f2, f3

\* f1 queues f3 when it runs, the others queue nothing.
ThreeTasks == {f1, f2, f3}
Chain == [f \in ThreeTasks |-> IF f = f1 THEN f3 ELSE NoTask]
=============================================================================

----------------------------- MODULE MCDiscovery -----------------------------
(* Instances of Discovery for TLC: two threads with one client, or with    *)
(* one each.                                                               *)
EXTENDS Discovery, TLC

CONSTANTS t1, t2, k1, k2, k3

Shared == {t1 :> k1 @@ t2 :> k1}
Apart == {t1 :> k2 @@ t2 :> k3}
SharedOrNot == Shared \cup Apart
Balancers == [c \in Clients |-> IF c = k1 THEN "ROUND_ROBIN" ELSE "RANDOM"]
=============================================================================

------------------------------- MODULE MCStream -------------------------------
(* Instance of Stream for TLC: bytes of four values, a length of two bytes and an *)
(* id of one, so that a frame has three to five bytes; sockets and buffers of     *)
(* about one frame.                                                               *)
EXTENDS Stream

FourValues == 0 .. 3
NoneOneTwo == {<<>>, <<2>>, <<3, 1>>}
SmallOrLarge == [s \in Sides |-> IF s = "server" THEN 3 ELSE 10]
=============================================================================

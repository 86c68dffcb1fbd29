------------------------------ MODULE MCDispatch ------------------------------
(* Instance of Dispatch for TLC.                                               *)
EXTENDS Dispatch
=============================================================================

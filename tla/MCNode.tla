------------------------------- MODULE MCNode -------------------------------
(***************************************************************************)
(* NodeTask on a superstep of a task that asks two questions and one that  *)
(* asks none.                                                              *)
(***************************************************************************)
EXTENDS NodeTask

MCAsksOne == [a |-> <<"k1", "k2">>, c |-> <<>>]
=============================================================================

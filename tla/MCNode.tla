------------------------------- MODULE MCNode -------------------------------
(***************************************************************************)
(* Node on small instances.  Requests are interchangeable: nothing in   *)
(* the model orders their ids (PublishRank only sets how long a wait is).  *)
(***************************************************************************)
EXTENDS Node, TLC
RequestSymmetry == Permutations(Requests)
=============================================================================

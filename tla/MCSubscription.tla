--------------------------- MODULE MCSubscription ---------------------------
(***************************************************************************)
(* Subscription on a small instance.                                       *)
(***************************************************************************)
EXTENDS Subscription
=============================================================================

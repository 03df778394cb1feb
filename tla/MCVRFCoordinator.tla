-------------------------- MODULE MCVRFCoordinator --------------------------
(***************************************************************************)
(* VRFCoordinator on small instances.                                      *)
(***************************************************************************)
EXTENDS VRFCoordinator, TLC

CONSTANTS a1, a2

Fee(b) == [base |-> b, perWord |-> 0, perGas |-> 0]
CapTwo == Fee(2)
FreeTier == Fee(0)
FeeOne == Fee(1)
(* The ceiling, and a price above it. *)
TwoAndAbove == {Fee(2), Fee(3)}
NoFeeChange == {}
(* The hash of two consumers' nonces, in an order unlike that of the calls. *)
HashOne == (<<a1, 0>> :> 2 @@ <<a2, 0>> :> 1)
HashTwo == (<<a1, 0>> :> 3 @@ <<a1, 1>> :> 1 @@ <<a2, 0>> :> 2 @@ <<a2, 1>> :> 4)
=============================================================================

---------------------------- MODULE CallbackGas ----------------------------
(***************************************************************************)
(* The gas of one fulfilment transaction: src/src/VRFCoordinator.sol's      *)
(* check of gasleft(), the pairing and the settlement that come after it,   *)
(* and the call that hands the rest to the consumer; and the gas limit the  *)
(* daemon puts on the transaction (FulfilGasLimit in                        *)
(* src/node/internal/chain/chain.go).                                       *)
(*                                                                         *)
(* What the steps cost is measured in the repository's benchmarks; here the *)
(* costs are parameters.  A step that runs out of gas undoes the            *)
(* transaction.                                                             *)
(***************************************************************************)
EXTENDS Integers

CONSTANTS
  POST_CALLBACK_GAS,
  FulfilOverhead,
  EntryCost,       \* paid before the check: intrinsic gas, calldata, first reads
  VerifyCost,      \* paid between the check and the call: verifier.verify
  SettleCost,      \* and words, settlement and payload, by the number of words
  CreditCosts,     \* and, on top, the publisher's credit: more when it was zero
  RecordCost,      \* paid after the call: callbackSucceeded and the event
  GasLimits,       \* callbackGasLimit of the requests considered
  WordCounts,      \* and their numWords
  DefaultGasLimit,
  GasSettings      \* gasLimit of those who publish

ASSUME GasAssumption ==
  /\ {POST_CALLBACK_GAS, FulfilOverhead, EntryCost, VerifyCost, RecordCost} \subseteq Nat
  /\ SettleCost \in [WordCounts -> Nat]
  /\ CreditCosts \subseteq Nat
  /\ GasLimits \subseteq Nat
  /\ DefaultGasLimit \in Nat
  /\ GasSettings \subseteq Nat

VARIABLES
  limit,     \* request.callbackGasLimit
  numWords,  \* request.numWords
  credit,    \* what writing the publisher's credit will cost beyond the usual
  gasleft,
  pc,        \* the next step, or how it ended
  received   \* gas the consumer was called with

requestVars == <<limit, numWords, credit>>
gasVars == <<requestVars, gasleft, pc, received>>

(* Mutants: the budget added as it is; only the verification on top of it. *)
UnscaledLimit(callbackGasLimit) == callbackGasLimit + FulfilOverhead

VerifyOnlyLimit(callbackGasLimit) == (callbackGasLimit * 64) \div 63 + VerifyCost

FulfilGasLimit(callbackGasLimit) == (callbackGasLimit * 64) \div 63 + FulfilOverhead

(* The limit a client puts on the transaction: one of its own, or the
   request's.  An explicit limit that equals the default is not told apart. *)
TxGas(gasLimit, callbackGasLimit) ==
  IF gasLimit # DefaultGasLimit THEN gasLimit ELSE FulfilGasLimit(callbackGasLimit)

GasInit ==
  /\ limit \in GasLimits
  /\ numWords \in WordCounts
  /\ credit \in CreditCosts
  /\ \E g \in GasSettings : gasleft = TxGas(g, limit)
  /\ pc = "enter"
  /\ received = 0

(* A step that costs this much, or the end of the transaction. *)
Pay(cost, step) ==
  IF gasleft >= cost
  THEN gasleft' = gasleft - cost /\ pc' = step
  ELSE gasleft' = 0 /\ pc' = "reverted"

Reach ==
  /\ pc = "enter"
  /\ Pay(EntryCost, "check")
  /\ UNCHANGED <<requestVars, received>>

(* if (gasleft() < limit * 64 / 63 + POST_CALLBACK_GAS) revert *)
CheckGas ==
  /\ pc = "check"
  /\ pc' = IF gasleft < (limit * 64) \div 63 + POST_CALLBACK_GAS THEN "reverted" ELSE "verify"
  /\ UNCHANGED <<requestVars, gasleft, received>>

Verify ==
  /\ pc = "verify"
  /\ Pay(VerifyCost, "settle")
  /\ UNCHANGED <<requestVars, received>>

Settle ==
  /\ pc = "settle"
  /\ Pay(SettleCost[numWords] + credit, "call")
  /\ UNCHANGED <<requestVars, received>>

(* call(limit, ...): a callee is given what was asked for, or 63/64 of what
   is left when that is less, and spends any part of it. *)
_callback ==
  LET most == gasleft - gasleft \div 64 IN
  /\ pc = "call"
  /\ received' = IF limit <= most THEN limit ELSE most
  /\ \E spent \in {0, received'} : gasleft' = gasleft - spent
  /\ pc' = "record"
  /\ UNCHANGED requestVars

Record ==
  /\ pc = "record"
  /\ Pay(RecordCost, "fulfilled")
  /\ UNCHANGED <<requestVars, received>>

GasNext == Reach \/ CheckGas \/ Verify \/ Settle \/ _callback \/ Record

GasSpec == GasInit /\ [][GasNext]_gasVars

-----------------------------------------------------------------------------
GasTypeOK ==
  /\ limit \in GasLimits
  /\ numWords \in WordCounts
  /\ credit \in CreditCosts
  /\ gasleft \in Nat
  /\ pc \in {"enter", "check", "verify", "settle", "call", "record", "fulfilled", "reverted"}
  /\ received \in Nat

(* What is spent around the callback, and that FulfilOverhead has room for it
   (one unit is for the rounding of 64/63) and for the coordinator's check. *)
Around(w, c) == EntryCost + VerifyCost + SettleCost[w] + c + RecordCost

OverheadCovers(w, c) ==
  /\ Around(w, c) < FulfilOverhead
  /\ EntryCost + POST_CALLBACK_GAS <= FulfilOverhead

(* When FulfilOverhead covers what is spent around the callback, a fulfilment
   that goes through has given the consumer the whole budget its request paid
   for, whatever that budget is: scaling it by 64/63 leaves that much after the
   pairing and the settlement.  For other words or credits it may have given
   less: the coordinator's check comes before they are paid for. *)
WholeBudget ==
  pc = "fulfilled" /\ OverheadCovers(numWords, credit) => received >= limit

(* A transaction fails for want of gas, at the coordinator's check or in any
   step before or after the callback, only when FulfilOverhead does not cover
   the request's words and the publisher's credit. *)
NeverShort ==
  pc = "reverted" => ~ OverheadCovers(numWords, credit)
=============================================================================

---------------------------- MODULE FeeSchedule ----------------------------
(***************************************************************************)
(* The fees of src/src/VRFCoordinator.sol and who may change them: a        *)
(* proposal is announced on chain, may be applied by anyone once the        *)
(* timelock has run, may be replaced or cancelled by the owner until then,  *)
(* and nothing may change once ownership is renounced.                      *)
(*                                                                         *)
(* noticeAt is a history variable: the block at which the proposal now      *)
(* pending was announced.  No action reads it.                              *)
(***************************************************************************)
EXTENDS ChainAddresses, Integers

CONSTANTS
  FEE_TIMELOCK_BLOCKS,  \* blocks between announcing fees and applying them
  maxFees,              \* the immutable ceilings
  InitialFees,          \* the constructor's fees
  FeeChoices,           \* fees an owner may try to propose
  Successors,           \* those the coordinator's ownership is offered to
  MaxBlock              \* bound: the last block of the instance

Fees == [base : Nat, perWord : Nat, perGas : Nat]

ZeroFees == [base |-> 0, perWord |-> 0, perGas |-> 0]

WithinCaps(f) ==
  /\ f.base <= maxFees.base
  /\ f.perWord <= maxFees.perWord
  /\ f.perGas <= maxFees.perGas

ASSUME FeeAssumption ==
  /\ FEE_TIMELOCK_BLOCKS \in Nat \ {0}
  /\ maxFees \in Fees
  /\ FeeChoices \subseteq Fees
  /\ InitialFees \in Fees /\ WithinCaps(InitialFees)
  /\ Successors \subseteq MaybeAddress
  /\ MaxBlock \in Nat

VARIABLES
  fees,                \* baseFee, perWordFee, perCallbackGasFee
  pendingFees,         \* pendingBaseFee, pendingPerWordFee, pendingPerCallbackGasFee
  effectiveAt,         \* pendingFeesEffectiveAtBlock; 0 means nothing is pending
  owner,
  pendingOwner,
  block,               \* block.number
  noticeAt

feeVars == <<fees, pendingFees, effectiveAt, owner, pendingOwner, noticeAt>>

-----------------------------------------------------------------------------
(* The constructor refuses fees above the ceilings (FeeAssumption). *)
FeeInit ==
  /\ fees = InitialFees
  /\ pendingFees = ZeroFees
  /\ effectiveAt = 0
  /\ owner \in Managers
  /\ pendingOwner = NoAddr
  /\ noticeAt = 0

(* Mutant: a second proposal runs on the first one's clock. *)
proposeFeesSameClock(caller, newFees) ==
  /\ caller = owner
  /\ WithinCaps(newFees)
  /\ pendingFees' = newFees
  /\ effectiveAt' = IF effectiveAt # 0 THEN effectiveAt ELSE block + FEE_TIMELOCK_BLOCKS
  /\ noticeAt' = block
  /\ UNCHANGED <<fees, owner, pendingOwner>>

(* A second proposal replaces the first and restarts its timelock. *)
proposeFees(caller, newFees) ==
  /\ caller = owner
  /\ WithinCaps(newFees)
  /\ pendingFees' = newFees
  /\ effectiveAt' = block + FEE_TIMELOCK_BLOCKS
  /\ noticeAt' = block
  /\ UNCHANGED <<fees, owner, pendingOwner>>

(* Mutant: leaves the clock running. *)
_clearAmounts == pendingFees' = ZeroFees /\ UNCHANGED effectiveAt

_clearPendingFees ==
  /\ pendingFees' = ZeroFees
  /\ effectiveAt' = 0

(* Open to anyone. *)
applyFees ==
  /\ effectiveAt # 0
  /\ block >= effectiveAt
  /\ fees' = pendingFees
  /\ _clearPendingFees
  /\ UNCHANGED <<owner, pendingOwner, noticeAt>>

cancelFeeChange(caller) ==
  /\ caller = owner
  /\ _clearPendingFees
  /\ UNCHANGED <<fees, owner, pendingOwner, noticeAt>>

transferOwnership(caller, newOwner) ==
  /\ caller = owner
  /\ pendingOwner' = newOwner
  /\ UNCHANGED <<fees, pendingFees, effectiveAt, owner, noticeAt>>

acceptOwnership(caller) ==
  /\ caller = pendingOwner
  /\ owner' = caller
  /\ pendingOwner' = NoAddr
  /\ UNCHANGED <<fees, pendingFees, effectiveAt, noticeAt>>

renounceOwnership(caller) ==
  /\ caller = owner
  /\ owner' = NoAddr
  /\ pendingOwner' = NoAddr
  /\ _clearPendingFees
  /\ UNCHANGED <<fees, noticeAt>>

-----------------------------------------------------------------------------
FeeStep(caller) ==
  \/ \E f \in FeeChoices : proposeFees(caller, f)
  \/ applyFees
  \/ cancelFeeChange(caller)
  \/ \E newOwner \in Successors : transferOwnership(caller, newOwner)
  \/ acceptOwnership(caller)
  \/ renounceOwnership(caller)

MineBlock ==
  /\ block < MaxBlock
  /\ block' = block + 1

FeeNext ==
  \/ (\E caller \in Addresses : FeeStep(caller)) /\ UNCHANGED block
  \/ MineBlock /\ UNCHANGED feeVars

FeeStart == FeeInit /\ block = 1

FeeSpec == FeeStart /\ [][FeeNext]_<<feeVars, block>>

-----------------------------------------------------------------------------
FeeTypeOK ==
  /\ fees \in Fees
  /\ pendingFees \in Fees
  /\ effectiveAt \in Nat
  /\ owner \in MaybeAddress
  /\ pendingOwner \in MaybeAddress
  /\ block \in Nat
  /\ noticeAt \in Nat

(* Through any sequence of proposals, applications and changes of owner, what
   a request costs never passes the ceilings fixed at deployment. *)
FeesWithinCaps == WithinCaps(fees) /\ WithinCaps(pendingFees)

(* A change of fees takes effect only FEE_TIMELOCK_BLOCKS after those very
   fees were announced: replacing a proposal late in its timelock does not
   inherit the notice already given, and a cancelled one does not linger. *)
NoticeGiven ==
  [][fees' # fees => /\ fees' = pendingFees
                     /\ block >= noticeAt + FEE_TIMELOCK_BLOCKS]_<<feeVars, block>>

(* With no owner the price is frozen forever: no standing proposal can still
   be applied and no standing offer of ownership can still be accepted. *)
RenouncedForGood ==
  [][owner = NoAddr => owner' = NoAddr /\ fees' = fees]_<<feeVars, block>>

(* What makes the two properties above inductive. *)
FeeInv ==
  /\ FeeTypeOK
  /\ FeesWithinCaps
  /\ effectiveAt # 0 => effectiveAt = noticeAt + FEE_TIMELOCK_BLOCKS
  /\ owner = NoAddr => effectiveAt = 0 /\ pendingOwner = NoAddr
=============================================================================

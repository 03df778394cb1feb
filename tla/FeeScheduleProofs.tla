------------------------- MODULE FeeScheduleProofs -------------------------
(***************************************************************************)
(* For any ceilings, any timelock, any set of callers and any sequence of   *)
(* proposals: the fees keep within their ceilings, change only after the    *)
(* announced notice, and never change again once ownership is renounced.    *)
(* FeeInv is the inductive invariant all three rest on.                     *)
(***************************************************************************)
EXTENDS FeeSchedule, TLAPS

feeState == <<feeVars, block>>

(* The constructor establishes the invariant. *)
LEMMA FeeInitInv == FeeInit /\ block = 1 => FeeInv
  BY FeeAssumption, AddressAssumption
  DEF FeeInit, FeeInv, FeeTypeOK, FeesWithinCaps, WithinCaps, Fees, ZeroFees, MaybeAddress

(* Every call a caller can make preserves it; the block does not move while
   a call runs. *)
LEMMA FeeStepInv ==
  ASSUME FeeInv, NEW caller \in Addresses, FeeStep(caller), UNCHANGED block
  PROVE  FeeInv'
<1> USE FeeAssumption, AddressAssumption
        DEF FeeInv, FeeTypeOK, FeesWithinCaps, WithinCaps, Fees, ZeroFees, MaybeAddress
<1>1. CASE \E f \in FeeChoices : proposeFees(caller, f)
  BY <1>1 DEF proposeFees
<1>2. CASE applyFees
  BY <1>2 DEF applyFees, _clearPendingFees
<1>3. CASE cancelFeeChange(caller)
  BY <1>3 DEF cancelFeeChange, _clearPendingFees
<1>4. CASE \E newOwner \in Successors : transferOwnership(caller, newOwner)
  BY <1>4 DEF transferOwnership
<1>5. CASE acceptOwnership(caller)
  BY <1>5 DEF acceptOwnership
<1>6. CASE renounceOwnership(caller)
  BY <1>6 DEF renounceOwnership, _clearPendingFees
<1> QED
  BY <1>1, <1>2, <1>3, <1>4, <1>5, <1>6 DEF FeeStep

(* A new block preserves it. *)
LEMMA MineInv ==
  ASSUME FeeInv, MineBlock, UNCHANGED feeVars
  PROVE  FeeInv'
BY DEF FeeInv, FeeTypeOK, FeesWithinCaps, WithinCaps, MineBlock, feeVars

(* The fees and the pending fees never pass the ceilings, a pending change
   takes effect exactly a timelock after its announcement, and a renounced
   coordinator has neither a pending change nor a pending owner. *)
THEOREM FeeInvariant == FeeSpec => []FeeInv
<1>1. FeeInv /\ [FeeNext]_feeState => FeeInv'
  <2> SUFFICES ASSUME FeeInv, [FeeNext]_feeState PROVE FeeInv'
    OBVIOUS
  <2>1. CASE (\E caller \in Addresses : FeeStep(caller)) /\ UNCHANGED block
    BY <2>1, FeeStepInv
  <2>2. CASE MineBlock /\ UNCHANGED feeVars
    BY <2>2, MineInv
  <2>3. CASE UNCHANGED feeState
    BY <2>3 DEF FeeInv, FeeTypeOK, FeesWithinCaps, WithinCaps, feeVars, feeState
  <2> QED
    BY <2>1, <2>2, <2>3 DEF FeeNext
<1> QED
  BY <1>1, FeeInitInv, PTL DEF FeeSpec, FeeStart, feeState

(* Anyone may apply a change, but only one that was announced, as it was
   announced, a full timelock earlier. *)
THEOREM NoticeTheorem == FeeSpec => NoticeGiven
<1>1. FeeInv /\ [FeeNext]_feeState =>
        [fees' # fees => /\ fees' = pendingFees
                         /\ block >= noticeAt + FEE_TIMELOCK_BLOCKS]_feeState
  <2> SUFFICES ASSUME FeeInv, FeeNext, fees' # fees
               PROVE  fees' = pendingFees /\ block >= noticeAt + FEE_TIMELOCK_BLOCKS
    OBVIOUS
  <2>1. applyFees
    BY DEF FeeNext, FeeStep, proposeFees, cancelFeeChange, transferOwnership,
           acceptOwnership, renounceOwnership, feeVars
  <2> QED
    BY <2>1 DEF applyFees, FeeInv
<1> QED
  BY <1>1, FeeInvariant, PTL DEF FeeSpec, FeeStart, NoticeGiven, feeState

(* After renounceOwnership nobody can ever propose, and nothing proposed
   before can still be applied. *)
THEOREM RenouncedTheorem == FeeSpec => RenouncedForGood
<1>1. FeeInv /\ [FeeNext]_feeState =>
        [owner = NoAddr => owner' = NoAddr /\ fees' = fees]_feeState
  <2> SUFFICES ASSUME FeeInv, FeeNext, owner = NoAddr
               PROVE  owner' = NoAddr /\ fees' = fees
    OBVIOUS
  <2>1. effectiveAt = 0 /\ pendingOwner = NoAddr
    BY DEF FeeInv
  <2> QED
    BY <2>1, AddressAssumption
    DEF FeeNext, FeeStep, proposeFees, applyFees, cancelFeeChange, transferOwnership,
        acceptOwnership, renounceOwnership, MineBlock, feeVars
<1> QED
  BY <1>1, FeeInvariant, PTL DEF FeeSpec, FeeStart, RenouncedForGood, feeState
=============================================================================

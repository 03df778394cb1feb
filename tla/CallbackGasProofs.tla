------------------------- MODULE CallbackGasProofs -------------------------
(***************************************************************************)
(* How much a transaction's limit has to cover: when FulfilOverhead covers  *)
(* what is spent around the callback, then for every budget the consumer is *)
(* called with all of it and the transaction never runs out of gas.         *)
(***************************************************************************)
EXTENDS CallbackGas, TLAPS

(* Scaling by 64/63 leaves room for the 1/64 a call holds back. *)
LEMMA SixtyFour ==
  ASSUME NEW L \in Nat, NEW g \in Nat, g >= (L * 64) \div 63 + 1
  PROVE  L <= g - g \div 64
OBVIOUS

(* No explicit limit is below the daemon's own arithmetic. *)
NoTightLimit ==
  \A g \in GasSettings, l \in GasLimits : TxGas(g, l) >= FulfilGasLimit(l)

(* How much is left at each step, and that the transaction is never undone. *)
EnoughLeft ==
  /\ pc = "enter" => gasleft >= FulfilGasLimit(limit)
  /\ pc \in {"check", "verify"} => gasleft >= FulfilGasLimit(limit) - EntryCost
  /\ pc = "settle" => gasleft >= FulfilGasLimit(limit) - EntryCost - VerifyCost
  /\ pc = "call" =>
       gasleft >= FulfilGasLimit(limit) - EntryCost - VerifyCost - (SettleCost[numWords] + credit)
  /\ pc = "record" => gasleft >= RecordCost
  /\ pc \in {"record", "fulfilled"} => received = limit
  /\ pc # "reverted"

GasInv ==
  /\ GasTypeOK
  /\ OverheadCovers(numWords, credit) => EnoughLeft

(* A transaction that is not given less than the daemon's arithmetic starts
   with what that arithmetic puts on it. *)
LEMMA GasInitInv == ASSUME NoTightLimit, GasInit PROVE GasInv
<1>1. limit \in Nat /\ FulfilGasLimit(limit) \in Nat
  BY GasAssumption DEF GasInit, FulfilGasLimit
<1>2. PICK g \in GasSettings : gasleft = TxGas(g, limit)
  BY DEF GasInit
<1>3. gasleft \in Nat /\ gasleft >= FulfilGasLimit(limit)
  BY <1>1, <1>2, GasAssumption DEF NoTightLimit, GasInit, TxGas
<1> QED
  BY <1>1, <1>3, GasAssumption DEF GasInit, GasInv, GasTypeOK, EnoughLeft

(* Whatever the costs, gas is spent and never owed. *)
LEMMA GasTypes == ASSUME GasTypeOK, [GasNext]_gasVars PROVE GasTypeOK'
<1> USE DEF GasTypeOK, requestVars
<1>1. /\ limit \in Nat /\ SettleCost[numWords] + credit \in Nat
      /\ EntryCost \in Nat /\ VerifyCost \in Nat /\ RecordCost \in Nat
  BY GasAssumption
<1>2. CASE Reach
  BY <1>1, <1>2 DEF Reach, Pay
<1>3. CASE CheckGas
  BY <1>3 DEF CheckGas
<1>4. CASE Verify
  BY <1>1, <1>4 DEF Verify, Pay
<1>5. CASE Settle
  BY <1>1, <1>5 DEF Settle, Pay
<1>6. CASE _callback
  <2>1. gasleft - gasleft \div 64 \in 0..gasleft
    OBVIOUS
  <2>2. received' \in 0..gasleft
    BY <1>1, <1>6, <2>1 DEF _callback
  <2> QED
    BY <1>6, <2>2 DEF _callback
<1>7. CASE Record
  BY <1>1, <1>7 DEF Record, Pay
<1>8. CASE UNCHANGED gasVars
  BY <1>8 DEF gasVars
<1> QED
  BY <1>2, <1>3, <1>4, <1>5, <1>6, <1>7, <1>8 DEF GasNext

(* Where the overhead covers the costs no step runs short, because every
   later cost is still covered. *)
LEMMA GasEnough ==
  ASSUME GasTypeOK, OverheadCovers(numWords, credit), EnoughLeft, [GasNext]_gasVars
  PROVE  EnoughLeft'
<1> DEFINE scaled == (limit * 64) \div 63
           S == SettleCost[numWords] + credit
<1>1. /\ limit \in Nat /\ scaled \in Nat /\ S \in Nat /\ gasleft \in Nat
      /\ EntryCost \in Nat /\ VerifyCost \in Nat /\ RecordCost \in Nat
      /\ POST_CALLBACK_GAS \in Nat /\ FulfilOverhead \in Nat
      /\ FulfilGasLimit(limit) = scaled + FulfilOverhead
      /\ EntryCost + POST_CALLBACK_GAS <= FulfilOverhead
      /\ EntryCost + VerifyCost + S + RecordCost + 1 <= FulfilOverhead
  BY GasAssumption DEF OverheadCovers, Around, GasTypeOK, FulfilGasLimit
<1> HIDE DEF scaled, S
<1>2. CASE Reach
  BY <1>1, <1>2 DEF Reach, Pay, EnoughLeft, requestVars
<1>3. CASE CheckGas
  BY <1>1, <1>3 DEF CheckGas, EnoughLeft, requestVars, scaled
<1>4. CASE Verify
  BY <1>1, <1>4 DEF Verify, Pay, EnoughLeft, requestVars
<1>5. CASE Settle
  BY <1>1, <1>5 DEF Settle, Pay, EnoughLeft, requestVars, S
<1>6. CASE _callback
  <2>1. gasleft >= scaled + RecordCost + 1 /\ pc = "call"
    BY <1>1, <1>6 DEF _callback, EnoughLeft, S
  <2>2. limit <= gasleft - gasleft \div 64
    BY <1>1, <2>1, SixtyFour DEF scaled
  <2>3. received' = limit /\ pc' = "record" /\ UNCHANGED requestVars
    BY <1>6, <2>2 DEF _callback
  <2>4. scaled >= limit
    BY <1>1 DEF scaled
  <2>5. gasleft' >= RecordCost
    BY <1>1, <1>6, <2>1, <2>3, <2>4 DEF _callback
  <2> QED
    BY <1>1, <2>3, <2>5 DEF EnoughLeft, requestVars
<1>7. CASE Record
  BY <1>1, <1>7 DEF Record, Pay, EnoughLeft, requestVars
<1>8. CASE UNCHANGED gasVars
  BY <1>8 DEF gasVars, requestVars, EnoughLeft
<1> QED
  BY <1>2, <1>3, <1>4, <1>5, <1>6, <1>7, <1>8 DEF GasNext

(* The request and the publisher's credit are the same throughout. *)
LEMMA GasNextInv == ASSUME GasInv, [GasNext]_gasVars PROVE GasInv'
<1>1. UNCHANGED requestVars
  BY DEF GasNext, gasVars, Reach, CheckGas, Verify, Settle, _callback, Record
<1>2. OverheadCovers(numWords, credit)' <=> OverheadCovers(numWords, credit)
  BY <1>1 DEF requestVars, OverheadCovers, Around
<1> QED
  BY <1>2, GasTypes, GasEnough DEF GasInv

(* With no limit below the daemon's arithmetic, GasInv holds throughout a
   fulfilment. *)
LEMMA GasAlways ==
  ASSUME NoTightLimit
  PROVE  GasSpec => []GasInv
<1>1. GasInit => GasInv
  BY GasInitInv
<1>2. GasInv /\ [GasNext]_gasVars => GasInv'
  BY GasNextInv
<1> QED
  BY <1>1, <1>2, PTL DEF GasSpec

(* For every budget, and every number of words and credit that FulfilOverhead
   covers, a transaction with the limit of chain.go's Fulfill, or an explicit
   one that is not below it, that is completed has called the consumer with its
   whole callbackGasLimit. *)
THEOREM NodeBudgetSuffices ==
  ASSUME NoTightLimit
  PROVE  GasSpec => []WholeBudget
<1>1. GasInv => WholeBudget
  BY GasAssumption DEF GasInv, GasTypeOK, EnoughLeft, WholeBudget
<1> QED
  BY <1>1, GasAlways, PTL

(* Such a transaction is not refused by the coordinator's check, and runs out
   of gas in no step, when FulfilOverhead covers its words and credit. *)
THEOREM NodeNeverShort ==
  ASSUME NoTightLimit
  PROVE  GasSpec => []NeverShort
<1>1. GasInv => NeverShort
  BY DEF GasInv, EnoughLeft, NeverShort
<1> QED
  BY <1>1, GasAlways, PTL
=============================================================================

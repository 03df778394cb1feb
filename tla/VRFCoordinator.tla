--------------------------- MODULE VRFCoordinator ---------------------------
(***************************************************************************)
(* src/src/VRFCoordinator.sol: requests for random words, the two ways a    *)
(* request is fulfilled (alone, or in a batch against one aggregate         *)
(* signature), the retry of a delivery that failed, and the refund of a     *)
(* request nobody answered.  The accounts are Subscription's, the fees      *)
(* FeeSchedule's; both contracts share one chain.                           *)
(*                                                                         *)
(* Reentrancy.  Delivering words hands control to the consumer, which may   *)
(* call any function before it returns.  stack is the call stack: a frame   *)
(* per delivery in progress.  While it is not empty the only steps are      *)
(* those of the frame on top: a call the consumer makes (CallbackOps says   *)
(* which kinds the instance lets it make), the consumer returning, or a     *)
(* batch going on to its next member.  A consumer that fails undoes all it  *)
(* did, so a failing delivery is a delivery that never took control.        *)
(*                                                                         *)
(* Reverts.  A call that reverts leaves no trace.  A call that would revert *)
(* before it hands out control is not enabled.  A batch whose later member  *)
(* cannot be settled any more reverts as a whole: here such an execution    *)
(* has no further step and never gets back to an empty stack, so the states *)
(* with an empty stack are exactly the states the chain can commit.         *)
(*                                                                         *)
(* Gas.  A delivery runs with at most the callbackGasLimit of its request,  *)
(* which bounds what gasleft() can be in a call made from it.  A            *)
(* transaction brings any amount of gas.                                    *)
(*                                                                         *)
(* Signatures.  The group's BLS signature over a list of seeds is unique    *)
(* and verifies for no other list, so it is modelled by the list itself,    *)
(* and so is the randomness hashed from it.  Any list has a signature:      *)
(* signatures under one key add.                                            *)
(***************************************************************************)
EXTENDS Subscription, FeeSchedule

CONSTANTS
  Publishers,           \* those that send fulfilments and retries
  MAX_WORDS,            \* most words a request may ask for
  maxCallbackGasLimit,  \* most gas a request may ask for
  POST_CALLBACK_GAS,    \* gas kept back for the work after a delivery
  TIMEOUT_BLOCKS,       \* blocks after which an open request may be refunded
  WordCounts,           \* numWords a consumer may ask for
  GasLimits,            \* callbackGasLimit a consumer may ask for
  MaxNonce,             \* bound: requests per consumer
  IdOf,                 \* keccak256 of a consumer and its nonce
  MaxBatch,             \* bound: members of a batch
  CallbackOps           \* kinds of calls a consumer makes while it is delivered to

Nonces == 0..(MaxNonce - 1)

RequestIds == {IdOf[x] : x \in Addresses \X Nonces}

NoRequest == 0

AllOps == {"request", "fulfill", "batch", "retry", "refund", "account", "admin"}

(* The hash is injective and its order is unrelated to that of the calls. *)
ASSUME CoordinatorAssumption ==
  /\ Publishers \subseteq Addresses
  /\ MAX_WORDS \in Nat
  /\ maxCallbackGasLimit \in Nat
  /\ POST_CALLBACK_GAS \in Nat \ {0}
  /\ TIMEOUT_BLOCKS \in Nat
  /\ WordCounts \subseteq Nat
  /\ GasLimits \subseteq Nat
  /\ MaxNonce \in Nat
  /\ IdOf \in [Addresses \X Nonces -> Nat \ {NoRequest}]
  /\ \A x, y \in Addresses \X Nonces : IdOf[x] = IdOf[y] => x = y
  /\ MaxBatch \in Nat
  /\ CallbackOps \subseteq AllOps

VARIABLES
  requests,   \* _requests
  nonces,     \* nonces
  stack,      \* deliveries in progress, outermost first
  delivered   \* history: the randomness each request's consumer accepted, in order

reqVars == <<requests, nonces>>

vars == <<subVars, feeVars, block, reqVars, stack, delivered>>

Request ==
  [consumer : MaybeAddress, subId : SubIds \cup {0}, numWords : Nat,
   callbackGasLimit : Nat, createdAtBlock : Nat, paid : 0..MaxUint96,
   fulfilled : BOOLEAN, refunded : BOOLEAN, callbackSucceeded : BOOLEAN]

EmptyRequest ==
  [consumer |-> NoAddr, subId |-> 0, numWords |-> 0, callbackGasLimit |-> 0,
   createdAtBlock |-> 0, paid |-> 0,
   fulfilled |-> FALSE, refunded |-> FALSE, callbackSucceeded |-> FALSE]

(* A frame: the request being delivered (NoRequest while a batch is between
   members), the members of the batch still to settle, the randomness, and
   the msg.sender that is paid. *)
Frame == [req : RequestIds \cup {NoRequest}, rest : Seq(RequestIds),
          randomness : Seq(RequestIds), payee : Addresses]

Exists(r) == requests[r].consumer # NoAddr

(* Mutant: a refunded request looks open. *)
FulfilledOnly(r) == requests[r].fulfilled

Closed(r) == requests[r].fulfilled \/ requests[r].refunded

Open(r) == Exists(r) /\ ~Closed(r)

Top == stack[Len(stack)]

Pop == SubSeq(stack, 1, Len(stack) - 1)

(* Who may call what: anybody anything in a transaction of its own, a
   consumer in control what the instance lets it call. *)
Enter(op) ==
  stack # <<>> => Top.req # NoRequest /\ op \in CallbackOps

-----------------------------------------------------------------------------
CoordInit ==
  /\ SubInit
  /\ FeeInit
  /\ block = 1
  /\ requests = [r \in RequestIds |-> EmptyRequest]
  /\ nonces = [a \in Addresses |-> 0]
  /\ stack = <<>>
  /\ delivered = [r \in RequestIds |-> <<>>]

price(numWords, callbackGasLimit) ==
  fees.base + fees.perWord * numWords + fees.perGas * callbackGasLimit

(* Mutant: every request of a consumer has the same nonce. *)
KeepNonce(caller) == UNCHANGED nonces

(* The nonce in the request's id is used up. *)
TakeNonce(caller) == nonces' = [nonces EXCEPT ![caller] = @ + 1]

(* The request's own fields are checked before anything is written: the key
   hash, the confirmations and the extra arguments too, which no later step
   reads. *)
requestRandomWords(caller, id, numWords, callbackGasLimit) ==
  LET r == IdOf[<<caller, nonces[caller]>>]
      quoted == price(numWords, callbackGasLimit)
  IN
  /\ Enter("request")
  /\ nonces[caller] < MaxNonce
  /\ numWords # 0 /\ numWords <= MAX_WORDS
  /\ callbackGasLimit # 0 /\ callbackGasLimit <= maxCallbackGasLimit
  /\ caller \in consumers[id]
  /\ quoted <= MaxUint96
  /\ TakeNonce(caller)
  /\ requests' = [requests EXCEPT ![r] =
       [consumer |-> caller, subId |-> id, numWords |-> numWords,
        callbackGasLimit |-> callbackGasLimit, createdAtBlock |-> block,
        paid |-> quoted,
        fulfilled |-> FALSE, refunded |-> FALSE, callbackSucceeded |-> FALSE]]
  /\ reserve(id, quoted)
  /\ UNCHANGED <<stack, delivered, feeVars, block>>

(* Mutants: only the gas for what follows the delivery; only the gas for the
   delivery itself. *)
GasForTheRest(r) == POST_CALLBACK_GAS

GasForTheCallback(r) == requests[r].callbackGasLimit

(* What a call demands of gasleft() for one delivery. *)
GasNeeded(r) == (requests[r].callbackGasLimit * 64) \div 63 + POST_CALLBACK_GAS

(* Whether gasleft() can reach an amount here. *)
GasAllows(needed) ==
  stack # <<>> => needed <= requests[Top.req].callbackGasLimit

(* The consumer either takes control, in a new frame, or fails at once. *)
_callback(r, payee) ==
  \/ stack' = Append(stack, [req |-> r, rest |-> <<>>, randomness |-> <<r>>,
                             payee |-> payee])
  \/ UNCHANGED stack

(* Mutant: settles at today's price. *)
fulfillAtTodaysPrice(caller, r) ==
  /\ Enter("fulfill")
  /\ Open(r)
  /\ GasAllows(GasNeeded(r))
  /\ requests' = [requests EXCEPT ![r].fulfilled = TRUE]
  /\ settle(requests[r].subId,
            price(requests[r].numWords, requests[r].callbackGasLimit), caller)
  /\ _callback(r, caller)
  /\ UNCHANGED <<nonces, delivered, feeVars, block>>

fulfillRandomWords(caller, r) ==
  /\ Enter("fulfill")
  /\ Open(r)
  /\ GasAllows(GasNeeded(r))
  /\ requests' = [requests EXCEPT ![r].fulfilled = TRUE]
  /\ settle(requests[r].subId, requests[r].paid, caller)
  /\ _callback(r, caller)
  /\ UNCHANGED <<nonces, delivered, feeVars, block>>

(* Mutant: lets an id repeat. *)
NotDescending(ids) == \A i, j \in 1..Len(ids) : i < j => ids[i] <= ids[j]

Ascending(ids) == \A i, j \in 1..Len(ids) : i < j => ids[i] < ids[j]

(* Gas for a whole batch: GasSum[n] is the need of its first n members. *)
BatchGasNeeded(ids) ==
  LET GasSum[n \in 0..Len(ids)] ==
        IF n = 0 THEN 0 ELSE GasSum[n - 1] + GasNeeded(ids[n])
  IN GasSum[Len(ids)]

(* The checks of every member, the gas and the aggregate come first; then the
   members are settled one by one (_settle). *)
fulfillBatch(caller, ids) ==
  /\ Enter("batch")
  /\ ids # <<>>
  /\ Ascending(ids)
  /\ \A i \in 1..Len(ids) : Open(ids[i])
  /\ GasAllows(BatchGasNeeded(ids))
  /\ stack' = Append(stack, [req |-> NoRequest, rest |-> ids, randomness |-> ids,
                             payee |-> caller])
  /\ UNCHANGED <<reqVars, delivered, subVars, feeVars, block>>

(* The frame on top goes on: to its next member, or back to its caller. *)
Proceed(frame) ==
  stack' = IF frame.req = NoRequest /\ frame.rest = <<>>
           THEN Pop ELSE Append(Pop, frame)

(* One member of the batch on top: it is not looked at again before it is
   marked, paid for and delivered. *)
_settle ==
  /\ stack # <<>> /\ Top.req = NoRequest /\ Top.rest # <<>>
  /\ LET r == Head(Top.rest)
         next == [Top EXCEPT !.rest = Tail(@)]
     IN
     /\ requests' = [requests EXCEPT ![r].fulfilled = TRUE]
     /\ settle(requests[r].subId, requests[r].paid, Top.payee)
     /\ \/ Proceed([next EXCEPT !.req = r])
        \/ Proceed(next)
  /\ UNCHANGED <<nonces, delivered, feeVars, block>>

(* The consumer in control returns: the delivery is recorded, and the batch
   it belongs to, if any, goes on. *)
CallbackReturns ==
  /\ stack # <<>> /\ Top.req # NoRequest
  /\ requests' = [requests EXCEPT ![Top.req].callbackSucceeded = TRUE]
  /\ delivered' = [delivered EXCEPT ![Top.req] = Append(@, Top.randomness)]
  /\ Proceed([Top EXCEPT !.req = NoRequest])
  /\ UNCHANGED <<nonces, subVars, feeVars, block>>

retryCallback(caller, r) ==
  /\ Enter("retry")
  /\ Exists(r)
  /\ requests[r].fulfilled
  /\ ~requests[r].callbackSucceeded
  /\ GasAllows(GasNeeded(r))
  /\ _callback(r, caller)
  /\ UNCHANGED <<reqVars, delivered, subVars, feeVars, block>>

refund(r) ==
  /\ Enter("refund")
  /\ Open(r)
  /\ block > requests[r].createdAtBlock + TIMEOUT_BLOCKS
  /\ requests' = [requests EXCEPT ![r].refunded = TRUE]
  /\ release(requests[r].subId, requests[r].paid)
  /\ UNCHANGED <<nonces, stack, delivered, feeVars, block>>

-----------------------------------------------------------------------------
Batches == UNION {[1..n -> RequestIds] : n \in 1..MaxBatch}

(* A call to the accounts, or to the fees, from outside or from a delivery. *)
AccountCall(caller) ==
  /\ Enter("account")
  /\ OwnerApi(caller)
  /\ UNCHANGED <<feeVars, block, reqVars, stack, delivered>>

AdminCall(caller) ==
  /\ Enter("admin")
  /\ FeeStep(caller)
  /\ UNCHANGED <<subVars, block, reqVars, stack, delivered>>

Tick ==
  /\ stack = <<>>
  /\ MineBlock
  /\ UNCHANGED <<subVars, feeVars, reqVars, stack, delivered>>

CoordNext ==
  \/ \E caller \in Addresses, id \in SubIds, n \in WordCounts, g \in GasLimits :
       requestRandomWords(caller, id, n, g)
  \/ \E caller \in Publishers, r \in RequestIds : fulfillRandomWords(caller, r)
  \/ \E caller \in Publishers, ids \in Batches : fulfillBatch(caller, ids)
  \/ _settle
  \/ CallbackReturns
  \/ \E caller \in Publishers, r \in RequestIds : retryCallback(caller, r)
  \/ \E r \in RequestIds : refund(r)
  \/ \E caller \in Addresses : AccountCall(caller)
  \/ \E caller \in Addresses : AdminCall(caller)
  \/ Tick

CoordSpec == CoordInit /\ [][CoordNext]_vars

-----------------------------------------------------------------------------
TypeOK ==
  /\ SubTypeOK
  /\ FeeTypeOK
  /\ requests \in [RequestIds -> Request]
  /\ \A r \in RequestIds : Exists(r) => requests[r].subId \in SubIds
  /\ nonces \in [Addresses -> 0..MaxNonce]
  /\ stack \in Seq(Frame)
  /\ delivered \in [RequestIds -> Seq(Seq(RequestIds))]

(* The chain commits a state only when the outermost call has returned. *)
Committed == stack = <<>>

(* A request is closed once, by a fulfilment or by a refund, never by both:
   what a refund gave back is not also paid to a publisher. *)
ClosedOnce ==
  Committed => \A r \in RequestIds : ~(requests[r].fulfilled /\ requests[r].refunded)

(* Words reach the consumer at most once, through fulfilments, batches and
   retries, re-entered or not, and never for a refunded request. *)
DeliveredOnce ==
  Committed => \A r \in RequestIds :
    /\ Len(delivered[r]) <= 1
    /\ requests[r].refunded => delivered[r] = <<>>

(* What a batch checked before its first delivery is still true of every
   member it has not settled yet, whatever the consumers it delivered to did
   in between. *)
BatchStillOpen ==
  \A i \in 1..Len(stack) : \A j \in 1..Len(stack[i].rest) : Open(stack[i].rest[j])

(* A delivery in progress is never entered again for the same request, and
   each nested delivery has a smaller gas budget than the one around it. *)
BudgetsShrink ==
  \A i, j \in 1..Len(stack) :
    i < j /\ stack[i].req # NoRequest /\ stack[j].req # NoRequest =>
      requests[stack[j].req].callbackGasLimit < requests[stack[i].req].callbackGasLimit

OpenOf(id) == {r \in RequestIds : Open(r) /\ requests[r].subId = id}

OpenQuotes(id) ==
  [r \in RequestIds |-> IF r \in OpenOf(id) THEN requests[r].paid ELSE 0]

(* What an account has reserved is exactly what its open requests were quoted,
   so every open request can be settled or released in full, in any order. *)
ReservedBacksOpen ==
  \A id \in SubIds : accounts[id].reserved = Total(OpenQuotes(id))

(* The counter cancelSubscription trusts is the number of open requests: where
   nothing is reserved it is all that keeps an account with requests open. *)
PendingCountsOpen ==
  \A id \in SubIds : counters[id].pending = Cardinality(OpenOf(id))

(* An open request always has an account behind it: nobody walks away from
   work that is in flight, and no closed account orders more. *)
OpenHasAccount ==
  Committed => \A r \in RequestIds : Open(r) => Alive(requests[r].subId)

(* A request, once made, is never repriced, moved to another account or
   re-opened, whatever happens to the fees and however requests are numbered. *)
QuoteIsFinal ==
  [][\A r \in RequestIds : Exists(r) =>
       LET old == requests[r] new == requests'[r] IN
       /\ new.consumer = old.consumer /\ new.subId = old.subId
       /\ new.paid = old.paid /\ new.callbackGasLimit = old.callbackGasLimit
       /\ new.numWords = old.numWords /\ new.createdAtBlock = old.createdAtBlock
       /\ old.fulfilled => new.fulfilled
       /\ old.refunded => new.refunded
       /\ old.callbackSucceeded => new.callbackSucceeded]_vars

(* The words a request is given do not depend on how it was settled. *)
SameWordsHoweverSettled ==
  Committed => \A r \in RequestIds : \A i \in 1..Len(delivered[r]) :
    delivered[r][i] = <<r>>
=============================================================================

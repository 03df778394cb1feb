---------------------------- MODULE Subscription ----------------------------
(***************************************************************************)
(* The prepaid accounts of src/src/Subscription.sol: who owns an account,  *)
(* what it holds, how much of that is reserved behind open requests, which *)
(* consumers may spend it, and what each payee may withdraw.               *)
(*                                                                         *)
(* A transaction is atomic, so an external function is one action.  A      *)
(* revert undoes everything, so the conditions under which a function      *)
(* reverts are the negation of its action's guard; this includes Solidity's *)
(* checked arithmetic.  Every function that pays out does so by a call made *)
(* after its last write (_send), so a recipient that calls back in sees the *)
(* final state of the function and the nested call is simply a later       *)
(* action; a recipient that refuses makes the whole function revert.       *)
(*                                                                         *)
(* The coordinator API is left to any coordinator here.  VRFCoordinator    *)
(* EXTENDS this module and says which calls the real one makes.            *)
(***************************************************************************)
EXTENDS ChainAddresses, Integers, Sequences

CONSTANTS
  MaxSubId,    \* the largest id _lastSubId can reach: type(uint64).max
  MaxCount,    \* the largest value of a counter: type(uint64).max
  MaxUint96,   \* the largest amount of money an account can hold
  Deposits,    \* msg.value of a deposit (may exceed MaxUint96)
  Amounts      \* amounts an owner withdraws, or a coordinator reserves

ASSUME SubscriptionAssumption ==
  /\ MaxSubId \in Nat
  /\ MaxCount \in Nat
  /\ MaxUint96 \in Nat
  /\ Deposits \subseteq Nat
  /\ Amounts \subseteq Nat

VARIABLES
  lastSubId,      \* _lastSubId
  accounts,       \* _accounts: owner, balance, reserved
  pendingOwners,  \* _pendingOwners
  consumers,      \* _consumers: the set of addresses mapped to true
  consumerList,   \* _consumerList
  counters,       \* _counters: total, pending
  withdrawable,   \* _withdrawable
  activeIds,      \* _activeIds
  activeIndex,    \* _activeIndex: 1-based, 0 means absent
  held            \* the native coin the contract owns

subVars == <<lastSubId, accounts, pendingOwners, consumers, consumerList,
             counters, withdrawable, activeIds, activeIndex, held>>

SubIds == 1..MaxSubId

Account == [owner : MaybeAddress, balance : 0..MaxUint96, reserved : 0..MaxUint96]

Counters == [total : 0..MaxCount, pending : 0..MaxCount]

NoAccount == [owner |-> NoAddr, balance |-> 0, reserved |-> 0]

NoCounters == [total |-> 0, pending |-> 0]

Alive(id) == accounts[id].owner # NoAddr

(* The sum of a function's amounts, none wider than 96 bits: the number of
   its coins, each the k-th of its owner. *)
Coins(f) == {c \in (DOMAIN f) \X (1..MaxUint96) : c[2] <= f[c[1]]}

Total(f) == Cardinality(Coins(f))

-----------------------------------------------------------------------------
(* The state after the constructor. *)
SubInit ==
  /\ lastSubId = 0
  /\ accounts = [id \in SubIds |-> NoAccount]
  /\ pendingOwners = [id \in SubIds |-> NoAddr]
  /\ consumers = [id \in SubIds |-> {}]
  /\ consumerList = [id \in SubIds |-> <<>>]
  /\ counters = [id \in SubIds |-> NoCounters]
  /\ withdrawable = [a \in Addresses |-> 0]
  /\ activeIds = <<>>
  /\ activeIndex = [id \in SubIds |-> 0]
  /\ held = 0

(* Mutant: pops without moving the last entry first. *)
PopOnly(list, i) == [j \in 1..(Len(list) - 1) |-> list[j]]

(* list[i] = list[last]; list.pop() *)
SwapRemove(list, i) ==
  [j \in 1..(Len(list) - 1) |-> IF j = i THEN list[Len(list)] ELSE list[j]]

(* Mutant: the result of the transfer is not looked at. *)
_sendIgnored(amount) == amount <= held /\ UNCHANGED held

(* A zero amount makes no call; otherwise the coin must be there to send. *)
_send(amount) ==
  /\ amount <= held
  /\ held' = held - amount

(* Mutant: forgets what is reserved. *)
wholeBalance(id) == accounts[id].balance

available(id) == accounts[id].balance - accounts[id].reserved

-----------------------------------------------------------------------------
(* Owner API.  onlyOwnerOf is the conjunct accounts[id].owner = caller.    *)

createSubscription(caller) ==
  /\ lastSubId < MaxSubId
  /\ LET id == lastSubId + 1 IN
     /\ lastSubId' = id
     /\ accounts' = [accounts EXCEPT ![id].owner = caller]
     /\ activeIds' = Append(activeIds, id)
     /\ activeIndex' = [activeIndex EXCEPT ![id] = Len(activeIds) + 1]
  /\ UNCHANGED <<pendingOwners, consumers, consumerList, counters,
                 withdrawable, held>>

(* Open to anyone. fundSubscription is the same function under another name. *)
fundSubscriptionWithNative(id, value) ==
  /\ Alive(id)
  /\ value <= MaxUint96
  /\ accounts[id].balance + value <= MaxUint96
  /\ accounts' = [accounts EXCEPT ![id].balance = @ + value]
  /\ held' = held + value
  /\ UNCHANGED <<lastSubId, pendingOwners, consumers, consumerList, counters,
                 withdrawable, activeIds, activeIndex>>

withdrawFromSubscription(caller, id, amount) ==
  /\ accounts[id].owner = caller
  /\ available(id) >= amount
  /\ accounts' = [accounts EXCEPT ![id].balance = @ - amount]
  /\ _send(amount)
  /\ UNCHANGED <<lastSubId, pendingOwners, consumers, consumerList, counters,
                 withdrawable, activeIds, activeIndex>>

addConsumer(caller, id, consumer) ==
  /\ accounts[id].owner = caller
  /\ consumer \notin consumers[id]
  /\ consumers' = [consumers EXCEPT ![id] = @ \cup {consumer}]
  /\ consumerList' = [consumerList EXCEPT ![id] = Append(@, consumer)]
  /\ UNCHANGED <<lastSubId, accounts, pendingOwners, counters, withdrawable,
                 activeIds, activeIndex, held>>

(* The list loses the first entry equal to consumer, if it has one. *)
removeConsumer(caller, id, consumer) ==
  /\ accounts[id].owner = caller
  /\ consumer \in consumers[id]
  /\ consumers' = [consumers EXCEPT ![id] = @ \ {consumer}]
  /\ LET at == {i \in DOMAIN consumerList[id] : consumerList[id][i] = consumer} IN
     \/ /\ at = {}
        /\ UNCHANGED consumerList
     \/ \E i \in at :
          /\ \A j \in at : i <= j
          /\ consumerList' = [consumerList EXCEPT ![id] = SwapRemove(@, i)]
  /\ UNCHANGED <<lastSubId, accounts, pendingOwners, counters, withdrawable,
                 activeIds, activeIndex, held>>

(* The last live id takes the vacated position. *)
_deactivate(id) ==
  LET position == activeIndex[id] IN
  IF position = 0
  THEN UNCHANGED <<activeIds, activeIndex>>
  ELSE /\ activeIds' = SwapRemove(activeIds, position)
       /\ activeIndex' =
            [activeIndex EXCEPT ![activeIds[Len(activeIds)]] = position, ![id] = 0]

(* _consumers is not deleted: the mapping of a closed account keeps its
   entries. *)
cancelSubscription(caller, id) ==
  /\ accounts[id].owner = caller
  /\ accounts[id].reserved = 0
  /\ counters[id].pending = 0
  /\ accounts' = [accounts EXCEPT ![id] = NoAccount]
  /\ consumerList' = [consumerList EXCEPT ![id] = <<>>]
  /\ counters' = [counters EXCEPT ![id] = NoCounters]
  /\ pendingOwners' = [pendingOwners EXCEPT ![id] = NoAddr]
  /\ _deactivate(id)
  /\ _send(accounts[id].balance)
  /\ UNCHANGED <<lastSubId, consumers, withdrawable>>

(* Mutant: without onlyOwnerOf. *)
offerByAnyone(caller, id, newOwner) ==
  /\ pendingOwners' = [pendingOwners EXCEPT ![id] = newOwner]
  /\ UNCHANGED <<lastSubId, accounts, consumers, consumerList, counters,
                 withdrawable, activeIds, activeIndex, held>>

(* Offering NoAddr withdraws a standing offer. *)
requestSubscriptionOwnerTransfer(caller, id, newOwner) ==
  /\ accounts[id].owner = caller
  /\ pendingOwners' = [pendingOwners EXCEPT ![id] = newOwner]
  /\ UNCHANGED <<lastSubId, accounts, consumers, consumerList, counters,
                 withdrawable, activeIds, activeIndex, held>>

acceptSubscriptionOwnerTransfer(caller, id) ==
  /\ pendingOwners[id] = caller
  /\ accounts' = [accounts EXCEPT ![id].owner = caller]
  /\ pendingOwners' = [pendingOwners EXCEPT ![id] = NoAddr]
  /\ UNCHANGED <<lastSubId, consumers, consumerList, counters, withdrawable,
                 activeIds, activeIndex, held>>

(* For operators, to collect what fulfilling requests earned them. *)
withdraw(caller) ==
  /\ withdrawable[caller] # 0
  /\ withdrawable' = [withdrawable EXCEPT ![caller] = 0]
  /\ _send(withdrawable[caller])
  /\ UNCHANGED <<lastSubId, accounts, pendingOwners, consumers, consumerList,
                 counters, activeIds, activeIndex>>

-----------------------------------------------------------------------------
(* Coordinator API (onlyCoordinator).  Only accounts, counters and         *)
(* withdrawable are written; SubRest names what none of the three touches. *)

SubRest == <<lastSubId, pendingOwners, consumers, consumerList, activeIds,
             activeIndex, held>>

(* Mutant: does not look at what is available. *)
reserveUnchecked(id, amount) ==
  /\ counters[id].total < MaxCount
  /\ counters[id].pending < MaxCount
  /\ accounts' = [accounts EXCEPT ![id].reserved = @ + amount]
  /\ counters' = [counters EXCEPT ![id].total = @ + 1, ![id].pending = @ + 1]
  /\ UNCHANGED <<withdrawable, SubRest>>

(* Nothing here asks whether the account is alive: a closed account has
   nothing available, so only a zero amount passes. *)
reserve(id, amount) ==
  /\ available(id) >= amount
  /\ counters[id].total < MaxCount
  /\ counters[id].pending < MaxCount
  /\ accounts' = [accounts EXCEPT ![id].reserved = @ + amount]
  /\ counters' = [counters EXCEPT ![id].total = @ + 1, ![id].pending = @ + 1]
  /\ UNCHANGED <<withdrawable, SubRest>>

(* Mutants: wraps below zero; forgets to count down. *)
_closeOneUnchecked(id) == counters' = [counters EXCEPT ![id].pending = @ - 1]

_closeNone(id) == UNCHANGED counters

(* Saturating: an account with nothing pending stays at zero. *)
_closeOne(id) ==
  counters' = [counters EXCEPT ![id].pending = IF @ # 0 THEN @ - 1 ELSE @]

release(id, amount) ==
  /\ accounts[id].reserved >= amount
  /\ accounts' = [accounts EXCEPT ![id].reserved = @ - amount]
  /\ _closeOne(id)
  /\ UNCHANGED <<withdrawable, SubRest>>

(* Credit, not transfer. *)
settle(id, amount, payee) ==
  /\ accounts[id].reserved >= amount
  /\ accounts[id].balance >= amount
  /\ withdrawable[payee] + amount <= MaxUint96
  /\ accounts' = [accounts EXCEPT ![id].reserved = @ - amount,
                                  ![id].balance = @ - amount]
  /\ withdrawable' = [withdrawable EXCEPT ![payee] = @ + amount]
  /\ _closeOne(id)
  /\ UNCHANGED SubRest

-----------------------------------------------------------------------------
(* Everything that may be called without being the coordinator. *)
OwnerApi(caller) ==
  \/ caller \in Managers /\ createSubscription(caller)
  \/ withdraw(caller)
  \/ \E id \in SubIds :
       \/ \E value \in Deposits : fundSubscriptionWithNative(id, value)
       \/ \E amount \in Amounts : withdrawFromSubscription(caller, id, amount)
       \/ \E consumer \in Addresses :
            \/ addConsumer(caller, id, consumer)
            \/ removeConsumer(caller, id, consumer)
       \/ cancelSubscription(caller, id)
       \/ \E newOwner \in Offers :
            requestSubscriptionOwnerTransfer(caller, id, newOwner)
       \/ acceptSubscriptionOwnerTransfer(caller, id)

CoordinatorApi ==
  \E id \in SubIds, amount \in Amounts :
    \/ reserve(id, amount)
    \/ release(id, amount)
    \/ \E payee \in Addresses : settle(id, amount, payee)

SubNext ==
  \/ \E caller \in Addresses : OwnerApi(caller)
  \/ CoordinatorApi

SubSpec == SubInit /\ [][SubNext]_subVars

-----------------------------------------------------------------------------
SubTypeOK ==
  /\ lastSubId \in 0..MaxSubId
  /\ accounts \in [SubIds -> Account]
  /\ pendingOwners \in [SubIds -> MaybeAddress]
  /\ consumers \in [SubIds -> SUBSET Addresses]
  /\ consumerList \in [SubIds -> Seq(Addresses)]
  /\ counters \in [SubIds -> Counters]
  /\ withdrawable \in [Addresses -> 0..MaxUint96]
  /\ activeIds \in Seq(SubIds)
  /\ activeIndex \in [SubIds -> Nat]
  /\ held \in Nat

(* However funding, withdrawing, reserving, releasing and settling interleave,
   what is reserved behind open requests is really in the account: every
   checked subtraction balance - reserved succeeds. *)
ReservedWithinBalance ==
  \A id \in SubIds : accounts[id].reserved <= accounts[id].balance

(* activeIds and activeIndex describe the same set, the live accounts, after
   any sequence of creations and swap-removals: paging through
   getActiveSubscriptionIds shows each live account exactly once. *)
ActiveIdsExact ==
  /\ \A id \in SubIds : activeIndex[id] \in 0..Len(activeIds)
  /\ \A id \in SubIds : Alive(id) <=> activeIndex[id] # 0
  /\ \A p \in 1..Len(activeIds) : activeIndex[activeIds[p]] = p
  /\ \A id \in SubIds : activeIndex[id] # 0 => activeIds[activeIndex[id]] = id

(* The list getSubscription hands a manager is the mapping requests are
   authorised by, without repetition, for every live account. *)
ConsumerListExact ==
  \A id \in SubIds : Alive(id) =>
    /\ {consumerList[id][i] : i \in DOMAIN consumerList[id]} = consumers[id]
    /\ \A i, j \in DOMAIN consumerList[id] :
         consumerList[id][i] = consumerList[id][j] => i = j

(* Every unit of coin the contract owns backs exactly one claim: a balance or
   what a payee may withdraw.  No sequence of deposits, withdrawals,
   settlements and cancellations creates or strands coin. *)
Solvent ==
  held = Total([id \in SubIds |-> accounts[id].balance]) + Total(withdrawable)

(* A closed account holds and reserves nothing, and is on offer to nobody. *)
ClosedIsEmpty ==
  \A id \in SubIds : ~Alive(id) =>
    /\ accounts[id].balance = 0
    /\ accounts[id].reserved = 0
    /\ pendingOwners[id] = NoAddr

(* Ids not issued yet are not owned and authorise nobody. *)
UnissuedIsFresh ==
  \A id \in SubIds : id > lastSubId =>
    /\ ~Alive(id)
    /\ consumers[id] = {}
    /\ consumerList[id] = <<>>

(* The inductive invariant. *)
SubInv ==
  /\ SubTypeOK
  /\ ReservedWithinBalance
  /\ ActiveIdsExact
  /\ ConsumerListExact
  /\ ClosedIsEmpty
  /\ UnissuedIsFresh

(* Once cancelled, an id never comes back under any owner: not through a
   transfer that was on offer when it was cancelled, and not by being issued
   again. *)
ClosedForGood ==
  [][\A id \in SubIds : id <= lastSubId /\ ~Alive(id) => ~Alive(id)']_subVars

=============================================================================

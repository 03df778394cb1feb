------------------------- MODULE SubscriptionProofs -------------------------
(***************************************************************************)
(* The accounts stay consistent for any number of accounts and addresses,   *)
(* any widths, and any coordinator: SubInv is inductive.                    *)
(***************************************************************************)
EXTENDS Subscription, SequenceTheorems, FiniteSetTheorems, TLAPS

(* list[i] = list[last]; list.pop() keeps a list of S a list of S, one
   shorter. *)
LEMMA SwapRemoveType ==
  ASSUME NEW S, NEW list \in Seq(S), NEW i \in 1..Len(list)
  PROVE  /\ SwapRemove(list, i) \in Seq(S)
         /\ Len(SwapRemove(list, i)) = Len(list) - 1
         /\ \A j \in 1..(Len(list) - 1) :
              SwapRemove(list, i)[j] = IF j = i THEN list[Len(list)] ELSE list[j]
<1>1. Len(list) \in Nat /\ Len(list) >= 1
  OBVIOUS
<1>2. \A j \in 1..Len(list) : list[j] \in S
  OBVIOUS
<1>3. SwapRemove(list, i) \in [1..(Len(list) - 1) -> S]
  BY <1>1, <1>2 DEF SwapRemove
<1> QED
  BY <1>1, <1>3 DEF SwapRemove

(* The constructor leaves no account, so every part of the invariant holds. *)
LEMMA SubInitInv == SubInit => SubInv
<1> SUFFICES ASSUME SubInit PROVE SubInv
  OBVIOUS
<1> USE SubscriptionAssumption DEF SubInit, NoAccount, NoCounters
<1>1. SubTypeOK
  BY DEF SubTypeOK, Account, Counters, MaybeAddress, SubIds
<1>2. ReservedWithinBalance
  BY DEF ReservedWithinBalance
<1>3. ActiveIdsExact
  BY DEF ActiveIdsExact, Alive
<1>4. ConsumerListExact
  BY DEF ConsumerListExact, Alive
<1>5. ClosedIsEmpty
  BY DEF ClosedIsEmpty
<1>6. UnissuedIsFresh
  BY DEF UnissuedIsFresh, Alive
<1> QED
  BY <1>1, <1>2, <1>3, <1>4, <1>5, <1>6 DEF SubInv

-----------------------------------------------------------------------------
(* Money.  Five functions move an account's balance or reserved amount and
   nothing the lists depend on.  MoneyStep says what they have in common. *)
MoneyStep(id) ==
  /\ accounts' \in [SubIds -> Account]
  /\ \A s \in SubIds : accounts'[s].owner = accounts[s].owner
  /\ \A s \in SubIds \ {id} : accounts'[s] = accounts[s]
  /\ accounts'[id].reserved <= accounts'[id].balance
  /\ ~Alive(id) => accounts'[id].balance = 0 /\ accounts'[id].reserved = 0
  /\ counters' \in [SubIds -> Counters]
  /\ withdrawable' \in [Addresses -> 0..MaxUint96]
  /\ held' \in Nat
  /\ UNCHANGED <<lastSubId, pendingOwners, consumers, consumerList, activeIds,
                 activeIndex>>

(* Closing a request leaves the counters counters. *)
LEMMA CloseOneType ==
  ASSUME SubTypeOK, NEW id \in SubIds, _closeOne(id)
  PROVE  counters' \in [SubIds -> Counters]
<1>1. /\ counters \in [SubIds -> Counters]
      /\ counters[id] \in Counters
  BY DEF SubTypeOK
<1>2. CASE counters[id].pending # 0
  BY <1>1, <1>2, SubscriptionAssumption DEF _closeOne, Counters
<1>3. CASE counters[id].pending = 0
  BY <1>1, <1>3, SubscriptionAssumption DEF _closeOne, Counters
<1> QED
  BY <1>2, <1>3

(* Every money function is a MoneyStep. *)
LEMMA MoneyStepLemma ==
  ASSUME SubInv, NEW id \in SubIds, NEW amount \in Nat,
         \/ fundSubscriptionWithNative(id, amount)
         \/ \E caller \in Addresses : withdrawFromSubscription(caller, id, amount)
         \/ reserve(id, amount)
         \/ release(id, amount)
         \/ \E payee \in Addresses : settle(id, amount, payee)
  PROVE  MoneyStep(id)
<1> USE SubscriptionAssumption, AddressAssumption
<1>1. /\ accounts \in [SubIds -> Account]
      /\ accounts[id] \in Account
      /\ accounts[id].reserved <= accounts[id].balance
      /\ accounts[id].balance \in 0..MaxUint96
      /\ accounts[id].reserved \in 0..MaxUint96
      /\ ~Alive(id) => accounts[id].balance = 0 /\ accounts[id].reserved = 0
      /\ counters \in [SubIds -> Counters] /\ counters[id] \in Counters
      /\ withdrawable \in [Addresses -> 0..MaxUint96]
      /\ held \in Nat
  BY DEF SubInv, SubTypeOK, ReservedWithinBalance, ClosedIsEmpty, Account
<1>2. CASE fundSubscriptionWithNative(id, amount)
  <2>1. accounts' \in [SubIds -> Account]
    BY <1>1, <1>2 DEF fundSubscriptionWithNative, Account
  <2>2. /\ \A s \in SubIds \ {id} : accounts'[s] = accounts[s]
        /\ accounts'[id].owner = accounts[id].owner
        /\ accounts'[id].balance = accounts[id].balance + amount
        /\ accounts'[id].reserved = accounts[id].reserved
    BY <1>1, <1>2 DEF fundSubscriptionWithNative, Account
  <2> QED
    BY <1>1, <1>2, <2>1, <2>2 DEF fundSubscriptionWithNative, MoneyStep
<1>3. ASSUME NEW caller \in Addresses, withdrawFromSubscription(caller, id, amount)
      PROVE  MoneyStep(id)
  <2>1. accounts' \in [SubIds -> Account]
    BY <1>1, <1>3 DEF withdrawFromSubscription, available, Account
  <2>2. /\ \A s \in SubIds \ {id} : accounts'[s] = accounts[s]
        /\ accounts'[id].owner = accounts[id].owner
        /\ accounts'[id].balance = accounts[id].balance - amount
        /\ accounts'[id].reserved = accounts[id].reserved
    BY <1>1, <1>3 DEF withdrawFromSubscription, Account
  <2> QED
    BY <1>1, <1>3, <2>1, <2>2 DEF withdrawFromSubscription, available, _send, Alive, MoneyStep
<1>4. CASE reserve(id, amount)
  <2>1. accounts' \in [SubIds -> Account]
    BY <1>1, <1>4 DEF reserve, available, Account
  <2>2. /\ \A s \in SubIds \ {id} : accounts'[s] = accounts[s]
        /\ accounts'[id].owner = accounts[id].owner
        /\ accounts'[id].balance = accounts[id].balance
        /\ accounts'[id].reserved = accounts[id].reserved + amount
    BY <1>1, <1>4 DEF reserve, Account
  <2>3. counters' \in [SubIds -> Counters]
    BY <1>1, <1>4 DEF reserve, Counters
  <2> QED
    BY <1>1, <1>4, <2>1, <2>2, <2>3 DEF reserve, available, SubRest, MoneyStep
<1>5. CASE release(id, amount)
  <2>1. accounts' \in [SubIds -> Account]
    BY <1>1, <1>5 DEF release, Account
  <2>2. /\ \A s \in SubIds \ {id} : accounts'[s] = accounts[s]
        /\ accounts'[id].owner = accounts[id].owner
        /\ accounts'[id].balance = accounts[id].balance
        /\ accounts'[id].reserved = accounts[id].reserved - amount
    BY <1>1, <1>5 DEF release, Account
  <2>3. counters' \in [SubIds -> Counters]
    BY <1>5, CloseOneType DEF release, SubInv
  <2> QED
    BY <1>1, <1>5, <2>1, <2>2, <2>3 DEF release, SubRest, MoneyStep
<1>6. ASSUME NEW payee \in Addresses, settle(id, amount, payee)
      PROVE  MoneyStep(id)
  <2> DEFINE new == [owner |-> accounts[id].owner,
                     balance |-> accounts[id].balance - amount,
                     reserved |-> accounts[id].reserved - amount]
  <2>1. new \in Account
    BY <1>1, <1>6 DEF settle, Account
  <2>2. /\ accounts' = [s \in SubIds |-> accounts'[s]]
        /\ \A s \in SubIds \ {id} : accounts'[s] = accounts[s]
    BY <1>1, <1>6 DEF settle
  <2>3. accounts'[id] = [[accounts[id] EXCEPT !.reserved = accounts[id].reserved - amount]
                          EXCEPT !.balance = accounts[id].balance - amount]
    BY <1>1, <1>6 DEF settle, Account
  <2>4. accounts'[id] = new
    BY <1>1, <2>3 DEF Account
  <2>5. accounts' \in [SubIds -> Account]
    BY <1>1, <2>1, <2>2, <2>4
  <2>6. /\ \A s \in SubIds \ {id} : accounts'[s] = accounts[s]
        /\ accounts'[id].owner = accounts[id].owner
        /\ accounts'[id].balance = accounts[id].balance - amount
        /\ accounts'[id].reserved = accounts[id].reserved - amount
    BY <1>1, <1>6 DEF settle, Account
  <2>7. /\ counters' \in [SubIds -> Counters]
        /\ withdrawable' \in [Addresses -> 0..MaxUint96]
    BY <1>1, <1>6, CloseOneType DEF settle, SubInv
  <2> QED
    BY <1>1, <1>6, <2>5, <2>6, <2>7 DEF settle, SubRest, MoneyStep
<1> QED
  BY <1>2, <1>3, <1>4, <1>5, <1>6

(* A MoneyStep preserves the invariant. *)
LEMMA MoneyInv ==
  ASSUME SubInv, NEW id \in SubIds, MoneyStep(id)
  PROVE  SubInv'
<1> USE DEF MoneyStep
<1>1. SubTypeOK'
  BY DEF SubInv, SubTypeOK
<1>2. ReservedWithinBalance'
  BY DEF SubInv, ReservedWithinBalance
<1>3. ActiveIdsExact'
  BY DEF SubInv, ActiveIdsExact, Alive
<1>4. ConsumerListExact'
  BY DEF SubInv, ConsumerListExact, Alive
<1>5. ClosedIsEmpty'
  BY DEF SubInv, ClosedIsEmpty, Alive
<1>6. UnissuedIsFresh'
  BY DEF SubInv, UnissuedIsFresh, Alive
<1> QED
  BY <1>1, <1>2, <1>3, <1>4, <1>5, <1>6 DEF SubInv
-----------------------------------------------------------------------------
(* A new account takes an id nobody has had, at the end of the list of live
   ids. *)
LEMMA CreateInv ==
  ASSUME SubInv, NEW caller \in Addresses, createSubscription(caller)
  PROVE  SubInv'
<1> USE SubscriptionAssumption, AddressAssumption
<1> DEFINE id == lastSubId + 1
<1>0. id \in SubIds /\ id \in Nat /\ lastSubId \in Nat /\ id = lastSubId + 1
  BY DEF createSubscription, SubInv, SubTypeOK, SubIds
<1> HIDE DEF id
<1>1. /\ id \in SubIds /\ id > lastSubId
      /\ ~Alive(id) /\ consumers[id] = {} /\ consumerList[id] = <<>>
      /\ accounts \in [SubIds -> Account]
      /\ accounts[id] \in Account
      /\ accounts[id].balance = 0 /\ accounts[id].reserved = 0
  BY <1>0 DEF SubInv, SubTypeOK, UnissuedIsFresh, ClosedIsEmpty
<1>2. /\ lastSubId' = id
      /\ accounts' = [accounts EXCEPT ![id].owner = caller]
      /\ activeIds' = Append(activeIds, id)
      /\ activeIndex' = [activeIndex EXCEPT ![id] = Len(activeIds) + 1]
      /\ UNCHANGED <<pendingOwners, consumers, consumerList, counters,
                     withdrawable, held>>
  BY <1>0 DEF createSubscription
<1>3. /\ \A s \in SubIds \ {id} : accounts'[s] = accounts[s]
      /\ accounts'[id].owner = caller
      /\ accounts'[id].balance = 0
      /\ accounts'[id].reserved = 0
  BY <1>1, <1>2 DEF Account
<1>4. /\ activeIds \in Seq(SubIds)
      /\ Len(activeIds) \in Nat
      /\ activeIndex \in [SubIds -> Nat]
      /\ activeIndex[id] = 0
  BY <1>1 DEF SubInv, SubTypeOK, ActiveIdsExact
<1>5. SubTypeOK'
  <2>1. accounts' \in [SubIds -> Account]
    BY <1>1, <1>2 DEF Account, MaybeAddress
  <2>2. lastSubId' \in 0..MaxSubId
    BY <1>1, <1>2 DEF SubIds
  <2>3. activeIds' \in Seq(SubIds) /\ activeIndex' \in [SubIds -> Nat]
    BY <1>1, <1>2, <1>4
  <2> QED
    BY <1>2, <2>1, <2>2, <2>3 DEF SubInv, SubTypeOK
<1>6. ReservedWithinBalance'
  BY <1>3 DEF SubInv, ReservedWithinBalance
<1>7. ActiveIdsExact'
  <2>1. /\ Len(activeIds') = Len(activeIds) + 1
        /\ activeIds'[Len(activeIds) + 1] = id
        /\ \A p \in 1..Len(activeIds) : activeIds'[p] = activeIds[p]
    BY <1>1, <1>2, <1>4
  <2>2. \A p \in 1..Len(activeIds) : activeIds[p] \in SubIds /\ activeIds[p] # id
    BY <1>4 DEF SubInv, ActiveIdsExact
  <2>3. /\ activeIndex'[id] = Len(activeIds) + 1
        /\ \A s \in SubIds \ {id} : activeIndex'[s] = activeIndex[s]
    BY <1>1, <1>2, <1>4
  <2>4. \A s \in SubIds : activeIndex'[s] \in 0..Len(activeIds')
    BY <1>4, <2>1, <2>3 DEF SubInv, ActiveIdsExact
  <2>5. \A s \in SubIds : Alive(s)' <=> activeIndex'[s] # 0
    BY <1>3, <1>4, <2>3 DEF SubInv, ActiveIdsExact, Alive
  <2>6. \A p \in 1..Len(activeIds') : activeIndex'[activeIds'[p]] = p
    BY <1>4, <2>1, <2>2, <2>3 DEF SubInv, ActiveIdsExact
  <2>7. \A s \in SubIds : activeIndex'[s] # 0 => activeIds'[activeIndex'[s]] = s
    BY <1>4, <2>1, <2>3 DEF SubInv, ActiveIdsExact
  <2> QED
    BY <2>4, <2>5, <2>6, <2>7 DEF ActiveIdsExact
<1>8. ConsumerListExact'
  BY <1>1, <1>2, <1>3 DEF SubInv, ConsumerListExact, Alive
<1>9. ClosedIsEmpty'
  BY <1>2, <1>3 DEF SubInv, ClosedIsEmpty, Alive
<1>10. UnissuedIsFresh'
  <2>1. \A s \in SubIds : s > lastSubId' => s > lastSubId /\ s # id
    BY <1>0, <1>2 DEF SubIds
  <2> QED
    BY <1>2, <1>3, <2>1 DEF SubInv, UnissuedIsFresh, Alive
<1> QED
  BY <1>5, <1>6, <1>7, <1>8, <1>9, <1>10 DEF SubInv
-----------------------------------------------------------------------------
(* The consumers.  Both functions change the set and the list of one live
   account together. *)
LEMMA ConsumersInv ==
  ASSUME SubInv, NEW id \in SubIds, Alive(id),
         NEW list \in Seq(Addresses), NEW set \in SUBSET Addresses,
         {list[i] : i \in DOMAIN list} = set,
         \A i, j \in DOMAIN list : list[i] = list[j] => i = j,
         consumers' = [consumers EXCEPT ![id] = set],
         consumerList' = [consumerList EXCEPT ![id] = list],
         UNCHANGED <<lastSubId, accounts, pendingOwners, counters, withdrawable,
                     activeIds, activeIndex, held>>
  PROVE  SubInv'
<1>1. /\ consumers \in [SubIds -> SUBSET Addresses]
      /\ consumerList \in [SubIds -> Seq(Addresses)]
  BY DEF SubInv, SubTypeOK
<1>2. SubTypeOK'
  BY <1>1 DEF SubInv, SubTypeOK
<1>3. ReservedWithinBalance' /\ ClosedIsEmpty' /\ ActiveIdsExact'
  BY DEF SubInv, ReservedWithinBalance, ClosedIsEmpty, ActiveIdsExact, Alive
<1>4. /\ consumers'[id] = set /\ consumerList'[id] = list
      /\ \A s \in SubIds \ {id} : /\ consumers'[s] = consumers[s]
                                  /\ consumerList'[s] = consumerList[s]
  BY <1>1
<1>5. ConsumerListExact'
  <2> SUFFICES ASSUME NEW s \in SubIds, Alive(s)'
               PROVE  /\ {consumerList'[s][i] : i \in DOMAIN consumerList'[s]} = consumers'[s]
                      /\ \A i, j \in DOMAIN consumerList'[s] :
                           consumerList'[s][i] = consumerList'[s][j] => i = j
    BY DEF ConsumerListExact
  <2>1. CASE s = id
    BY <1>4, <2>1
  <2>2. CASE s # id
    BY <1>4, <2>2 DEF SubInv, ConsumerListExact, Alive
  <2> QED
    BY <2>1, <2>2
<1>6. UnissuedIsFresh'
  BY <1>4 DEF SubInv, UnissuedIsFresh, Alive
<1> QED
  BY <1>2, <1>3, <1>5, <1>6 DEF SubInv

(* addConsumer appends an address the list does not have. *)
LEMMA AddConsumerInv ==
  ASSUME SubInv, NEW caller \in Addresses, NEW id \in SubIds, NEW c \in Addresses,
         addConsumer(caller, id, c)
  PROVE  SubInv'
<1> DEFINE old == consumerList[id]
           list == Append(old, c)
           set == consumers[id] \cup {c}
<1>1. /\ old \in Seq(Addresses)
      /\ consumers[id] \in SUBSET Addresses
      /\ Alive(id)
  BY AddressAssumption DEF SubInv, SubTypeOK, addConsumer, Alive
<1>2. /\ {old[i] : i \in DOMAIN old} = consumers[id]
      /\ \A i, j \in DOMAIN old : old[i] = old[j] => i = j
      /\ c \notin consumers[id]
  BY <1>1 DEF SubInv, ConsumerListExact, addConsumer
<1>3. /\ consumers' = [consumers EXCEPT ![id] = set]
      /\ consumerList' = [consumerList EXCEPT ![id] = list]
      /\ UNCHANGED <<lastSubId, accounts, pendingOwners, counters, withdrawable,
                     activeIds, activeIndex, held>>
  BY DEF addConsumer
<1> HIDE DEF old
<1>4. /\ list \in Seq(Addresses) /\ set \in SUBSET Addresses
      /\ DOMAIN old = 1..Len(old) /\ DOMAIN list = 1..(Len(old) + 1) /\ Len(old) \in Nat
      /\ \A i \in 1..Len(old) : list[i] = old[i]
      /\ list[Len(old) + 1] = c
  BY <1>1
<1> HIDE DEF list
<1>5. {list[i] : i \in DOMAIN list} = set
  BY <1>2, <1>4
<1>6. \A i, j \in DOMAIN list : list[i] = list[j] => i = j
  BY <1>2, <1>4
<1> HIDE DEF set
<1> QED
  BY <1>1, <1>3, <1>4, <1>5, <1>6, ConsumersInv

(* removeConsumer takes out the entry it finds, which is the only one. *)
LEMMA RemoveConsumerInv ==
  ASSUME SubInv, NEW caller \in Addresses, NEW id \in SubIds, NEW c \in Addresses,
         removeConsumer(caller, id, c)
  PROVE  SubInv'
<1> DEFINE old == consumerList[id]
           set == consumers[id] \ {c}
<1>1. /\ old \in Seq(Addresses)
      /\ consumers[id] \in SUBSET Addresses
      /\ Alive(id)
  BY AddressAssumption DEF SubInv, SubTypeOK, removeConsumer, Alive
<1>2. /\ {old[i] : i \in DOMAIN old} = consumers[id]
      /\ \A i, j \in DOMAIN old : old[i] = old[j] => i = j
      /\ c \in consumers[id]
  BY <1>1 DEF SubInv, ConsumerListExact, removeConsumer
<1>3. PICK k \in DOMAIN old : /\ old[k] = c
                              /\ consumerList' = [consumerList EXCEPT ![id] = SwapRemove(old, k)]
  BY <1>2 DEF removeConsumer
<1>4. /\ consumers' = [consumers EXCEPT ![id] = set]
      /\ UNCHANGED <<lastSubId, accounts, pendingOwners, counters, withdrawable,
                     activeIds, activeIndex, held>>
  BY DEF removeConsumer
<1> HIDE DEF old
<1>5. DOMAIN old = 1..Len(old) /\ Len(old) \in Nat /\ k \in 1..Len(old)
  BY <1>1, <1>3
<1> DEFINE list == SwapRemove(old, k)
<1>6. /\ list \in Seq(Addresses)
      /\ Len(list) = Len(old) - 1
      /\ \A j \in 1..(Len(old) - 1) : list[j] = IF j = k THEN old[Len(old)] ELSE old[j]
  BY <1>1, <1>5, SwapRemoveType
<1> HIDE DEF list
<1>7. DOMAIN list = 1..(Len(old) - 1)
  BY <1>5, <1>6
<1>8. {list[i] : i \in DOMAIN list} = set
  <2>1. \A i \in DOMAIN list : list[i] \in set
    BY <1>2, <1>3, <1>5, <1>6, <1>7
  <2>2. ASSUME NEW a \in set PROVE \E i \in DOMAIN list : list[i] = a
    <3>1. PICK i \in 1..Len(old) : old[i] = a /\ i # k
      BY <1>2, <1>3, <1>5
    <3>2. CASE i = Len(old)
      <4>1. k \in DOMAIN list /\ list[k] = a
        BY <1>5, <1>6, <1>7, <3>1, <3>2
      <4> QED
        BY <4>1
    <3>3. CASE i # Len(old)
      <4> DEFINE n == Len(old)
      <4>1. n \in Nat /\ i \in 1..n /\ i # n
        BY <1>5, <3>3
      <4> HIDE DEF n
      <4>2. i \in 1..(n - 1)
        BY <4>1
      <4>3. i \in DOMAIN list /\ list[i] = a
        BY <1>6, <1>7, <3>1, <4>2 DEF n
      <4> QED
        BY <4>3
    <3> QED
      BY <3>2, <3>3
  <2> QED
    BY <2>1, <2>2
<1>9. \A i, j \in DOMAIN list : list[i] = list[j] => i = j
  BY <1>2, <1>5, <1>6, <1>7
<1>10. set \in SUBSET Addresses
  BY <1>1
<1> HIDE DEF set
<1> QED
  BY <1>1, <1>3, <1>4, <1>6, <1>8, <1>9, <1>10, ConsumersInv DEF list
-----------------------------------------------------------------------------
(* Cancelling.  The last live id moves into the place of the one removed: the
   list and the index stay inverse to each other. *)
LEMMA DeactivateExact ==
  ASSUME SubInv, NEW id \in SubIds, Alive(id), _deactivate(id)
  PROVE  /\ activeIds' \in Seq(SubIds)
         /\ activeIndex' \in [SubIds -> Nat]
         /\ \A s \in SubIds : activeIndex'[s] \in 0..Len(activeIds')
         /\ \A s \in SubIds : activeIndex'[s] # 0 <=> (s # id /\ activeIndex[s] # 0)
         /\ \A p \in 1..Len(activeIds') : activeIndex'[activeIds'[p]] = p
         /\ \A s \in SubIds : activeIndex'[s] # 0 => activeIds'[activeIndex'[s]] = s
<1> DEFINE n == Len(activeIds)
           k == activeIndex[id]
           last == activeIds[n]
<1>1. /\ activeIds \in Seq(SubIds) /\ n \in Nat
      /\ activeIndex \in [SubIds -> Nat]
      /\ k \in 1..n
  BY DEF SubInv, SubTypeOK, ActiveIdsExact
<1>2. /\ \A p \in 1..n : activeIds[p] \in SubIds /\ activeIndex[activeIds[p]] = p
      /\ \A s \in SubIds : activeIndex[s] \in 0..n
      /\ \A s \in SubIds : activeIndex[s] # 0 => activeIds[activeIndex[s]] = s
  BY <1>1 DEF SubInv, ActiveIdsExact
<1>3. /\ activeIds' = SwapRemove(activeIds, k)
      /\ activeIndex' = [activeIndex EXCEPT ![last] = k, ![id] = 0]
  BY <1>1 DEF _deactivate
<1>4. /\ activeIds' \in Seq(SubIds)
      /\ Len(activeIds') = n - 1
      /\ \A p \in 1..(n - 1) : activeIds'[p] = IF p = k THEN last ELSE activeIds[p]
  BY <1>1, <1>3, SwapRemoveType
<1>5. last \in SubIds /\ activeIndex[last] = n /\ activeIds[k] = id
  BY <1>1, <1>2
<1> HIDE DEF n, k, last
<1>6. /\ activeIndex' \in [SubIds -> Nat]
      /\ activeIndex'[id] = 0
      /\ last # id => activeIndex'[last] = k
      /\ \A s \in SubIds : s # id /\ s # last => activeIndex'[s] = activeIndex[s]
  BY <1>1, <1>3, <1>5
<1>7. \A s \in SubIds : s # id => activeIndex[s] # k
  BY <1>1, <1>2, <1>5
<1>8. \A s \in SubIds : s # last => activeIndex[s] # n
  BY <1>1, <1>2 DEF last
<1>9. \A s \in SubIds : activeIndex'[s] \in 0..(n - 1)
  <2> TAKE s \in SubIds
  <2>1. CASE s = id
    BY <1>1, <1>6, <2>1
  <2>2. CASE s # id /\ s = last
    <3>1. k # n
      BY <1>5, <1>7, <2>2
    <3> QED
      BY <1>1, <1>6, <2>2, <3>1
  <2>3. CASE s # id /\ s # last
    <3>1. activeIndex'[s] = activeIndex[s] /\ activeIndex[s] \in 0..n /\ activeIndex[s] # n
      BY <1>2, <1>6, <1>8, <2>3
    <3> QED
      BY <1>1, <3>1
  <2> QED
    BY <2>1, <2>2, <2>3
<1>10. \A s \in SubIds : activeIndex'[s] # 0 <=> (s # id /\ activeIndex[s] # 0)
  BY <1>1, <1>5, <1>6
<1>11. \A p \in 1..(n - 1) : activeIndex'[activeIds'[p]] = p
  <2> TAKE p \in 1..(n - 1)
  <2>1. CASE p = k
    BY <1>1, <1>2, <1>4, <1>5, <1>6, <2>1
  <2>2. CASE p # k
    <3>1. /\ activeIds'[p] = activeIds[p] /\ activeIds[p] \in SubIds
          /\ activeIndex[activeIds[p]] = p
      BY <1>1, <1>2, <1>4, <2>2
    <3>2. activeIds[p] # id /\ activeIds[p] # last
      BY <1>1, <1>2, <1>5, <2>2, <3>1 DEF k
    <3> QED
      BY <1>6, <3>1, <3>2
  <2> QED
    BY <2>1, <2>2
<1>12. \A s \in SubIds : activeIndex'[s] # 0 => activeIds'[activeIndex'[s]] = s
  <2> SUFFICES ASSUME NEW s \in SubIds, activeIndex'[s] # 0
               PROVE  activeIds'[activeIndex'[s]] = s
    OBVIOUS
  <2>1. s # id /\ activeIndex[s] # 0 /\ activeIndex'[s] \in 1..(n - 1)
    BY <1>1, <1>9, <1>10
  <2>2. CASE s = last
    BY <1>4, <1>6, <2>1, <2>2
  <2>3. CASE s # last
    BY <1>2, <1>4, <1>6, <1>7, <2>1, <2>3
  <2> QED
    BY <2>2, <2>3
<1> QED
  BY <1>4, <1>6, <1>9, <1>10, <1>11, <1>12

(* A cancelled account leaves nothing behind but its consumers mapping. *)
LEMMA CancelInv ==
  ASSUME SubInv, NEW caller \in Addresses, NEW id \in SubIds,
         cancelSubscription(caller, id)
  PROVE  SubInv'
<1> USE SubscriptionAssumption, AddressAssumption
<1>1. /\ Alive(id) /\ _deactivate(id)
      /\ accounts \in [SubIds -> Account]
      /\ accounts[id].balance \in Nat
      /\ UNCHANGED <<lastSubId, consumers, withdrawable>>
  BY DEF cancelSubscription, Alive, SubInv, SubTypeOK, Account
<1>2. /\ accounts' = [accounts EXCEPT ![id] = NoAccount]
      /\ consumerList' = [consumerList EXCEPT ![id] = <<>>]
      /\ counters' = [counters EXCEPT ![id] = NoCounters]
      /\ pendingOwners' = [pendingOwners EXCEPT ![id] = NoAddr]
  BY DEF cancelSubscription
<1>3. /\ ~Alive(id)'
      /\ accounts'[id].balance = 0 /\ accounts'[id].reserved = 0
      /\ pendingOwners'[id] = NoAddr
      /\ \A s \in SubIds \ {id} : /\ accounts'[s] = accounts[s]
                                  /\ pendingOwners'[s] = pendingOwners[s]
                                  /\ consumerList'[s] = consumerList[s]
  BY <1>1, <1>2 DEF SubInv, SubTypeOK, NoAccount, Alive
<1>4. SubTypeOK'
  <2>1. NoAccount \in Account /\ NoCounters \in Counters
    BY DEF NoAccount, NoCounters, Account, Counters, MaybeAddress
  <2>2. held' \in Nat
    BY <1>1 DEF cancelSubscription, _send, SubInv, SubTypeOK
  <2>3. activeIds' \in Seq(SubIds) /\ activeIndex' \in [SubIds -> Nat]
    BY <1>1, DeactivateExact
  <2>4. /\ pendingOwners' \in [SubIds -> MaybeAddress]
        /\ consumerList' \in [SubIds -> Seq(Addresses)]
        /\ counters' \in [SubIds -> Counters]
        /\ accounts' \in [SubIds -> Account]
    BY <1>2, <2>1 DEF SubInv, SubTypeOK, MaybeAddress
  <2> QED
    BY <1>1, <2>2, <2>3, <2>4 DEF SubInv, SubTypeOK
<1>5. ReservedWithinBalance'
  BY <1>3 DEF SubInv, ReservedWithinBalance
<1>6. ActiveIdsExact'
  <2>1. \A s \in SubIds : Alive(s)' <=> activeIndex'[s] # 0
    BY <1>1, <1>3, DeactivateExact DEF SubInv, ActiveIdsExact, Alive
  <2> QED
    BY <1>1, <2>1, DeactivateExact DEF ActiveIdsExact
<1>7. ConsumerListExact'
  BY <1>1, <1>3 DEF SubInv, ConsumerListExact, Alive
<1>8. ClosedIsEmpty'
  BY <1>3 DEF SubInv, ClosedIsEmpty, Alive
<1>9. UnissuedIsFresh'
  <2>1. \A s \in SubIds : s > lastSubId => s # id
    BY <1>1 DEF SubInv, UnissuedIsFresh
  <2> QED
    BY <1>1, <1>3, <2>1 DEF SubInv, UnissuedIsFresh, Alive
<1> QED
  BY <1>4, <1>5, <1>6, <1>7, <1>8, <1>9 DEF SubInv
-----------------------------------------------------------------------------
(* Changing hands: an offer names a new owner, only a live account has one,
   and accepting it changes the owner of an account that stays alive. *)
LEMMA TransferInv ==
  ASSUME SubInv, NEW caller \in Addresses, NEW id \in SubIds, NEW newOwner \in MaybeAddress,
         \/ requestSubscriptionOwnerTransfer(caller, id, newOwner)
         \/ acceptSubscriptionOwnerTransfer(caller, id)
  PROVE  SubInv'
<1> USE SubscriptionAssumption, AddressAssumption
<1>1. /\ Alive(id)
      /\ accounts \in [SubIds -> Account] /\ accounts[id] \in Account
      /\ pendingOwners \in [SubIds -> MaybeAddress]
  BY DEF requestSubscriptionOwnerTransfer, acceptSubscriptionOwnerTransfer, Alive,
         SubInv, SubTypeOK, ClosedIsEmpty
<1>2. UNCHANGED <<lastSubId, consumers, consumerList, counters, withdrawable,
                  activeIds, activeIndex, held>>
  BY DEF requestSubscriptionOwnerTransfer, acceptSubscriptionOwnerTransfer
<1>3. /\ accounts' \in [SubIds -> Account]
      /\ pendingOwners' \in [SubIds -> MaybeAddress]
      /\ Alive(id)'
      /\ accounts'[id].balance = accounts[id].balance
      /\ accounts'[id].reserved = accounts[id].reserved
      /\ \A s \in SubIds \ {id} : /\ accounts'[s] = accounts[s]
                                  /\ pendingOwners'[s] = pendingOwners[s]
  <2>1. CASE requestSubscriptionOwnerTransfer(caller, id, newOwner)
    BY <1>1, <2>1 DEF requestSubscriptionOwnerTransfer, Alive
  <2>2. CASE acceptSubscriptionOwnerTransfer(caller, id)
    BY <1>1, <2>2 DEF acceptSubscriptionOwnerTransfer, Alive, Account, MaybeAddress
  <2> QED
    BY <2>1, <2>2
<1>4. SubTypeOK'
  BY <1>2, <1>3 DEF SubInv, SubTypeOK
<1>5. ReservedWithinBalance'
  BY <1>3 DEF SubInv, ReservedWithinBalance
<1>6. ActiveIdsExact'
  BY <1>1, <1>2, <1>3 DEF SubInv, ActiveIdsExact, Alive
<1>7. ConsumerListExact'
  BY <1>1, <1>2, <1>3 DEF SubInv, ConsumerListExact, Alive
<1>8. ClosedIsEmpty'
  BY <1>3 DEF SubInv, ClosedIsEmpty, Alive
<1>9. UnissuedIsFresh'
  BY <1>1, <1>2, <1>3 DEF SubInv, UnissuedIsFresh, Alive
<1> QED
  BY <1>4, <1>5, <1>6, <1>7, <1>8, <1>9 DEF SubInv

(* A payee that collects touches no account. *)
LEMMA WithdrawInv ==
  ASSUME SubInv, NEW caller \in Addresses, withdraw(caller)
  PROVE  SubInv'
<1>1. SubTypeOK'
  BY SubscriptionAssumption DEF SubInv, SubTypeOK, withdraw, _send
<1>2. /\ ReservedWithinBalance' /\ ActiveIdsExact' /\ ConsumerListExact'
      /\ ClosedIsEmpty' /\ UnissuedIsFresh'
  BY DEF SubInv, withdraw, ReservedWithinBalance, ActiveIdsExact, ConsumerListExact,
         ClosedIsEmpty, UnissuedIsFresh, Alive
<1> QED
  BY <1>1, <1>2 DEF SubInv

-----------------------------------------------------------------------------
(* Whatever an account's owner, a payer or a payee calls. *)
LEMMA OwnerApiInv ==
  ASSUME SubInv, NEW caller \in Addresses, OwnerApi(caller)
  PROVE  SubInv'
<1> USE SubscriptionAssumption
<1>1. CASE createSubscription(caller)
  BY <1>1, CreateInv
<1>2. CASE withdraw(caller)
  BY <1>2, WithdrawInv
<1>3. ASSUME NEW id \in SubIds, NEW value \in Deposits, fundSubscriptionWithNative(id, value)
      PROVE  SubInv'
  <2>1. MoneyStep(id)
    BY <1>3, MoneyStepLemma
  <2> QED
    BY <2>1, MoneyInv
<1>4. ASSUME NEW id \in SubIds, NEW amount \in Amounts,
             withdrawFromSubscription(caller, id, amount)
      PROVE  SubInv'
  <2>1. MoneyStep(id)
    BY <1>4, MoneyStepLemma
  <2> QED
    BY <2>1, MoneyInv
<1>5. ASSUME NEW id \in SubIds, NEW c \in Addresses,
             addConsumer(caller, id, c) \/ removeConsumer(caller, id, c)
      PROVE  SubInv'
  BY <1>5, AddConsumerInv, RemoveConsumerInv
<1>6. ASSUME NEW id \in SubIds, cancelSubscription(caller, id)
      PROVE  SubInv'
  BY <1>6, CancelInv
<1>7. ASSUME NEW id \in SubIds, NEW newOwner \in Offers,
             requestSubscriptionOwnerTransfer(caller, id, newOwner)
      PROVE  SubInv'
  BY <1>7, TransferInv, AddressAssumption
<1>8. ASSUME NEW id \in SubIds, acceptSubscriptionOwnerTransfer(caller, id)
      PROVE  SubInv'
  BY <1>8, TransferInv DEF MaybeAddress
<1> QED
  BY <1>1, <1>2, <1>3, <1>4, <1>5, <1>6, <1>7, <1>8 DEF OwnerApi

(* Whatever a coordinator asks for, in any order and for any amount. *)
LEMMA CoordinatorApiInv ==
  ASSUME SubInv, NEW id \in SubIds, NEW amount \in Nat,
         \/ reserve(id, amount)
         \/ release(id, amount)
         \/ \E payee \in Addresses : settle(id, amount, payee)
  PROVE  SubInv'
<1>1. MoneyStep(id)
  BY MoneyStepLemma
<1> QED
  BY <1>1, MoneyInv

(* For any number of accounts, addresses and amounts, and any coordinator,
   the accounts are consistent in every reachable state: what is reserved is
   there, the index of live ids and the list of consumers are exact, and a
   closed account is empty. *)
THEOREM SubInvariant == SubSpec => []SubInv
<1>1. SubInv /\ [SubNext]_subVars => SubInv'
  <2> SUFFICES ASSUME SubInv, [SubNext]_subVars PROVE SubInv'
    OBVIOUS
  <2>1. CASE \E caller \in Addresses : OwnerApi(caller)
    BY <2>1, OwnerApiInv
  <2>2. CASE CoordinatorApi
    <3>1. PICK id \in SubIds, amount \in Amounts :
            \/ reserve(id, amount)
            \/ release(id, amount)
            \/ \E payee \in Addresses : settle(id, amount, payee)
      BY <2>2 DEF CoordinatorApi
    <3> QED
      BY <3>1, CoordinatorApiInv, SubscriptionAssumption
  <2>3. CASE UNCHANGED subVars
    BY <2>3 DEF subVars, SubInv, SubTypeOK, ReservedWithinBalance, ActiveIdsExact,
                ConsumerListExact, ClosedIsEmpty, UnissuedIsFresh, Alive
  <2> QED
    BY <2>1, <2>2, <2>3 DEF SubNext
<1> QED
  BY <1>1, SubInitInv, PTL DEF SubSpec

(* No call brings a closed account back: creating takes a fresh id, money and
   consumers never touch an owner, and an offer lives only as long as the
   account it is for. *)
LEMMA ClosedStaysClosed ==
  ASSUME SubInv, SubNext, NEW s \in SubIds, s <= lastSubId, ~Alive(s)
  PROVE  ~Alive(s)'
<1> USE SubscriptionAssumption, AddressAssumption
<1>1. /\ accounts \in [SubIds -> Account]
      /\ lastSubId \in Nat /\ s \in Nat
      /\ pendingOwners[s] = NoAddr
  BY DEF SubInv, SubTypeOK, ClosedIsEmpty, SubIds
<1>2. ASSUME NEW id \in SubIds, MoneyStep(id)
      PROVE  ~Alive(s)'
  BY <1>2 DEF MoneyStep, Alive
<1>3. CASE CoordinatorApi
  BY <1>2, <1>3, MoneyStepLemma DEF CoordinatorApi
<1>4. ASSUME NEW caller \in Addresses, OwnerApi(caller)
      PROVE  ~Alive(s)'
  <2>1. CASE createSubscription(caller)
    <3>1. s # lastSubId + 1
      BY <1>1
    <3> QED
      BY <1>1, <2>1, <3>1 DEF createSubscription, Alive
  <2>2. CASE withdraw(caller)
    BY <2>2 DEF withdraw, Alive
  <2>3. ASSUME NEW id \in SubIds, NEW amount \in Nat,
               \/ fundSubscriptionWithNative(id, amount)
               \/ withdrawFromSubscription(caller, id, amount)
        PROVE  ~Alive(s)'
    BY <1>2, <2>3, MoneyStepLemma
  <2>4. ASSUME NEW id \in SubIds, NEW c,
               \/ addConsumer(caller, id, c)
               \/ removeConsumer(caller, id, c)
               \/ requestSubscriptionOwnerTransfer(caller, id, c)
        PROVE  ~Alive(s)'
    BY <2>4 DEF addConsumer, removeConsumer, requestSubscriptionOwnerTransfer, Alive
  <2>5. ASSUME NEW id \in SubIds, cancelSubscription(caller, id)
        PROVE  ~Alive(s)'
    BY <1>1, <2>5 DEF cancelSubscription, NoAccount, Alive
  <2>6. ASSUME NEW id \in SubIds, acceptSubscriptionOwnerTransfer(caller, id)
        PROVE  ~Alive(s)'
    <3>1. s # id
      BY <1>1, <2>6 DEF acceptSubscriptionOwnerTransfer
    <3> QED
      BY <1>1, <2>6, <3>1 DEF acceptSubscriptionOwnerTransfer, Alive
  <2> QED
    BY <1>4, <2>1, <2>2, <2>3, <2>4, <2>5, <2>6 DEF OwnerApi
<1> QED
  BY <1>3, <1>4 DEF SubNext

(* A cancelled subscription id stays cancelled, whoever calls what. *)
THEOREM ClosedForGoodTheorem == SubSpec => ClosedForGood
<1>1. SubInv /\ [SubNext]_subVars =>
        [\A id \in SubIds : id <= lastSubId /\ ~Alive(id) => ~Alive(id)']_subVars
  BY ClosedStaysClosed
<1> QED
  BY <1>1, SubInvariant, PTL DEF SubSpec, ClosedForGood

(* The parts of the invariant by their names: what is reserved is in the    *)
(* account. *)
THEOREM ReservedTheorem == SubSpec => []ReservedWithinBalance
BY SubInvariant, PTL DEF SubInv

(* Paging through the live ids shows each live account once. *)
THEOREM ActiveIdsTheorem == SubSpec => []ActiveIdsExact
BY SubInvariant, PTL DEF SubInv

(* The list a manager sees is the mapping that authorises requests. *)
THEOREM ConsumerListTheorem == SubSpec => []ConsumerListExact
BY SubInvariant, PTL DEF SubInv

-----------------------------------------------------------------------------
(* Sums.  A sum is the number of coins, so that a change of one amount adds *)
(* or takes away a block of coins. *)

Amount == 0..MaxUint96

(* Raising one amount adds as many coins. *)
LEMMA CoinsGrow ==
  ASSUME NEW D, IsFiniteSet(D), NEW f \in [D -> Amount], NEW x \in D,
         NEW a \in Amount, f[x] <= a
  PROVE  /\ IsFiniteSet(Coins(f)) /\ Total(f) \in Nat
         /\ Total([f EXCEPT ![x] = a]) = Total(f) + (a - f[x])
<1> DEFINE g == [f EXCEPT ![x] = a]
           N == (f[x] + 1)..a
           B == {x} \X N
<1>1. MaxUint96 \in Nat /\ a \in Nat /\ f[x] \in Nat /\ a <= MaxUint96
  BY SubscriptionAssumption DEF Amount
<1>2. IsFiniteSet(Coins(f))
  <2>1. IsFiniteSet(1..MaxUint96)
    BY <1>1, FS_Interval
  <2>2. IsFiniteSet(D \X (1..MaxUint96))
    BY <2>1, FS_Product
  <2>3. Coins(f) \in SUBSET (D \X (1..MaxUint96))
    BY DEF Coins
  <2> QED
    BY <2>2, <2>3, FS_Subset
<1>3. IsFiniteSet(B) /\ Cardinality(B) = a - f[x]
  <2> DEFINE lo == f[x] + 1
  <2>0. lo \in Int /\ a \in Int /\ N = lo..a
    BY <1>1
  <2>1. IsFiniteSet(N) /\ Cardinality(N) = IF lo > a THEN 0 ELSE a - lo + 1
    <3> HIDE DEF lo
    <3> QED
      BY <2>0, FS_Interval
  <2>2. Cardinality(N) = a - f[x]
    BY <1>1, <2>1
  <2>3. IsFiniteSet({x}) /\ Cardinality({x}) = 1
    BY FS_Singleton
  <2> HIDE DEF N
  <2>4. IsFiniteSet(B) /\ Cardinality(B) = 1 * Cardinality(N)
    BY <2>1, <2>3, FS_Product
  <2> QED
    BY <1>1, <2>2, <2>4
<1>4. Coins(g) = Coins(f) \cup B
  <2>1. ASSUME NEW c \in D \X (1..MaxUint96)
        PROVE  c[2] <= g[c[1]] <=> c[2] <= f[c[1]] \/ c \in B
    <3>1. c[1] \in D /\ c[2] \in 1..MaxUint96 /\ c = <<c[1], c[2]>>
      OBVIOUS
    <3>2. CASE c[1] = x
      <4>1. c \in B <=> c[2] \in N
        BY <3>1, <3>2
      <4>2. g[c[1]] = a
        BY <3>2
      <4> QED
        BY <1>1, <3>1, <3>2, <4>1, <4>2
    <3>3. CASE c[1] # x
      BY <3>1, <3>3
    <3> QED
      BY <3>2, <3>3
  <2>2. B \subseteq D \X (1..MaxUint96)
    BY <1>1
  <2>3. DOMAIN g = D /\ DOMAIN f = D
    OBVIOUS
  <2> HIDE DEF g, B
  <2> QED
    BY <2>1, <2>2, <2>3 DEF Coins
<1>5. Coins(f) \cap B = {}
  <2>1. ASSUME NEW c \in Coins(f), c \in B PROVE FALSE
    BY <1>1, <2>1 DEF Coins
  <2> QED
    BY <2>1
<1>6. Total(f) \in Nat
  BY <1>2, FS_CardinalityType DEF Total
<1>7. Cardinality(Coins(g)) = Cardinality(Coins(f)) + Cardinality(B) - Cardinality({})
  <2> HIDE DEF B, g
  <2> QED
    BY <1>2, <1>3, <1>4, <1>5, FS_Union
<1>8. Cardinality(Coins(g)) = Cardinality(Coins(f)) + (a - f[x])
  <2> HIDE DEF B, g
  <2> QED
    BY <1>1, <1>3, <1>6, <1>7, FS_EmptySet DEF Total
<1> QED
  BY <1>2, <1>6, <1>8 DEF Total

(* Setting one amount changes the sum by the difference. *)
LEMMA TotalSet ==
  ASSUME NEW D, IsFiniteSet(D), NEW f \in [D -> Amount], NEW x \in D, NEW a \in Amount
  PROVE  /\ Total(f) \in Nat
         /\ Total([f EXCEPT ![x] = a]) = Total(f) + (a - f[x])
<1> DEFINE g == [f EXCEPT ![x] = a]
<1>1. a \in Nat /\ f[x] \in Nat /\ f[x] \in Amount
  BY SubscriptionAssumption DEF Amount
<1>2. CASE f[x] <= a
  BY <1>2, CoinsGrow
<1>3. CASE a <= f[x]
  <2> DEFINE b == f[x]
  <2>1. [g EXCEPT ![x] = b] = f /\ g[x] = a
    OBVIOUS
  <2>2. g \in [D -> Amount] /\ b \in Amount /\ g[x] <= b
    BY <1>1, <1>3
  <2> HIDE DEF g, b
  <2>3. Total(g) \in Nat /\ Total([g EXCEPT ![x] = b]) = Total(g) + (b - g[x])
    BY <2>2, CoinsGrow
  <2>4. Total(f) = Total(g) + (f[x] - a)
    BY <2>1, <2>3 DEF b
  <2>5. Total(f) \in Nat
    BY <1>1, <1>3, <2>3, <2>4
  <2>6. Total(g) = Total(f) + (a - f[x])
    BY <1>1, <2>3, <2>4, <2>5
  <2> QED
    BY <2>5, <2>6 DEF g
<1> QED
  BY <1>1, <1>2, <1>3

(* Nothing sums to nothing. *)
LEMMA TotalZero ==
  ASSUME NEW D PROVE Total([x \in D |-> 0]) = 0
<1>1. Coins([x \in D |-> 0]) = {}
  BY SubscriptionAssumption DEF Coins
<1> QED
  BY <1>1, FS_EmptySet DEF Total

-----------------------------------------------------------------------------
(* Solvency. *)

Balances == [id \in SubIds |-> accounts[id].balance]

(* What there is to sum. *)
LEMMA AmountTypes ==
  ASSUME SubTypeOK
  PROVE  /\ IsFiniteSet(SubIds) /\ IsFiniteSet(Addresses)
         /\ Balances \in [SubIds -> Amount] /\ withdrawable \in [Addresses -> Amount]
         /\ held \in Nat
<1>1. IsFiniteSet(SubIds)
  BY FS_Interval, SubscriptionAssumption DEF SubIds
<1> QED
  BY <1>1, AddressAssumption DEF SubTypeOK, Balances, Amount, Account

(* One balance moves by what the contract receives or pays out. *)
LEMMA BalanceMoves ==
  ASSUME SubTypeOK, Solvent, NEW id \in SubIds, NEW b \in Amount,
         Balances' = [Balances EXCEPT ![id] = b],
         held' = held + (b - Balances[id]), UNCHANGED withdrawable
  PROVE  Solvent'
<1>1. Total(Balances) \in Nat /\ Total(Balances') = Total(Balances) + (b - Balances[id])
  BY AmountTypes, TotalSet
<1>2. Balances[id] \in Nat /\ b \in Nat /\ held \in Nat
  BY AmountTypes, SubscriptionAssumption DEF Amount
<1>3. Total(withdrawable) \in Nat
  <2>1. ASSUME NEW x \in Addresses PROVE Total(withdrawable) \in Nat
    BY AmountTypes, TotalSet, SubscriptionAssumption DEF Amount
  <2>2. CASE Addresses = {}
    <3>1. Coins(withdrawable) = {}
      BY <2>2, AmountTypes DEF Coins
    <3> QED
      BY <3>1, FS_EmptySet DEF Total
  <2> QED
    BY <2>1, <2>2
<1>4. held = Total(Balances) + Total(withdrawable)
  BY DEF Solvent, Balances
<1>5. held' = Total(Balances') + Total(withdrawable')
  BY <1>1, <1>2, <1>3, <1>4
<1> QED
  BY <1>5 DEF Solvent, Balances

(* A payee is paid out what it was credited. *)
LEMMA PayeeMoves ==
  ASSUME SubTypeOK, Solvent, NEW a \in Addresses, NEW w \in Amount, NEW id \in SubIds,
         NEW b \in Amount,
         Balances' = [Balances EXCEPT ![id] = b],
         withdrawable' = [withdrawable EXCEPT ![a] = w],
         held' = held + (w - withdrawable[a]) + (b - Balances[id])
  PROVE  Solvent'
<1>1. /\ Total(withdrawable) \in Nat
      /\ Total(withdrawable') = Total(withdrawable) + (w - withdrawable[a])
  BY AmountTypes, TotalSet
<1>2. Total(Balances) \in Nat /\ Total(Balances') = Total(Balances) + (b - Balances[id])
  BY AmountTypes, TotalSet
<1>3. withdrawable[a] \in Nat /\ w \in Nat /\ held \in Nat /\ Balances[id] \in Nat /\ b \in Nat
  BY AmountTypes, SubscriptionAssumption DEF Amount
<1>4. held = Total(Balances) + Total(withdrawable)
  BY DEF Solvent, Balances
<1>5. held' = Total(Balances') + Total(withdrawable')
  BY <1>1, <1>2, <1>3, <1>4
<1> QED
  BY <1>5 DEF Solvent, Balances

(* Calls that move no coin. *)
LEMMA NothingMoves ==
  ASSUME Solvent, Balances' = Balances, UNCHANGED <<withdrawable, held>>
  PROVE  Solvent'
BY DEF Solvent, Balances

(* One account's new balance, when the others keep theirs. *)
LEMMA BalancesSet ==
  ASSUME SubTypeOK, NEW id \in SubIds,
         \A s \in SubIds \ {id} : accounts'[s] = accounts[s]
  PROVE  Balances' = [Balances EXCEPT ![id] = accounts'[id].balance]
BY DEF Balances

(* What the coordinator asks for: a settlement moves a balance to a payee,  *)
(* the rest moves nothing. *)
LEMMA CoordinatorSolvent ==
  ASSUME SubInv, Solvent, NEW id \in SubIds, NEW amount \in Nat,
         \/ reserve(id, amount)
         \/ release(id, amount)
         \/ \E payee \in Addresses : settle(id, amount, payee)
  PROVE  Solvent'
<1> USE SubscriptionAssumption
<1>1. /\ SubTypeOK /\ accounts \in [SubIds -> Account]
      /\ accounts[id].balance \in Nat /\ accounts[id].balance <= MaxUint96
  BY DEF SubInv, SubTypeOK, Account
<1>2. MoneyStep(id)
  BY MoneyStepLemma
<1>3. Balances' = [Balances EXCEPT ![id] = accounts'[id].balance]
  BY <1>1, <1>2, BalancesSet DEF MoneyStep
<1>4. CASE reserve(id, amount) \/ release(id, amount)
  <2>1. accounts'[id].balance = Balances[id] /\ UNCHANGED <<withdrawable, held>>
    BY <1>1, <1>4 DEF reserve, release, SubRest, Balances, Account
  <2>2. Balances' = Balances
    BY <1>3, <2>1 DEF Balances
  <2> QED
    BY <2>1, <2>2, NothingMoves
<1>5. ASSUME NEW payee \in Addresses, settle(id, amount, payee) PROVE Solvent'
  <2>1. /\ withdrawable \in [Addresses -> Amount] /\ held \in Nat
        /\ withdrawable[payee] \in Nat
    BY <1>1, AmountTypes DEF Amount
  <2> DEFINE b == accounts[id].balance - amount
             w == withdrawable[payee] + amount
  <2>2. b \in Amount /\ w \in Amount
    BY <1>1, <1>5, <2>1 DEF settle, Amount
  <2>3. accounts'[id].balance = b
    BY <1>1, <1>5 DEF settle, Account
  <2>4. withdrawable' = [withdrawable EXCEPT ![payee] = w] /\ held' = held
    BY <1>5, <2>1 DEF settle, SubRest
  <2>5. held' = held + (w - withdrawable[payee]) + (b - Balances[id])
    BY <1>1, <2>1, <2>4 DEF Balances
  <2> HIDE DEF b, w
  <2> QED
    BY <1>1, <1>3, <2>2, <2>3, <2>4, <2>5, PayeeMoves
<1> QED
  BY <1>4, <1>5

(* What anybody else calls: deposits come in, withdrawals, earnings and the *)
(* rest of a cancelled account go out. *)
LEMMA OwnerSolvent ==
  ASSUME SubInv, Solvent, NEW caller \in Addresses, OwnerApi(caller)
  PROVE  Solvent'
<1> USE SubscriptionAssumption
<1>1. /\ SubTypeOK /\ accounts \in [SubIds -> Account] /\ held \in Nat
      /\ \A id \in SubIds : /\ accounts[id].balance \in Nat
                            /\ accounts[id].balance <= MaxUint96
                            /\ accounts[id].balance = Balances[id]
                            /\ accounts[id].reserved <= accounts[id].balance
                            /\ accounts[id].reserved \in Nat
  BY DEF SubInv, SubTypeOK, Account, Balances, ReservedWithinBalance
<1>2. CASE createSubscription(caller)
  <2>1. /\ \A s \in SubIds : accounts'[s].balance = accounts[s].balance
        /\ UNCHANGED <<withdrawable, held>>
    BY <1>1, <1>2 DEF createSubscription, Account
  <2> QED
    BY <2>1, NothingMoves DEF Balances
<1>3. CASE withdraw(caller)
  <2>1. withdrawable \in [Addresses -> Amount] /\ withdrawable[caller] \in Nat
    BY <1>1, AmountTypes DEF Amount
  <2>2. /\ withdrawable' = [withdrawable EXCEPT ![caller] = 0]
        /\ held' = held + (0 - withdrawable[caller])
        /\ UNCHANGED accounts
    BY <1>1, <1>3, <2>1 DEF withdraw, _send
  <2>3. 0 \in Amount
    BY DEF Amount
  <2>4. Total(withdrawable) \in Nat /\
        Total(withdrawable') = Total(withdrawable) + (0 - withdrawable[caller])
    BY <1>1, <2>2, <2>3, AmountTypes, TotalSet
  <2>5. Total(Balances) \in Nat
    <3>1. ASSUME NEW x \in SubIds PROVE Total(Balances) \in Nat
      BY <1>1, <2>3, AmountTypes, TotalSet
    <3>2. CASE SubIds = {}
      <4>1. Coins(Balances) = {}
        BY <1>1, <3>2, AmountTypes DEF Coins
      <4> QED
        BY <4>1, FS_EmptySet DEF Total
    <3> QED
      BY <3>1, <3>2
  <2>6. held = Total(Balances) + Total(withdrawable) /\ Balances' = Balances
    BY <2>2 DEF Solvent, Balances
  <2>7. held' = Total(Balances') + Total(withdrawable')
    BY <1>1, <2>1, <2>2, <2>4, <2>5, <2>6
  <2> QED
    BY <2>7 DEF Solvent, Balances
<1>4. ASSUME NEW id \in SubIds, NEW b \in Amount,
             \A s \in SubIds \ {id} : accounts'[s] = accounts[s],
             accounts'[id].balance = b, held' = held + (b - accounts[id].balance),
             UNCHANGED withdrawable
      PROVE  Solvent'
  <2>1. Balances' = [Balances EXCEPT ![id] = b]
    BY <1>1, <1>4, BalancesSet
  <2> QED
    BY <1>1, <1>4, <2>1, BalanceMoves
<1>5. ASSUME NEW id \in SubIds, NEW value \in Deposits, fundSubscriptionWithNative(id, value)
      PROVE  Solvent'
  <2> DEFINE b == accounts[id].balance + value
  <2>1. value \in Nat /\ b \in Amount
    BY <1>1, <1>5 DEF fundSubscriptionWithNative, Amount
  <2>2. /\ \A s \in SubIds \ {id} : accounts'[s] = accounts[s]
        /\ accounts'[id].balance = b /\ held' = held + value /\ UNCHANGED withdrawable
    BY <1>1, <1>5 DEF fundSubscriptionWithNative, Account
  <2>3. held' = held + (b - accounts[id].balance)
    BY <1>1, <2>1, <2>2
  <2> HIDE DEF b
  <2> QED
    BY <1>4, <2>1, <2>2, <2>3
<1>6. ASSUME NEW id \in SubIds, NEW amount \in Amounts,
             withdrawFromSubscription(caller, id, amount)
      PROVE  Solvent'
  <2> DEFINE b == accounts[id].balance - amount
  <2>1. amount \in Nat /\ b \in Amount
    BY <1>1, <1>6 DEF withdrawFromSubscription, available, Amount
  <2>2. /\ \A s \in SubIds \ {id} : accounts'[s] = accounts[s]
        /\ accounts'[id].balance = b /\ held' = held - amount /\ UNCHANGED withdrawable
    BY <1>1, <1>6 DEF withdrawFromSubscription, Account, _send
  <2>3. held' = held + (b - accounts[id].balance)
    BY <1>1, <2>1, <2>2
  <2> HIDE DEF b
  <2> QED
    BY <1>4, <2>1, <2>2, <2>3
<1>7. ASSUME NEW id \in SubIds, cancelSubscription(caller, id)
      PROVE  Solvent'
  <2>1. 0 \in Amount
    BY DEF Amount
  <2>2. /\ \A s \in SubIds \ {id} : accounts'[s] = accounts[s]
        /\ accounts'[id].balance = 0 /\ UNCHANGED withdrawable
    BY <1>1, <1>7 DEF cancelSubscription, NoAccount
  <2>3. held' = held + (0 - accounts[id].balance)
    BY <1>1, <1>7 DEF cancelSubscription, _send
  <2> QED
    BY <1>4, <2>1, <2>2, <2>3
<1>8. ASSUME NEW id \in SubIds, NEW c,
             \/ addConsumer(caller, id, c)
             \/ removeConsumer(caller, id, c)
             \/ requestSubscriptionOwnerTransfer(caller, id, c)
      PROVE  Solvent'
  <2>1. UNCHANGED <<accounts, withdrawable, held>>
    BY <1>8 DEF addConsumer, removeConsumer, requestSubscriptionOwnerTransfer
  <2> QED
    BY <2>1, NothingMoves DEF Balances
<1>9. ASSUME NEW id \in SubIds, acceptSubscriptionOwnerTransfer(caller, id) PROVE Solvent'
  <2>1. /\ \A s \in SubIds : accounts'[s].balance = accounts[s].balance
        /\ UNCHANGED <<withdrawable, held>>
    BY <1>1, <1>9 DEF acceptSubscriptionOwnerTransfer, Account
  <2> QED
    BY <2>1, NothingMoves DEF Balances
<1> QED
  BY <1>2, <1>3, <1>5, <1>6, <1>7, <1>8, <1>9 DEF OwnerApi

(* The constructor owes and owns nothing. *)
LEMMA SolventInit == SubInit => Solvent
<1> SUFFICES ASSUME SubInit PROVE Solvent
  OBVIOUS
<1>1. /\ [id \in SubIds |-> accounts[id].balance] = [id \in SubIds |-> 0]
      /\ withdrawable = [a \in Addresses |-> 0] /\ held = 0
  BY DEF SubInit, NoAccount
<1>2. Total([id \in SubIds |-> accounts[id].balance]) = 0 /\ Total(withdrawable) = 0
  BY <1>1, TotalZero
<1> QED
  BY <1>1, <1>2 DEF Solvent

(* No sequence of calls creates or strands coin: what the contract owns is, *)
(* to the unit, what it owes to accounts and payees. *)
THEOREM SolventTheorem == SubSpec => []Solvent
<1>1. SubInv /\ Solvent /\ [SubNext]_subVars => Solvent'
  <2> SUFFICES ASSUME SubInv, Solvent, [SubNext]_subVars PROVE Solvent'
    OBVIOUS
  <2>1. CASE \E caller \in Addresses : OwnerApi(caller)
    BY <2>1, OwnerSolvent
  <2>2. CASE CoordinatorApi
    <3>1. PICK id \in SubIds, amount \in Amounts :
            \/ reserve(id, amount)
            \/ release(id, amount)
            \/ \E payee \in Addresses : settle(id, amount, payee)
      BY <2>2 DEF CoordinatorApi
    <3> QED
      BY <3>1, CoordinatorSolvent, SubscriptionAssumption
  <2>3. CASE UNCHANGED subVars
    BY <2>3, NothingMoves DEF subVars, Balances
  <2> QED
    BY <2>1, <2>2, <2>3 DEF SubNext
<1> QED
  BY <1>1, SolventInit, SubInvariant, PTL DEF SubSpec
=============================================================================

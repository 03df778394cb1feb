------------------------------- MODULE Wallet -------------------------------
(***************************************************************************)
(* The operator's publishing account: the nonce discipline of send          *)
(* (src/node/internal/chain/chain.go), the balance cache (balance.go), the  *)
(* claiming of earnings (earnings.go) and checkBalance                      *)
(* (cmd/vrfnode/main.go), which the poll loop runs after every scan and     *)
(* a goroutine of its own runs after each accepted fulfilment: a publisher  *)
(* here is a publication followed by that goroutine.                        *)
(*                                                                         *)
(* An action is what a thread does under one lock or in one call to the     *)
(* endpoint.  Time is what the cache can tell: a stamp is "zero", less than *)
(* a refresh interval old ("fresh") or older ("expired").                   *)
(***************************************************************************)
EXTENDS Integers, Sequences, FiniteSets

CONSTANTS
  Publishers,   \* publishing goroutines
  Poll,         \* the poll loop
  Nobody,       \* no thread; an unknown balance
  Floor,        \* -min-balance
  ClaimMargin,
  ClaimCost,    \* the most a claim can cost: its own limit, at double base fee
  FulfilCost,   \* what a fulfilment spends
  FulfilCover,  \* what the balance must hold for one to be accepted
  Fee,          \* credited for a fulfilment
  Funds,        \* the wallet when the daemon starts
  MaxFulfils,   \* bound: fulfilments asked for
  MaxRefusals   \* bound: calls the endpoint fails

Threads == Publishers \cup {Poll}

ASSUME WalletAssumption ==
  /\ Poll \notin Publishers
  /\ Nobody \notin Threads
  /\ Nobody \notin Int
  /\ {Floor, ClaimMargin, ClaimCost, FulfilCost, FulfilCover, Fee, Funds,
      MaxFulfils, MaxRefusals} \subseteq Nat
  /\ FulfilCost <= FulfilCover

VARIABLES
  mined,        \* the account's nonce on chain
  pool,         \* its transactions accepted and not mined, in nonce order
  wallet,       \* its balance on chain
  earned,       \* credited by the subscription contract and not withdrawn
  haveNonce, nextNonce, nonceMu,
  subscription, \* the cached address: "none", "torn" while written, "set"
  value, fetched,   \* of the balance cache
  recent,       \* history: value was read less than an interval ago
  my,           \* each thread's place and local variables
  fulfils,      \* fulfilments still to be asked for
  refusals      \* calls the endpoint may still fail

chainVars == <<mined, pool, wallet, earned>>
nonceVars == <<haveNonce, nextNonce, nonceMu>>
cacheVars == <<value, fetched, recent>>
walletVars == <<chainVars, nonceVars, cacheVars, subscription, my, fulfils, refusals>>

(* call is what a thread sends and nonce the number it signs with; stamp is *)
(* when its refresh began, balance and earnings what it read; recent and    *)
(* overlapped are history: it read its balance less than an interval ago,   *)
(* and a claim was mined since it read its earnings. *)
Idle == [at |-> "idle", call |-> "fulfil", nonce |-> 0, stamp |-> "zero",
         balance |-> Nobody, recent |-> FALSE, earnings |-> 0, overlapped |-> FALSE]

Return(t) == my' = [my EXCEPT ![t] = Idle]
Go(t, place) == my' = [my EXCEPT ![t].at = place]

Refuse ==
  /\ refusals > 0
  /\ refusals' = refusals - 1

-----------------------------------------------------------------------------
(* The chain's side. *)

PendingNonceAt == mined + Len(pool)

(* Mutant: a claim is sent under the limit of a fulfilment. *)
CoverOfFulfilment(kind) == FulfilCover

Cover(kind) == IF kind = "fulfil" THEN FulfilCover ELSE ClaimCost

(* What the transactions in the pool may spend. *)
Waiting(kind) == Cardinality({i \in 1..Len(pool) : pool[i].call = kind})
Owed == Cover("fulfil") * Waiting("fulfil") + Cover("claim") * Waiting("claim")

(* The endpoint takes a transaction with the next number, once the wallet   *)
(* covers it and those before it. *)
Acceptable(tx) ==
  tx.nonce = PendingNonceAt /\ wallet >= Owed + Cover(tx.call)

Accepted(tx) == Append(pool, [call |-> tx.call, overlapped |-> tx.overlapped])

(* A fulfilment earns its fee, or reverts when another operator was first;  *)
(* a claim collects everything, or reverts when there is nothing. *)
MineTx ==
  /\ pool # <<>>
  /\ mined' = mined + 1
  /\ \/ /\ pool[1].call = "fulfil"
        /\ pool' = Tail(pool)
        /\ wallet' = wallet - FulfilCost
        /\ earned' \in {earned, earned + Fee}
        /\ UNCHANGED my
     \/ /\ pool[1].call = "claim"
        /\ pool' = [i \in 1..(Len(pool) - 1) |-> [pool[i + 1] EXCEPT !.overlapped = TRUE]]
        /\ wallet' = wallet - ClaimCost + earned
        /\ earned' = 0
        /\ my' = [t \in Threads |->
                    [my[t] EXCEPT !.overlapped = my[t].at = "price" \/ my[t].call = "claim"]]
  /\ UNCHANGED <<nonceVars, cacheVars, subscription, fulfils, refusals>>

(* A refresh interval passes. *)
Minute ==
  /\ fetched' = IF fetched = "fresh" THEN "expired" ELSE fetched
  /\ recent' = FALSE
  /\ my' = [t \in Threads |->
              [my[t] EXCEPT !.stamp = IF @ = "fresh" THEN "expired" ELSE @,
                            !.recent = FALSE]]
  /\ UNCHANGED <<chainVars, nonceVars, value, subscription, fulfils, refusals>>

-----------------------------------------------------------------------------
(* send, for a fulfilment or a claim. *)

(* The prices a transaction is sent at, remembered for a second. *)
fees(known, unknown) ==
  \/ known /\ UNCHANGED refusals
  \/ Refuse /\ unknown

(* Fulfill, up to its send. *)
Publish(t) ==
  /\ my[t].at = "idle"
  /\ fulfils > 0
  /\ fulfils' = fulfils - 1
  /\ fees(Go(t, "lock"), UNCHANGED my)
  /\ UNCHANGED <<chainVars, nonceVars, cacheVars, subscription>>

reserveNonce(t) ==
  /\ my[t].at = "lock"
  /\ nonceMu = Nobody
  /\ \/ /\ haveNonce
        /\ my' = [my EXCEPT ![t].at = "send", ![t].nonce = nextNonce]
        /\ nonceMu' = t
        /\ UNCHANGED <<haveNonce, nextNonce, refusals>>
     \/ /\ ~haveNonce
        /\ my' = [my EXCEPT ![t].at = "send", ![t].nonce = PendingNonceAt]
        /\ nonceMu' = t
        /\ haveNonce' = TRUE
        /\ nextNonce' = PendingNonceAt
        /\ UNCHANGED refusals
     \/ /\ ~haveNonce
        /\ Refuse
        /\ Return(t)
        /\ UNCHANGED nonceVars
  /\ UNCHANGED <<chainVars, cacheVars, subscription, fulfils>>

(* Mutant: a refused transaction leaves the counter trusted. *)
KeepNonce == UNCHANGED haveNonce

DropNonce == haveNonce' = FALSE

(* Accepted; refused; or an error, whether or not the transaction was taken. *)
SendTransaction(t) ==
  /\ my[t].at = "send"
  /\ nonceMu' = Nobody
  /\ \/ /\ Acceptable(my[t])
        /\ pool' = Accepted(my[t])
        /\ nextNonce' = my[t].nonce + 1
        /\ Go(t, "sent")
        /\ UNCHANGED <<haveNonce, refusals>>
     \/ /\ ~Acceptable(my[t])
        /\ DropNonce
        /\ Return(t)
        /\ UNCHANGED <<pool, nextNonce, refusals>>
     \/ /\ Acceptable(my[t])
        /\ Refuse
        /\ pool' \in {pool, Accepted(my[t])}
        /\ DropNonce
        /\ Return(t)
        /\ UNCHANGED nextNonce
  /\ UNCHANGED <<mined, wallet, earned, cacheVars, subscription, fulfils>>

-----------------------------------------------------------------------------
(* checkBalance. *)

(* After a fulfilment the balance is read again; after a claim it is done. *)
Invalidate(t) ==
  /\ my[t].at = "sent"
  /\ fetched' = "zero"
  /\ IF my[t].call = "fulfil" THEN Go(t, "refresh") ELSE Return(t)
  /\ UNCHANGED <<chainVars, nonceVars, value, recent, subscription, fulfils, refusals>>

(* The poll loop, after each scan. *)
OnScanned ==
  /\ my[Poll].at = "idle"
  /\ Go(Poll, "refresh")
  /\ UNCHANGED <<chainVars, nonceVars, cacheVars, subscription, fulfils, refusals>>

(* A Refresh that brought nothing ends checkBalance on the poll only. *)
NothingNew(t) == IF t = Poll THEN Return(t) ELSE Go(t, "last")

Refresh(t) ==
  /\ my[t].at = "refresh"
  /\ IF fetched = "fresh"
     THEN NothingNew(t)
     ELSE my' = [my EXCEPT ![t].at = "reading", ![t].stamp = "fresh"]
  /\ UNCHANGED <<chainVars, nonceVars, cacheVars, subscription, fulfils, refusals>>

ReadBalance(t) ==
  /\ my[t].at = "reading"
  /\ \/ /\ my' = [my EXCEPT ![t].at = "store", ![t].balance = wallet, ![t].recent = TRUE]
        /\ UNCHANGED refusals
     \/ Refuse /\ NothingNew(t)
  /\ UNCHANGED <<chainVars, nonceVars, cacheVars, subscription, fulfils>>

(* Mutant: the value is stamped with the time at which it is stored. *)
StampWhenStored(t) == "fresh"

StampOf(t) == my[t].stamp

Store(t) ==
  /\ my[t].at = "store"
  /\ value' = my[t].balance
  /\ recent' = my[t].recent
  /\ fetched' = StampOf(t)
  /\ my' = [my EXCEPT ![t] = [Idle EXCEPT !.at = "last"]]
  /\ UNCHANGED <<chainVars, nonceVars, subscription, fulfils, refusals>>

Last(t) ==
  /\ my[t].at = "last"
  /\ IF value = Nobody \/ value >= Floor
     THEN Return(t)
     ELSE my' = [my EXCEPT ![t].at = "address", ![t].balance = value]
  /\ UNCHANGED <<chainVars, nonceVars, cacheVars, subscription, fulfils, refusals>>

(* Mutant: an address is used as it is found. *)
UncheckedSubscription(t) ==
  /\ my[t].at = "address"
  /\ IF subscription = "none" THEN Go(t, "write") ELSE Go(t, "earnings")
  /\ UNCHANGED <<chainVars, nonceVars, cacheVars, subscription, fulfils, refusals>>

(* WithdrawableOf's address, cached by every thread without a lock: a       *)
(* reader may find it half written, and its call then finds no contract. *)
Subscription(t) ==
  /\ my[t].at = "address"
  /\ \/ subscription = "set" /\ Go(t, "earnings") /\ UNCHANGED refusals
     \/ subscription = "torn" /\ Return(t) /\ UNCHANGED refusals
     \/ subscription = "none" /\ Go(t, "write") /\ UNCHANGED refusals
     \/ subscription = "none" /\ Refuse /\ Return(t)
  /\ UNCHANGED <<chainVars, nonceVars, cacheVars, subscription, fulfils>>

(* Both halves; a thread that writes what is already there changes nothing. *)
CacheAddress(t) ==
  /\ \/ /\ my[t].at = "write"
        /\ subscription' = IF subscription = "none" THEN "torn" ELSE subscription
        /\ Go(t, "written")
     \/ /\ my[t].at = "written"
        /\ subscription' = "set"
        /\ Go(t, "earnings")
  /\ UNCHANGED <<chainVars, nonceVars, cacheVars, fulfils, refusals>>

(* Mutant: earnings are collected however small they are. *)
ClaimAnything(balance, earnings) == balance < Floor

ShouldClaim(balance, earnings) ==
  balance < Floor /\ earnings > ClaimMargin * ClaimCost

WithdrawableOf(t) ==
  /\ my[t].at = "earnings"
  /\ \/ /\ my' = [my EXCEPT ![t].at = "price", ![t].earnings = earned]
        /\ UNCHANGED refusals
     \/ Refuse /\ Return(t)
  /\ UNCHANGED <<chainVars, nonceVars, cacheVars, subscription, fulfils>>

(* The price of a claim, then Claim up to its send, which looks the address *)
(* up again. *)
Claim(t) ==
  /\ my[t].at = "price"
  /\ fees(IF ShouldClaim(my[t].balance, my[t].earnings)
          THEN my' = [my EXCEPT ![t] =
                        [Idle EXCEPT !.at = "lock",
                                     !.call = IF subscription = "set" THEN "claim" ELSE "astray",
                                     !.overlapped = my[t].overlapped]]
          ELSE Return(t),
          Return(t))
  /\ UNCHANGED <<chainVars, nonceVars, cacheVars, subscription, fulfils>>

-----------------------------------------------------------------------------
WalletInit ==
  /\ mined = 0 /\ pool = <<>>
  /\ wallet = Funds /\ earned = 0
  /\ haveNonce = FALSE /\ nextNonce = 0 /\ nonceMu = Nobody
  /\ subscription = "none"
  /\ value = Nobody /\ fetched = "zero" /\ recent = FALSE
  /\ my = [t \in Threads |-> Idle]
  /\ fulfils = MaxFulfils
  /\ refusals = MaxRefusals

Send(t) == reserveNonce(t) \/ SendTransaction(t)

checkBalance(t) ==
  \/ Invalidate(t) \/ Refresh(t) \/ ReadBalance(t) \/ Store(t)
  \/ Last(t) \/ Subscription(t) \/ CacheAddress(t)
  \/ WithdrawableOf(t) \/ Claim(t)

WalletNext ==
  \/ MineTx \/ Minute \/ OnScanned
  \/ \E t \in Publishers : Publish(t)
  \/ \E t \in Threads : Send(t) \/ checkBalance(t)

(* Goroutines run, transactions are mined, time passes and the chain grows, *)
(* so that scans succeed; nobody owes the daemon requests to publish. *)
WalletSpec ==
  /\ WalletInit
  /\ [][WalletNext]_walletVars
  /\ WF_walletVars(MineTx) /\ WF_walletVars(Minute) /\ WF_walletVars(OnScanned)
  /\ \A t \in Threads : WF_walletVars(Send(t) \/ checkBalance(t))

-----------------------------------------------------------------------------
(* PROPERTIES *)

(* Types; a claim is never sent to a half-written address. *)
WalletTypeOK ==
  /\ {mined, wallet, earned, nextNonce, fulfils, refusals} \subseteq Nat
  /\ pool \in Seq([call : {"fulfil", "claim"}, overlapped : BOOLEAN])
  /\ haveNonce \in BOOLEAN
  /\ nonceMu \in Threads \cup {Nobody}
  /\ subscription \in {"none", "torn", "set"}
  /\ value \in Nat \cup {Nobody}
  /\ fetched \in {"zero", "fresh", "expired"}
  /\ recent \in BOOLEAN
  /\ my \in [Threads ->
       [at : {"idle", "lock", "send", "sent", "refresh", "reading", "store", "last",
              "address", "write", "written", "earnings", "price"},
        call : {"fulfil", "claim"}, nonce : Nat, stamp : {"zero", "fresh", "expired"},
        balance : Nat \cup {Nobody}, recent : BOOLEAN, earnings : Nat, overlapped : BOOLEAN]]

(* The number a thread signs with is the one the chain expects next, so no  *)
(* number is used twice and none is skipped; and a counter the client       *)
(* trusts is right, whichever sends failed and however they failed. *)
NonceIsNext ==
  /\ \A t \in Threads : my[t].at = "send" => nonceMu = t /\ my[t].nonce = PendingNonceAt
  /\ haveNonce => nextNonce = PendingNonceAt

(* While the cache counts its value as fresh, that value really was read    *)
(* less than a refresh interval ago, however refreshes and invalidations    *)
(* overlap. *)
FreshIsRecent == fetched = "fresh" => recent

(* A claim collects more than ClaimMargin times its cost, unless another    *)
(* claim of this operator was mined after it had looked at its earnings.    *)
ClaimsPay ==
  [][ (pool # <<>> /\ pool[1].call = "claim" /\ ~pool[1].overlapped /\ mined' # mined)
        => earned > ClaimMargin * ClaimCost ]_walletVars

(* An operator below its floor collects earnings that are worth it: an      *)
(* account that a fulfilment was last accepted from is left with enough to  *)
(* send the claim (FulfilCover - FulfilCost >= ClaimCost in the instance),  *)
(* and a lost invalidation or a failed read only delays it. *)
EarningsReachWallet ==
  (earned > ClaimMargin * ClaimCost /\ wallet < Floor) ~> (earned = 0)
=============================================================================

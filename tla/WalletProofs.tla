---------------------------- MODULE WalletProofs ----------------------------
(***************************************************************************)
(* For any number of publishing goroutines, any prices and any number of    *)
(* failing calls: the nonce discipline of send gives every transaction the  *)
(* next number, and the balance cache is as recent as it claims.            *)
(***************************************************************************)
EXTENDS Wallet, SequenceTheorems, FunctionTheorems, FiniteSetTheorems, TLAPS

Places == {"idle", "lock", "send", "sent", "refresh", "reading", "store", "last",
           "address", "write", "written", "earnings", "price"}
Calls == {"fulfil", "claim", "astray"}
Stamps == {"zero", "fresh", "expired"}

Local == [at : Places, call : Calls, nonce : Int, stamp : Stamps,
          balance : Int \cup {Nobody}, recent : BOOLEAN, earnings : Int,
          overlapped : BOOLEAN]

Pooled == [call : Calls, overlapped : BOOLEAN]

(* What the two invariants need of the types.  That the wallet never goes   *)
(* below zero, which WalletTypeOK adds, takes a sum over the pool. *)
Shape ==
  /\ my \in [Threads -> Local]
  /\ pool \in Seq(Pooled)
  /\ mined \in Int /\ wallet \in Int /\ earned \in Int /\ nextNonce \in Int
  /\ value \in Int \cup {Nobody}

(* A stamp that a thread is about to store as fresh is one it read after. *)
StoredIsRecent ==
  \A t \in Threads : my[t].at = "store" /\ my[t].stamp = "fresh" => my[t].recent

WalletInv == Shape /\ NonceIsNext /\ FreshIsRecent /\ StoredIsRecent

(* Only thread t moved, and it is well typed. *)
Moves(t) ==
  /\ my' \in [Threads -> Local]
  /\ \A u \in Threads \ {t} : my'[u] = my[u]

(* What a step outside send leaves alone. *)
NonceFrame ==
  /\ UNCHANGED <<haveNonce, nextNonce, nonceMu>>
  /\ PendingNonceAt' = PendingNonceAt
  /\ \A t \in Threads : my'[t].at = "send" =>
       my[t].at = "send" /\ my'[t].nonce = my[t].nonce

(* What a step outside a refresh leaves alone. *)
CacheFrame ==
  /\ fetched' = "fresh" => fetched = "fresh" /\ recent' = recent
  /\ \A t \in Threads : my'[t].at = "store" /\ my'[t].stamp = "fresh" =>
       /\ my[t].at = "store" /\ my[t].stamp = "fresh"
       /\ my'[t].recent = my[t].recent

(* A step outside send preserves NonceIsNext. *)
LEMMA NonceKept ==
  ASSUME NonceIsNext, NonceFrame
  PROVE  NonceIsNext'
BY DEF NonceIsNext, NonceFrame

(* A step outside a refresh preserves what is said of the cache. *)
LEMMA CacheKept ==
  ASSUME FreshIsRecent, StoredIsRecent, CacheFrame
  PROVE  FreshIsRecent' /\ StoredIsRecent'
BY DEF FreshIsRecent, StoredIsRecent, CacheFrame

(* A thread with no call in progress is well typed. *)
LEMMA IdleIsLocal == Idle \in Local
BY DEF Idle, Local, Places, Calls, Stamps

(* The daemon starts with nothing in flight, so the invariant holds. *)
LEMMA WalletInitInv == WalletInit => WalletInv
<1> SUFFICES ASSUME WalletInit PROVE WalletInv
  OBVIOUS
<1>1. Shape
  <2>1. my \in [Threads -> Local]
    BY IdleIsLocal DEF WalletInit
  <2>2. pool \in Seq(Pooled)
    BY EmptySeq DEF WalletInit
  <2>3. Funds \in Int
    BY WalletAssumption
  <2> QED
    BY <2>1, <2>2, <2>3 DEF WalletInit, Shape
<1>2. \A t \in Threads : my[t].at = "idle"
  BY DEF WalletInit, Idle
<1> QED
  BY <1>1, <1>2 DEF WalletInit, WalletInv, NonceIsNext, FreshIsRecent, StoredIsRecent

-----------------------------------------------------------------------------
(* A thread returns. *)
LEMMA ReturnMoves ==
  ASSUME Shape, NEW t \in Threads, Return(t)
  PROVE  Moves(t) /\ my'[t].at = "idle"
BY IdleIsLocal DEF Shape, Return, Idle, Moves

(* A thread goes on to its next place. *)
LEMMA GoMoves ==
  ASSUME Shape, NEW t \in Threads, NEW place \in Places, Go(t, place)
  PROVE  Moves(t) /\ my'[t].at = place
BY DEF Shape, Go, Local, Moves

(* A thread becomes what a well-typed record says. *)
LEMMA Becomes ==
  ASSUME Shape, NEW t \in Threads, NEW r \in Local, my' = [my EXCEPT ![t] = r]
  PROVE  Moves(t) /\ my'[t] = r
BY DEF Shape, Moves

(* A thread that neither starts to send nor has read a balance, in a step   *)
(* that leaves the chain and the counter alone. *)
LEMMA Elsewhere ==
  ASSUME Shape, NEW t \in Threads, Moves(t), my'[t].at \notin {"send", "store"},
         UNCHANGED <<chainVars, nonceVars>>,
         fetched' = "fresh" => fetched = "fresh" /\ recent' = recent,
         value' = value
  PROVE  Shape' /\ NonceFrame /\ CacheFrame
<1>1. Shape'
  BY DEF Shape, Moves, chainVars, nonceVars
<1>2. PendingNonceAt' = PendingNonceAt
  BY DEF PendingNonceAt, chainVars
<1>3. NonceFrame
  BY <1>2 DEF NonceFrame, Moves, nonceVars
<1>4. CacheFrame
  BY DEF CacheFrame, Moves
<1> QED
  BY <1>1, <1>3, <1>4

(* Such a step preserves the invariant. *)
LEMMA ElsewhereKeeps ==
  ASSUME WalletInv, NEW t \in Threads, Moves(t), my'[t].at \notin {"send", "store"},
         UNCHANGED <<chainVars, nonceVars>>,
         fetched' = "fresh" => fetched = "fresh" /\ recent' = recent,
         value' = value
  PROVE  WalletInv'
BY Elsewhere, NonceKept, CacheKept DEF WalletInv

(* Most of checkBalance is such a step. *)
LEMMA LookingKeeps ==
  ASSUME WalletInv, NEW t \in Threads,
         \/ Invalidate(t) \/ Refresh(t) \/ Last(t) \/ Subscription(t)
         \/ CacheAddress(t) \/ WithdrawableOf(t) \/ Claim(t)
  PROVE  WalletInv'
<1> USE DEF Places
<1>0. Shape
  BY DEF WalletInv
<1>1. CASE Invalidate(t)
  <2>1. Moves(t) /\ my'[t].at \in {"refresh", "idle"}
    BY <1>0, <1>1, ReturnMoves, GoMoves DEF Invalidate
  <2> QED
    BY <1>1, <2>1, ElsewhereKeeps DEF Invalidate
<1>2. CASE Refresh(t)
  <2>1. Moves(t) /\ my'[t].at \in {"idle", "last", "reading"}
    <3>1. CASE fetched = "fresh"
      BY <1>0, <1>2, <3>1, ReturnMoves, GoMoves DEF Refresh, NothingNew
    <3>2. CASE fetched # "fresh"
      <4>1. [my[t] EXCEPT !.at = "reading", !.stamp = "fresh"] \in Local
        BY <1>0 DEF Shape, Local, Stamps
      <4>2. my' = [my EXCEPT ![t] = [my[t] EXCEPT !.at = "reading", !.stamp = "fresh"]]
        BY <1>0, <1>2, <3>2 DEF Refresh, Shape
      <4> QED
        BY <1>0, <4>1, <4>2, Becomes DEF Local
    <3> QED
      BY <3>1, <3>2
  <2> QED
    BY <1>2, <2>1, ElsewhereKeeps DEF Refresh, cacheVars
<1>3. CASE Last(t)
  <2>1. Moves(t) /\ my'[t].at \in {"idle", "address"}
    <3>1. CASE value = Nobody \/ value >= Floor
      BY <1>0, <1>3, <3>1, ReturnMoves DEF Last
    <3>2. CASE ~(value = Nobody \/ value >= Floor)
      <4>1. [my[t] EXCEPT !.at = "address", !.balance = value] \in Local
        BY <1>0 DEF Shape, Local
      <4>2. my' = [my EXCEPT ![t] = [my[t] EXCEPT !.at = "address", !.balance = value]]
        BY <1>0, <1>3, <3>2 DEF Last, Shape
      <4> QED
        BY <1>0, <4>1, <4>2, Becomes DEF Local
    <3> QED
      BY <3>1, <3>2
  <2> QED
    BY <1>3, <2>1, ElsewhereKeeps DEF Last, cacheVars
<1>4. CASE Subscription(t)
  <2>1. Moves(t) /\ my'[t].at \in {"earnings", "idle", "write"}
    BY <1>0, <1>4, ReturnMoves, GoMoves DEF Subscription
  <2> QED
    BY <1>4, <2>1, ElsewhereKeeps DEF Subscription, cacheVars
<1>5. CASE CacheAddress(t)
  <2>1. Moves(t) /\ my'[t].at \in {"written", "earnings"}
    BY <1>0, <1>5, GoMoves DEF CacheAddress
  <2> QED
    BY <1>5, <2>1, ElsewhereKeeps DEF CacheAddress, cacheVars
<1>6. CASE WithdrawableOf(t)
  <2>1. Moves(t) /\ my'[t].at \in {"price", "idle"}
    <3>1. CASE Return(t)
      BY <1>0, <3>1, ReturnMoves
    <3>2. CASE my' = [my EXCEPT ![t].at = "price", ![t].earnings = earned]
      <4>1. [my[t] EXCEPT !.at = "price", !.earnings = earned] \in Local
        BY <1>0 DEF Shape, Local
      <4>2. my' = [my EXCEPT ![t] = [my[t] EXCEPT !.at = "price", !.earnings = earned]]
        BY <1>0, <3>2 DEF Shape
      <4> QED
        BY <1>0, <4>1, <4>2, Becomes DEF Local
    <3> QED
      BY <1>6, <3>1, <3>2 DEF WithdrawableOf
  <2> QED
    BY <1>6, <2>1, ElsewhereKeeps DEF WithdrawableOf, cacheVars
<1>7. CASE Claim(t)
  <2>1. Moves(t) /\ my'[t].at \in {"lock", "idle"}
    <3>1. CASE Return(t)
      BY <1>0, <3>1, ReturnMoves
    <3>2. CASE my' = [my EXCEPT ![t] =
                        [Idle EXCEPT !.at = "lock",
                                     !.call = IF subscription = "set" THEN "claim" ELSE "astray",
                                     !.overlapped = my[t].overlapped]]
      BY <1>0, <3>2, IdleIsLocal DEF Shape, Local, Moves, Calls
    <3> QED
      BY <1>7, <3>1, <3>2 DEF Claim, fees
  <2> QED
    BY <1>7, <2>1, ElsewhereKeeps DEF Claim, cacheVars
<1> QED
  BY <1>1, <1>2, <1>3, <1>4, <1>5, <1>6, <1>7

(* A refresh stores what it read under the moment it began. *)
LEMMA RefreshKeeps ==
  ASSUME WalletInv, NEW t \in Threads, ReadBalance(t) \/ Store(t)
  PROVE  WalletInv'
<1> USE DEF Places
<1>0. Shape
  BY DEF WalletInv
<1>1. CASE ReadBalance(t)
  <2>1. CASE NothingNew(t)
    <3>1. Moves(t) /\ my'[t].at \in {"idle", "last"}
      BY <1>0, <2>1, ReturnMoves, GoMoves DEF NothingNew
    <3> QED
      BY <1>1, <3>1, ElsewhereKeeps DEF ReadBalance, cacheVars
  <2>2. CASE my' = [my EXCEPT ![t].at = "store", ![t].balance = wallet, ![t].recent = TRUE]
    <3> DEFINE r == [my[t] EXCEPT !.at = "store", !.balance = wallet, !.recent = TRUE]
    <3>1. r \in Local
      BY <1>0 DEF Shape, Local
    <3>2. my' = [my EXCEPT ![t] = r]
      BY <1>0, <2>2 DEF Shape
    <3>3. r.at = "store" /\ r.recent = TRUE
      BY <1>0 DEF Shape, Local
    <3> HIDE DEF r
    <3>4. Moves(t) /\ my'[t] = r
      BY <1>0, <3>1, <3>2, Becomes
    <3>5. Shape'
      BY <1>0, <1>1, <3>4 DEF ReadBalance, Shape, Moves, chainVars, nonceVars, cacheVars
    <3>6. NonceFrame
      BY <1>1, <3>3, <3>4
      DEF ReadBalance, NonceFrame, Moves, PendingNonceAt, chainVars, nonceVars
    <3>7. FreshIsRecent'
      BY <1>1 DEF ReadBalance, cacheVars, WalletInv, FreshIsRecent
    <3>8. StoredIsRecent'
      BY <3>3, <3>4 DEF WalletInv, StoredIsRecent, Moves
    <3> QED
      BY <3>5, <3>6, <3>7, <3>8, NonceKept DEF WalletInv
  <2> QED
    BY <1>1, <2>1, <2>2 DEF ReadBalance
<1>2. CASE Store(t)
  <2> DEFINE r == [Idle EXCEPT !.at = "last"]
  <2>1. r \in Local /\ r.at = "last"
    BY IdleIsLocal DEF Local
  <2>2. my' = [my EXCEPT ![t] = r]
    BY <1>2 DEF Store
  <2> HIDE DEF r
  <2>3. Moves(t) /\ my'[t] = r
    BY <1>0, <2>1, <2>2, Becomes
  <2>4. Shape'
    BY <1>0, <1>2, <2>3 DEF Store, Shape, Local, Moves, chainVars, nonceVars
  <2>5. NonceFrame
    BY <1>2, <2>1, <2>3
    DEF Store, NonceFrame, Moves, PendingNonceAt, chainVars, nonceVars
  <2>6. FreshIsRecent'
    BY <1>2 DEF Store, StampOf, WalletInv, FreshIsRecent, StoredIsRecent
  <2>7. StoredIsRecent'
    BY <2>1, <2>3 DEF WalletInv, StoredIsRecent, Moves
  <2> QED
    BY <2>4, <2>5, <2>6, <2>7, NonceKept DEF WalletInv
<1> QED
  BY <1>1, <1>2

(* The start of a fulfilment, and of the balance check of the poll loop. *)
LEMMA StartKeeps ==
  ASSUME WalletInv, (\E t \in Publishers : Publish(t)) \/ OnScanned
  PROVE  WalletInv'
<1> USE DEF Places, Threads
<1>0. Shape
  BY DEF WalletInv
<1>1. ASSUME NEW t \in Publishers, Publish(t) PROVE WalletInv'
  <2>1. Moves(t) /\ my'[t].at \in {"lock", "idle"}
    <3>1. CASE Go(t, "lock")
      BY <1>0, <3>1, GoMoves
    <3>2. CASE UNCHANGED my
      BY <1>0, <1>1, <3>2 DEF Publish, Moves, Shape
    <3> QED
      BY <1>1, <3>1, <3>2 DEF Publish, fees
  <2> QED
    BY <1>1, <2>1, ElsewhereKeeps DEF Publish, cacheVars
<1>2. CASE OnScanned
  <2>1. Moves(Poll) /\ my'[Poll].at = "refresh"
    BY <1>0, <1>2, GoMoves DEF OnScanned
  <2> QED
    BY <1>2, <2>1, ElsewhereKeeps DEF OnScanned, cacheVars
<1> QED
  BY <1>1, <1>2

-----------------------------------------------------------------------------
(* The next number is taken under the lock, so nobody else is sending. *)
LEMMA ReserveKeeps ==
  ASSUME WalletInv, NEW t \in Threads, reserveNonce(t)
  PROVE  WalletInv'
<1> USE DEF Places
<1>0. Shape
  BY DEF WalletInv
<1>1. CASE Return(t) /\ UNCHANGED nonceVars
  BY <1>0, <1>1, ReturnMoves, ElsewhereKeeps DEF reserveNonce, cacheVars
<1>2. ASSUME NEW n \in Int, n = PendingNonceAt, nonceMu' = t,
             my' = [my EXCEPT ![t].at = "send", ![t].nonce = n],
             nextNonce' \in Int, haveNonce' => nextNonce' = n
      PROVE  WalletInv'
  <2> DEFINE r == [my[t] EXCEPT !.at = "send", !.nonce = n]
  <2>1. r \in Local /\ r.at = "send" /\ r.nonce = n
    BY <1>0 DEF Shape, Local
  <2>2. my' = [my EXCEPT ![t] = r]
    BY <1>0, <1>2 DEF Shape
  <2> HIDE DEF r
  <2>3. Moves(t) /\ my'[t] = r
    BY <1>0, <2>1, <2>2, Becomes
  <2>4. UNCHANGED <<chainVars, cacheVars>>
    BY DEF reserveNonce
  <2>5. Shape'
    BY <1>0, <1>2, <2>3, <2>4 DEF Shape, Moves, chainVars, cacheVars
  <2>6. CacheFrame
    BY <2>1, <2>3, <2>4 DEF CacheFrame, Moves, cacheVars
  <2>7. \A u \in Threads \ {t} : my'[u].at # "send"
    BY <2>3, WalletAssumption DEF reserveNonce, WalletInv, NonceIsNext, Moves
  <2>8. PendingNonceAt' = n
    BY <1>2, <2>4 DEF PendingNonceAt, chainVars
  <2>9. NonceIsNext'
    BY <1>2, <2>1, <2>3, <2>7, <2>8 DEF NonceIsNext
  <2> QED
    BY <2>5, <2>6, <2>9, CacheKept DEF WalletInv
<1>3. PendingNonceAt \in Int
  BY <1>0, LenProperties DEF Shape, PendingNonceAt
<1>4. nextNonce \in Int /\ (haveNonce => nextNonce = PendingNonceAt)
  BY <1>0 DEF Shape, WalletInv, NonceIsNext
<1>5. CASE haveNonce /\ my' = [my EXCEPT ![t].at = "send", ![t].nonce = nextNonce]
           /\ nonceMu' = t /\ UNCHANGED <<haveNonce, nextNonce>>
  BY <1>2, <1>4, <1>5
<1>6. CASE my' = [my EXCEPT ![t].at = "send", ![t].nonce = PendingNonceAt]
           /\ nonceMu' = t /\ nextNonce' = PendingNonceAt
  BY <1>2, <1>3, <1>6
<1> QED
  BY <1>1, <1>5, <1>6 DEF reserveNonce

(* A transaction that is taken moves the chain's number and the counter     *)
(* together; whatever else happens, the counter is not trusted again. *)
LEMMA SendKeeps ==
  ASSUME WalletInv, NEW t \in Threads, SendTransaction(t)
  PROVE  WalletInv'
<1> USE DEF Places
<1>0. Shape
  BY DEF WalletInv
<1>1. Moves(t) /\ my'[t].at \in {"sent", "idle"}
  BY <1>0, ReturnMoves, GoMoves DEF SendTransaction
<1>2. UNCHANGED <<mined, wallet, earned, cacheVars>>
  BY DEF SendTransaction
<1>3. /\ Accepted(my[t]) \in Seq(Pooled)
      /\ Len(Accepted(my[t])) = Len(pool) + 1
  <2>1. [call |-> my[t].call, overlapped |-> my[t].overlapped] \in Pooled
    BY <1>0 DEF Shape, Local, Pooled
  <2> QED
    BY <1>0, <2>1, AppendProperties DEF Accepted, Shape
<1>4. nonceMu = t /\ my[t].nonce = PendingNonceAt
  BY DEF SendTransaction, WalletInv, NonceIsNext
<1>5. \A u \in Threads : my'[u].at # "send"
  BY <1>1, <1>4 DEF WalletInv, NonceIsNext, Moves
<1>6. PendingNonceAt \in Int /\ Len(pool) \in Int
  BY <1>0, LenProperties DEF Shape, PendingNonceAt
<1>7. pool' \in Seq(Pooled) /\ nextNonce' \in Int
  BY <1>0, <1>3, <1>4, <1>6 DEF SendTransaction, Shape
<1>8. Shape'
  BY <1>0, <1>1, <1>2, <1>7 DEF Shape, Moves, cacheVars
<1>9. CacheFrame
  BY <1>1, <1>2 DEF CacheFrame, Moves, cacheVars
<1>10. haveNonce' => nextNonce' = PendingNonceAt'
  <2>1. CASE DropNonce
    BY <2>1 DEF DropNonce
  <2>2. CASE pool' = Accepted(my[t]) /\ nextNonce' = my[t].nonce + 1
    BY <1>0, <1>2, <1>3, <1>4, <1>6, <2>2 DEF PendingNonceAt, Shape
  <2> QED
    BY <2>1, <2>2 DEF SendTransaction
<1>11. NonceIsNext'
  BY <1>5, <1>10 DEF NonceIsNext
<1> QED
  BY <1>8, <1>9, <1>11, CacheKept DEF WalletInv

-----------------------------------------------------------------------------
(* Mining takes a transaction from the pool and counts it. *)
LEMMA MineKeeps ==
  ASSUME WalletInv, MineTx
  PROVE  WalletInv'
<1>0. Shape
  BY DEF WalletInv
<1>1. Len(pool) \in Nat \ {0} /\ pool \in [1..Len(pool) -> Pooled]
  BY <1>0, LenProperties, EmptySeq DEF Shape, MineTx
<1>2. pool' \in Seq(Pooled) /\ Len(pool') = Len(pool) - 1
  <2>1. CASE pool' = Tail(pool)
    BY <1>0, <2>1, HeadTailProperties DEF Shape, MineTx
  <2>2. CASE pool' = [i \in 1..(Len(pool) - 1) |-> [pool[i + 1] EXCEPT !.overlapped = TRUE]]
    <3>1. \A i \in 1..(Len(pool) - 1) : i + 1 \in 1..Len(pool)
      BY <1>1
    <3>2. \A i \in 1..(Len(pool) - 1) : [pool[i + 1] EXCEPT !.overlapped = TRUE] \in Pooled
      BY <1>1, <3>1 DEF Pooled
    <3>3. Len(pool) - 1 \in Nat
      BY <1>1
    <3>4. pool' \in Seq(Pooled)
      BY <2>2, <3>2, <3>3, IsASeq
    <3>5. Len(pool') = Len(pool) - 1
      BY <2>2, <3>3
    <3> QED
      BY <3>4, <3>5
  <2> QED
    BY <2>1, <2>2 DEF MineTx
<1>3. PendingNonceAt' = PendingNonceAt
  BY <1>0, <1>1, <1>2 DEF PendingNonceAt, MineTx, Shape
<1>4. /\ my' \in [Threads -> Local]
      /\ \A t \in Threads : /\ my'[t].at = my[t].at /\ my'[t].nonce = my[t].nonce
                            /\ my'[t].stamp = my[t].stamp /\ my'[t].recent = my[t].recent
  <2>1. CASE UNCHANGED my
    BY <1>0, <2>1 DEF Shape
  <2>2. CASE my' = [t \in Threads |->
                    [my[t] EXCEPT !.overlapped = my[t].at = "price" \/ my[t].call = "claim"]]
    <3>1. ASSUME NEW t \in Threads
          PROVE  /\ my'[t] \in Local
                 /\ my'[t].at = my[t].at /\ my'[t].nonce = my[t].nonce
                 /\ my'[t].stamp = my[t].stamp /\ my'[t].recent = my[t].recent
      <4>1. PICK b \in BOOLEAN : my'[t] = [my[t] EXCEPT !.overlapped = b]
        BY <2>2
      <4>2. my[t] \in Local
        BY <1>0 DEF Shape
      <4> QED
        BY <4>1, <4>2 DEF Local
    <3> QED
      BY <2>2, <3>1
  <2> QED
    BY <2>1, <2>2 DEF MineTx
<1>5. wallet' \in Int /\ earned' \in Int /\ mined' \in Int
  <2>1. {FulfilCost, ClaimCost, Fee} \subseteq Int
    BY WalletAssumption
  <2>2. mined' = mined + 1 /\ earned' \in {earned, earned + Fee, 0}
    BY DEF MineTx
  <2>3. wallet' \in {wallet - FulfilCost, wallet - ClaimCost + earned}
    BY DEF MineTx
  <2> QED
    BY <1>0, <2>1, <2>2, <2>3 DEF Shape
<1>6. Shape'
  BY <1>0, <1>2, <1>4, <1>5 DEF Shape, MineTx, nonceVars, cacheVars
<1>7. NonceFrame
  BY <1>3, <1>4 DEF NonceFrame, MineTx, nonceVars
<1>8. CacheFrame
  BY <1>4 DEF CacheFrame, MineTx, cacheVars
<1> QED
  BY <1>6, <1>7, <1>8, NonceKept, CacheKept DEF WalletInv

(* When an interval passes nothing is fresh any more. *)
LEMMA MinuteKeeps ==
  ASSUME WalletInv, Minute
  PROVE  WalletInv'
<1>0. Shape
  BY DEF WalletInv
<1>1. \A t \in Threads : my'[t] = [my[t] EXCEPT
         !.stamp = IF my[t].stamp = "fresh" THEN "expired" ELSE my[t].stamp, !.recent = FALSE]
  BY <1>0 DEF Minute, Shape
<1>2. \A t \in Threads : /\ my'[t] \in Local
                           /\ my'[t].at = my[t].at /\ my'[t].nonce = my[t].nonce
                           /\ my'[t].stamp # "fresh"
  <2> SUFFICES ASSUME NEW t \in Threads
               PROVE  /\ my'[t] \in Local
                      /\ my'[t].at = my[t].at /\ my'[t].nonce = my[t].nonce
                      /\ my'[t].stamp # "fresh"
    OBVIOUS
  <2>1. my[t] \in Local
    BY <1>0 DEF Shape
  <2>2. PICK stamp \in Stamps \ {"fresh"} :
          my'[t] = [my[t] EXCEPT !.stamp = stamp, !.recent = FALSE]
    <3>1. my[t].stamp \in Stamps
      BY <2>1 DEF Local
    <3>2. CASE my[t].stamp = "fresh"
      BY <1>1, <3>2 DEF Stamps
    <3>3. CASE my[t].stamp # "fresh"
      BY <1>1, <3>1, <3>3
    <3> QED
      BY <3>2, <3>3
  <2> QED
    BY <2>1, <2>2 DEF Local
<1>3. my' \in [Threads -> Local]
  BY <1>2 DEF Minute
<1>4. Shape'
  BY <1>0, <1>3 DEF Shape, Minute, chainVars, nonceVars
<1>5. NonceFrame
  BY <1>2 DEF NonceFrame, Minute, PendingNonceAt, chainVars, nonceVars
<1>6. CacheFrame
  BY <1>2 DEF CacheFrame, Minute
<1> QED
  BY <1>4, <1>5, <1>6, NonceKept, CacheKept DEF WalletInv

(* Every step of the daemon, the chain and time preserves the invariant. *)
LEMMA WalletStep == WalletInv /\ [WalletNext]_walletVars => WalletInv'
<1> SUFFICES ASSUME WalletInv, [WalletNext]_walletVars PROVE WalletInv'
  OBVIOUS
<1>1. CASE UNCHANGED walletVars
  BY <1>1 DEF walletVars, chainVars, nonceVars, cacheVars, WalletInv, Shape,
              NonceIsNext, PendingNonceAt, FreshIsRecent, StoredIsRecent
<1>2. CASE WalletNext
  BY <1>2, MineKeeps, MinuteKeeps, StartKeeps, ReserveKeeps, SendKeeps, LookingKeeps,
     RefreshKeeps DEF WalletNext, Send, checkBalance
<1> QED
  BY <1>1, <1>2

(* Whatever the numbers of goroutines, requests and failures, a thread      *)
(* signs with the number the chain expects next, and a counter that the     *)
(* client trusts is that number (reserveNonce and send in chain.go). *)
THEOREM NonceTheorem == WalletSpec => []NonceIsNext
<1>1. WalletInv => NonceIsNext
  BY DEF WalletInv
<1> QED
  BY WalletInitInv, WalletStep, <1>1, PTL DEF WalletSpec

(* However refreshes, invalidations and the clock interleave, a balance the *)
(* cache counts as fresh was read within the last interval (balance.go). *)
THEOREM FreshTheorem == WalletSpec => []FreshIsRecent
<1>1. WalletInv => FreshIsRecent
  BY DEF WalletInv
<1> QED
  BY WalletInitInv, WalletStep, <1>1, PTL DEF WalletSpec
-----------------------------------------------------------------------------
(* Money.  The wallet covers what is in the pool, so it never goes below    *)
(* zero; and earnings only grow until a claim is mined, which marks every   *)
(* claim and every look at the earnings that it overtakes.                  *)

Caller ==
  [at : {"idle", "lock", "send", "sent", "refresh", "reading", "store", "last",
         "address", "write", "written", "earnings", "price"},
   call : {"fulfil", "claim"}, nonce : Nat, stamp : {"zero", "fresh", "expired"},
   balance : Nat \cup {Nobody}, recent : BOOLEAN, earnings : Nat, overlapped : BOOLEAN]

Tx == [call : {"fulfil", "claim"}, overlapped : BOOLEAN]

Worth == ClaimMargin * ClaimCost

(* What a thread knows: it has an address before it asks for its earnings,  *)
(* and the earnings it saw are still there, unless it was overtaken. *)
Informed(r) ==
  /\ r.at \in {"earnings", "price"} => subscription = "set"
  /\ r.at = "price" /\ ~r.overlapped => r.earnings <= earned
  /\ r.call = "claim" /\ ~r.overlapped => earned > Worth

PoolPays ==
  \A i \in 1..Len(pool) : pool[i].call = "claim" /\ ~pool[i].overlapped => earned > Worth

MoneyInv ==
  /\ WalletTypeOK
  /\ \A t \in Threads : Informed(my[t])
  /\ PoolPays
  /\ wallet >= Owed

(* The places of one kind of transaction in a pool. *)
Of(p, kind) == {i \in 1..Len(p) : p[i].call = kind}

(* The pool's transactions of one kind are a finite set. *)
LEMMA WaitingNat ==
  ASSUME NEW p \in Seq(Tx), NEW kind
  PROVE  /\ IsFiniteSet(Of(p, kind))
         /\ Cardinality(Of(p, kind)) \in Nat
<1>1. IsFiniteSet(1..Len(p))
  BY FS_Interval, LenProperties
<1>2. IsFiniteSet(Of(p, kind))
  BY <1>1, FS_Subset DEF Of
<1> QED
  BY <1>2, FS_CardinalityType

(* A transaction at the end counts for its own kind. *)
LEMMA WaitingAppend ==
  ASSUME NEW p \in Seq(Tx), NEW tx \in Tx, NEW kind, NEW q, q = Append(p, tx)
  PROVE  Cardinality(Of(q, kind))
           = Cardinality(Of(p, kind)) + (IF tx.call = kind THEN 1 ELSE 0)
<1> USE DEF Of
<1> DEFINE S == {i \in 1..Len(p) : p[i].call = kind}
           N == Len(p)
           T == {i \in 1..Len(q) : q[i].call = kind}
<1>1. /\ N \in Nat /\ Len(q) = N + 1 /\ q[N + 1] = tx
      /\ \A i \in 1..N : q[i] = p[i]
  BY LenProperties, AppendProperties
<1>2. IsFiniteSet(S) /\ Cardinality(S) \in Nat
  BY WaitingNat
<1>3. CASE tx.call = kind
  <2>1. T = S \cup {N + 1}
    BY <1>1, <1>3
  <2>2. N + 1 \notin S
    BY <1>1
  <2>3. Cardinality(S \cup {N + 1}) = Cardinality(S) + 1
    BY <1>2, <2>2, FS_AddElement
  <2> QED
    BY <1>3, <2>1, <2>3
<1>4. CASE tx.call # kind
  <2>1. T = S
    BY <1>1, <1>4
  <2>2. Cardinality(S) = Cardinality(S) + 0
    BY <1>2
  <2> QED
    BY <1>4, <2>1, <2>2, Zenon
<1> QED
  BY <1>3, <1>4

(* The transaction at the head no longer counts once the others move up. *)
LEMMA WaitingShift ==
  ASSUME NEW p \in Seq(Tx), p # <<>>, NEW q \in Seq(Tx), Len(q) = Len(p) - 1,
         \A i \in 1..Len(q) : q[i].call = p[i + 1].call, NEW kind
  PROVE  Cardinality(Of(p, kind))
           = Cardinality(Of(q, kind)) + (IF p[1].call = kind THEN 1 ELSE 0)
<1> USE DEF Of
<1> DEFINE N == Len(p)
           S == {i \in 1..N : p[i].call = kind}
           R == {i \in 2..N : p[i].call = kind}
           T == {i \in 1..Len(q) : q[i].call = kind}
           f == [i \in T |-> i + 1]
<1>1. N \in Nat /\ N >= 1 /\ Len(q) = N - 1
  BY LenProperties, EmptySeq
<1>2. IsFiniteSet(T) /\ Cardinality(T) \in Nat
  BY WaitingNat
<1>3. f \in Bijection(T, R)
  <2>1. f \in [T -> R]
    BY <1>1
  <2>2. \A i, j \in T : f[i] = f[j] => i = j
    BY <1>1
  <2>3. \A j \in R : \E i \in T : f[i] = j
    <3> SUFFICES ASSUME NEW j \in R PROVE j - 1 \in T /\ f[j - 1] = j
      OBVIOUS
    <3>1. j - 1 \in 1..Len(q) /\ q[j - 1].call = p[j].call
      BY <1>1
    <3> QED
      BY <1>1, <3>1
  <2> HIDE DEF f, T, R
  <2> QED
    BY <2>1, <2>2, <2>3, Fun_IsBij
<1>4. IsFiniteSet(R) /\ Cardinality(R) = Cardinality(T)
  BY <1>2, <1>3, FS_Bijection DEF ExistsBijection
<1>5. CASE p[1].call = kind
  <2>1. S = R \cup {1} /\ 1 \notin R
    BY <1>1, <1>5
  <2>2. Cardinality(R \cup {1}) = Cardinality(R) + 1
    BY <1>4, <2>1, FS_AddElement
  <2> QED
    BY <1>4, <1>5, <2>1, <2>2
<1>6. CASE p[1].call # kind
  <2>1. S = R
    BY <1>1, <1>6
  <2>2. Cardinality(T) = Cardinality(T) + 0
    BY <1>2
  <2> QED
    BY <1>4, <1>6, <2>1, <2>2, Zenon
<1> QED
  BY <1>5, <1>6

(* WalletTypeOK in three parts: the chain, the threads and the rest. *)
ChainOk == mined \in Nat /\ wallet \in Nat /\ earned \in Nat /\ pool \in Seq(Tx)

RestOk ==
  /\ nextNonce \in Nat /\ fulfils \in Nat /\ refusals \in Nat
  /\ haveNonce \in BOOLEAN /\ recent \in BOOLEAN
  /\ nonceMu \in Threads \cup {Nobody}
  /\ subscription \in {"none", "torn", "set"}
  /\ value \in Nat \cup {Nobody}
  /\ fetched \in {"zero", "fresh", "expired"}

(* The three parts are WalletTypeOK. *)
LEMMA TypeParts == WalletTypeOK <=> ChainOk /\ RestOk /\ my \in [Threads -> Caller]
BY DEF WalletTypeOK, ChainOk, RestOk, Tx, Caller

(* A thread with no call in progress knows nothing and wants nothing. *)
LEMMA IdleIsCaller ==
  /\ Idle \in Caller
  /\ Idle.at = "idle" /\ Idle.call = "fulfil"
BY DEF Idle, Caller

(* The daemon starts with an empty pool. *)
LEMMA MoneyInit == WalletInit => MoneyInv
<1> SUFFICES ASSUME WalletInit PROVE MoneyInv
  OBVIOUS
<1>1. {ClaimCost, FulfilCover, Funds, MaxFulfils, MaxRefusals} \subseteq Nat
  BY WalletAssumption
<1>2. my \in [Threads -> Caller] /\ \A t \in Threads : Informed(my[t])
  BY IdleIsCaller DEF WalletInit, Informed
<1>3. ChainOk /\ RestOk
  BY <1>1, EmptySeq DEF WalletInit, ChainOk, RestOk
<1>4. pool = <<>> /\ Len(pool) = 0
  BY EmptySeq DEF WalletInit
<1>5. PoolPays
  BY <1>4 DEF PoolPays
<1>6. Waiting("fulfil") = 0 /\ Waiting("claim") = 0
  <2>1. {i \in 1..Len(pool) : pool[i].call = "fulfil"} = {}
        /\ {i \in 1..Len(pool) : pool[i].call = "claim"} = {}
    BY <1>4
  <2> QED
    BY <2>1, FS_EmptySet DEF Waiting
<1>7. Cover("fulfil") \in Nat /\ Cover("claim") \in Nat
  BY <1>1 DEF Cover
<1>8. Owed = 0
  BY <1>6, <1>7 DEF Owed
<1> QED
  BY <1>1, <1>2, <1>3, <1>5, <1>8, TypeParts DEF WalletInit, MoneyInv

(* A thread moves on, and the chain does not change: what has to be shown   *)
(* is that the thread is well typed and knows what it should. *)
LEMMA ThreadKeeps ==
  ASSUME MoneyInv, NEW t \in Threads, NEW r \in Caller, my' = [my EXCEPT ![t] = r],
         UNCHANGED chainVars, RestOk',
         subscription = "set" => subscription' = "set",
         r.at \in {"earnings", "price"} => subscription' = "set",
         r.at = "price" /\ ~r.overlapped => r.earnings <= earned,
         r.call = "claim" /\ ~r.overlapped => earned > Worth
  PROVE  MoneyInv'
<1>1. ChainOk' /\ PoolPays' /\ (wallet >= Owed)'
  BY TypeParts DEF MoneyInv, ChainOk, PoolPays, Owed, Waiting, chainVars
<1>2. my' \in [Threads -> Caller]
  BY TypeParts DEF MoneyInv
<1>3. WalletTypeOK'
  BY <1>1, <1>2, TypeParts DEF WalletTypeOK, ChainOk, RestOk, Tx, Caller
<1>4. \A u \in Threads : Informed(my[u])'
  <2> SUFFICES ASSUME NEW u \in Threads PROVE Informed(my[u])'
    OBVIOUS
  <2>1. CASE u = t
    <3>1. my'[u] = r
      BY <2>1, TypeParts DEF MoneyInv
    <3> QED
      BY <3>1 DEF Informed, chainVars, Worth
  <2>2. CASE u # t
    <3>1. my'[u] = my[u]
      BY <2>2, TypeParts DEF MoneyInv
    <3> QED
      BY <3>1 DEF MoneyInv, Informed, chainVars, Worth
  <2> QED
    BY <2>1, <2>2
<1> QED
  BY <1>1, <1>3, <1>4 DEF MoneyInv

(* A thread returns. *)
LEMMA ReturnKeepsMoney ==
  ASSUME MoneyInv, NEW t \in Threads, Return(t), UNCHANGED <<chainVars, subscription>>, RestOk'
  PROVE  MoneyInv'
BY IdleIsCaller, ThreadKeeps DEF Return

(* A thread goes on to a place other than "price". *)
LEMMA GoKeepsMoney ==
  ASSUME MoneyInv, NEW t \in Threads, NEW place \in Places \ {"price"}, Go(t, place),
         UNCHANGED chainVars, RestOk',
         subscription = "set" => subscription' = "set",
         place = "earnings" => subscription' = "set"
  PROVE  MoneyInv'
<1> DEFINE r == [my[t] EXCEPT !.at = place]
<1>1. my[t] \in Caller /\ Informed(my[t])
  BY TypeParts DEF MoneyInv
<1>2. r \in Caller /\ r.at = place /\ r.call = my[t].call /\ r.overlapped = my[t].overlapped
  BY <1>1 DEF Caller, Places
<1>3. my' = [my EXCEPT ![t] = r]
  BY TypeParts DEF Go, MoneyInv
<1>4. r.call = "claim" /\ ~r.overlapped => earned > Worth
  BY <1>1, <1>2 DEF Informed
<1> HIDE DEF r
<1> QED
  BY <1>2, <1>3, <1>4, ThreadKeeps

(* checkBalance, up to the address. *)
LEMMA BalanceKeepsMoney ==
  ASSUME MoneyInv, NEW t \in Threads,
         Invalidate(t) \/ Refresh(t) \/ ReadBalance(t) \/ Store(t) \/ Last(t)
  PROVE  MoneyInv'
<1>0. /\ ChainOk /\ RestOk /\ my \in [Threads -> Caller] /\ my[t] \in Caller /\ Informed(my[t])
  BY TypeParts DEF MoneyInv
<1>1. ASSUME UNCHANGED <<chainVars, nonceVars, subscription, fulfils>>, refusals' \in Nat,
             value' \in Nat \cup {Nobody}, fetched' \in {"zero", "fresh", "expired"},
             recent' \in BOOLEAN
      PROVE  RestOk'
  BY <1>0, <1>1 DEF RestOk, nonceVars
<1>2. ASSUME NEW r \in Caller, my' = [my EXCEPT ![t] = r], RestOk',
             UNCHANGED <<chainVars, subscription>>,
             r.at \notin {"earnings", "price"}, r.call = my[t].call \/ r.call = "fulfil",
             r.overlapped = my[t].overlapped
      PROVE  MoneyInv'
  BY <1>0, <1>2, ThreadKeeps DEF Informed
<1>3. ASSUME NothingNew(t), RestOk', UNCHANGED <<chainVars, subscription>> PROVE MoneyInv'
  BY <1>3, ReturnKeepsMoney, GoKeepsMoney DEF NothingNew, Places
<1>4. CASE Invalidate(t)
  <2>1. RestOk' /\ UNCHANGED <<chainVars, subscription>>
    BY <1>0, <1>1, <1>4 DEF Invalidate, RestOk
  <2> QED
    BY <1>4, <2>1, ReturnKeepsMoney, GoKeepsMoney DEF Invalidate, Places
<1>5. CASE Refresh(t)
  <2>1. RestOk' /\ UNCHANGED <<chainVars, subscription>>
    BY <1>0, <1>1, <1>5 DEF Refresh, RestOk, cacheVars
  <2>2. CASE fetched = "fresh"
    BY <1>3, <1>5, <2>1, <2>2 DEF Refresh
  <2>3. CASE fetched # "fresh"
    <3> DEFINE r == [my[t] EXCEPT !.at = "reading", !.stamp = "fresh"]
    <3>1. /\ r \in Caller /\ r.at = "reading" /\ r.call = my[t].call
          /\ r.overlapped = my[t].overlapped
      BY <1>0 DEF Caller
    <3>2. my' = [my EXCEPT ![t] = r]
      BY <1>0, <1>5, <2>3 DEF Refresh
    <3> HIDE DEF r
    <3> QED
      BY <1>2, <2>1, <3>1, <3>2
  <2> QED
    BY <2>2, <2>3
<1>6. CASE ReadBalance(t)
  <2>0. refusals' \in Nat
    BY <1>0, <1>6 DEF ReadBalance, Refuse, RestOk
  <2>1. RestOk' /\ UNCHANGED <<chainVars, subscription>>
    BY <1>0, <1>1, <1>6, <2>0 DEF ReadBalance, RestOk, cacheVars
  <2>2. CASE NothingNew(t)
    BY <1>3, <2>1, <2>2
  <2>3. CASE my' = [my EXCEPT ![t].at = "store", ![t].balance = wallet, ![t].recent = TRUE]
    <3> DEFINE r == [my[t] EXCEPT !.at = "store", !.balance = wallet, !.recent = TRUE]
    <3>1. /\ r \in Caller /\ r.at = "store" /\ r.call = my[t].call
          /\ r.overlapped = my[t].overlapped
      BY <1>0 DEF Caller, ChainOk
    <3>2. my' = [my EXCEPT ![t] = r]
      BY <1>0, <2>3
    <3> HIDE DEF r
    <3> QED
      BY <1>2, <2>1, <3>1, <3>2
  <2> QED
    BY <1>6, <2>2, <2>3 DEF ReadBalance
<1>7. CASE Store(t)
  <2>1. RestOk' /\ UNCHANGED <<chainVars, subscription>>
    BY <1>0, <1>1, <1>7 DEF Store, RestOk, StampOf, Caller
  <2> DEFINE r == [Idle EXCEPT !.at = "last"]
  <2>2. r \in Caller /\ r.at = "last" /\ r.call = "fulfil"
    BY DEF Idle, Caller
  <2>3. my' = [my EXCEPT ![t] = r]
    BY <1>7 DEF Store
  <2> HIDE DEF r
  <2> QED
    BY <2>1, <2>2, <2>3, ThreadKeeps
<1>8. CASE Last(t)
  <2>1. RestOk' /\ UNCHANGED <<chainVars, subscription>>
    BY <1>0, <1>1, <1>8 DEF Last, RestOk, cacheVars
  <2>2. CASE value = Nobody \/ value >= Floor
    BY <1>8, <2>1, <2>2, ReturnKeepsMoney DEF Last
  <2>3. CASE ~(value = Nobody \/ value >= Floor)
    <3> DEFINE r == [my[t] EXCEPT !.at = "address", !.balance = value]
    <3>1. /\ r \in Caller /\ r.at = "address" /\ r.call = my[t].call
          /\ r.overlapped = my[t].overlapped
      BY <1>0 DEF Caller, RestOk
    <3>2. my' = [my EXCEPT ![t] = r]
      BY <1>0, <1>8, <2>3 DEF Last
    <3> HIDE DEF r
    <3> QED
      BY <1>2, <2>1, <3>1, <3>2
  <2> QED
    BY <2>2, <2>3
<1> QED
  BY <1>4, <1>5, <1>6, <1>7, <1>8

(* The address, the earnings and the decision to collect them. *)
LEMMA EarningsKeepMoney ==
  ASSUME MoneyInv, NEW t \in Threads,
         Subscription(t) \/ CacheAddress(t) \/ WithdrawableOf(t) \/ Claim(t)
  PROVE  MoneyInv'
<1> USE DEF Places
<1>0. /\ ChainOk /\ RestOk /\ my \in [Threads -> Caller] /\ my[t] \in Caller /\ Informed(my[t])
  BY TypeParts DEF MoneyInv
<1>1. refusals' \in Nat /\ UNCHANGED <<chainVars, nonceVars, cacheVars, fulfils>>
  BY <1>0 DEF Subscription, CacheAddress, WithdrawableOf, Claim, fees, Refuse, RestOk
<1>2. ASSUME subscription' \in {"none", "torn", "set"} PROVE RestOk'
  BY <1>0, <1>1, <1>2 DEF RestOk, nonceVars, cacheVars
<1>3. CASE Subscription(t)
  <2>1. RestOk' /\ UNCHANGED subscription
    BY <1>0, <1>2, <1>3 DEF Subscription, RestOk
  <2> QED
    BY <1>1, <1>3, <2>1, ReturnKeepsMoney, GoKeepsMoney DEF Subscription
<1>4. CASE CacheAddress(t)
  <2>1. RestOk' /\ (subscription = "set" => subscription' = "set")
    BY <1>0, <1>2, <1>4 DEF CacheAddress, RestOk
  <2> QED
    BY <1>1, <1>4, <2>1, GoKeepsMoney DEF CacheAddress
<1>5. CASE WithdrawableOf(t)
  <2>1. RestOk' /\ UNCHANGED subscription
    BY <1>0, <1>2, <1>5 DEF WithdrawableOf, RestOk
  <2>2. CASE Return(t)
    BY <1>1, <2>1, <2>2, ReturnKeepsMoney
  <2>3. CASE my' = [my EXCEPT ![t].at = "price", ![t].earnings = earned]
    <3> DEFINE r == [my[t] EXCEPT !.at = "price", !.earnings = earned]
    <3>1. /\ r \in Caller /\ r.at = "price" /\ r.call = my[t].call
          /\ r.overlapped = my[t].overlapped /\ r.earnings = earned
      BY <1>0 DEF Caller, ChainOk
    <3>2. my' = [my EXCEPT ![t] = r]
      BY <1>0, <2>3
    <3> HIDE DEF r
    <3>3. r.at \in {"earnings", "price"} => subscription' = "set"
      BY <1>0, <1>5, <2>1 DEF WithdrawableOf, Informed
    <3>4. r.earnings <= earned
      BY <1>0, <3>1 DEF ChainOk
    <3>5. r.call = "claim" /\ ~r.overlapped => earned > Worth
      BY <1>0, <3>1 DEF Informed
    <3> QED
      BY <1>1, <2>1, <3>1, <3>2, <3>3, <3>4, <3>5, ThreadKeeps
  <2> QED
    BY <1>5, <2>2, <2>3 DEF WithdrawableOf
<1>6. CASE Claim(t)
  <2>1. RestOk' /\ UNCHANGED subscription
    BY <1>0, <1>2, <1>6 DEF Claim, RestOk
  <2>2. CASE Return(t)
    BY <1>1, <2>1, <2>2, ReturnKeepsMoney
  <2>3. CASE /\ ShouldClaim(my[t].balance, my[t].earnings)
             /\ my' = [my EXCEPT ![t] =
                         [Idle EXCEPT !.at = "lock",
                                      !.call = IF subscription = "set" THEN "claim" ELSE "astray",
                                      !.overlapped = my[t].overlapped]]
    <3> DEFINE r == [Idle EXCEPT !.at = "lock", !.call = "claim", !.overlapped = my[t].overlapped]
    <3>1. subscription = "set" /\ my[t].at = "price"
      BY <1>0, <1>6 DEF Claim, Informed
    <3>2. /\ r \in Caller /\ r.at = "lock" /\ r.call = "claim"
          /\ r.overlapped = my[t].overlapped
      BY <1>0 DEF Idle, Caller
    <3>3. my' = [my EXCEPT ![t] = r]
      BY <2>3, <3>1
    <3> HIDE DEF r
    <3>4. Worth \in Nat /\ my[t].earnings \in Nat /\ my[t].earnings > Worth
      BY <1>0, <2>3, WalletAssumption DEF ShouldClaim, Worth, Caller
    <3>5. ~my[t].overlapped => earned > Worth
      BY <1>0, <3>1, <3>4 DEF Informed, ChainOk
    <3> QED
      BY <1>1, <2>1, <3>2, <3>3, <3>5, ThreadKeeps
  <2> QED
    BY <1>6, <2>2, <2>3 DEF Claim, fees
<1> QED
  BY <1>3, <1>4, <1>5, <1>6

(* Fulfill, and the poll loop's check of the balance. *)
LEMMA StartKeepsMoney ==
  ASSUME MoneyInv, (\E t \in Publishers : Publish(t)) \/ OnScanned
  PROVE  MoneyInv'
<1> USE DEF Places, Threads
<1>0. ChainOk /\ RestOk /\ my \in [Threads -> Caller]
  BY TypeParts DEF MoneyInv
<1>1. ASSUME NEW t \in Publishers, Publish(t) PROVE MoneyInv'
  <2>1. fulfils' \in Nat /\ refusals' \in Nat
    BY <1>0, <1>1 DEF Publish, fees, Refuse, RestOk
  <2>2. RestOk' /\ UNCHANGED <<chainVars, subscription>>
    BY <1>0, <1>1, <2>1 DEF Publish, RestOk, nonceVars, cacheVars
  <2>3. CASE Go(t, "lock")
    BY <2>2, <2>3, GoKeepsMoney
  <2>4. CASE UNCHANGED my
    <3>1. my' = [my EXCEPT ![t] = my[t]] /\ my[t] \in Caller /\ Informed(my[t])
      BY <1>0, <2>4 DEF MoneyInv
    <3> QED
      BY <2>2, <3>1, ThreadKeeps DEF Informed
  <2> QED
    BY <1>1, <2>3, <2>4 DEF Publish, fees
<1>2. CASE OnScanned
  <2>1. RestOk' /\ UNCHANGED <<chainVars, subscription>>
    BY <1>0, <1>2 DEF OnScanned, RestOk, nonceVars, cacheVars
  <2> QED
    BY <1>2, <2>1, GoKeepsMoney DEF OnScanned
<1> QED
  BY <1>1, <1>2

(* The number a thread takes is not below zero. *)
LEMMA ReserveKeepsMoney ==
  ASSUME MoneyInv, NEW t \in Threads, reserveNonce(t)
  PROVE  MoneyInv'
<1>0. /\ ChainOk /\ RestOk /\ my \in [Threads -> Caller] /\ my[t] \in Caller /\ Informed(my[t])
  BY TypeParts DEF MoneyInv
<1>1. PendingNonceAt \in Nat /\ nextNonce \in Nat
  BY <1>0, LenProperties DEF ChainOk, RestOk, PendingNonceAt
<1>2. RestOk' /\ UNCHANGED <<chainVars, subscription>>
  <2>1. /\ haveNonce' \in BOOLEAN /\ nextNonce' \in Nat /\ refusals' \in Nat
        /\ nonceMu' \in Threads \cup {Nobody}
    <3>1. haveNonce' \in BOOLEAN
      BY <1>0, Zenon DEF reserveNonce, RestOk, nonceVars
    <3>2. nextNonce' \in Nat /\ refusals' \in Nat
      BY <1>0, <1>1 DEF reserveNonce, Refuse, RestOk, nonceVars
    <3>3. nonceMu' \in Threads \cup {Nobody}
      BY <1>0 DEF reserveNonce, RestOk, nonceVars
    <3> QED
      BY <3>1, <3>2, <3>3
  <2> QED
    BY <1>0, <2>1 DEF reserveNonce, RestOk, cacheVars
<1>3. ASSUME NEW n \in Nat, my' = [my EXCEPT ![t].at = "send", ![t].nonce = n] PROVE MoneyInv'
  <2> DEFINE r == [my[t] EXCEPT !.at = "send", !.nonce = n]
  <2>1. /\ r \in Caller /\ r.at = "send" /\ r.call = my[t].call
        /\ r.overlapped = my[t].overlapped
    BY <1>0 DEF Caller
  <2>2. my' = [my EXCEPT ![t] = r]
    BY <1>0, <1>3
  <2> HIDE DEF r
  <2> QED
    BY <1>0, <1>2, <2>1, <2>2, ThreadKeeps DEF Informed
<1> QED
  BY <1>1, <1>2, <1>3, ReturnKeepsMoney DEF reserveNonce

(* What each kind of transaction must be covered with, and how many wait. *)
LEMMA CoverNat ==
  ASSUME ChainOk
  PROVE  /\ Cover("fulfil") \in Nat /\ Cover("claim") \in Nat
         /\ Waiting("fulfil") \in Nat /\ Waiting("claim") \in Nat
         /\ Owed \in Nat
<1>1. Cover("fulfil") \in Nat /\ Cover("claim") \in Nat
  BY WalletAssumption DEF Cover
<1>2. Waiting("fulfil") \in Nat /\ Waiting("claim") \in Nat
  BY WaitingNat, Zenon DEF ChainOk, Waiting, Of
<1> QED
  BY <1>1, <1>2 DEF Owed

(* One more of something costs one more of it. *)
LEMMA OneMore ==
  ASSUME NEW c \in Nat, NEW n \in Nat
  PROVE  c * (n + 1) = c * n + c
OBVIOUS

(* What is accepted adds its cover to what is owed, and the endpoint has    *)
(* checked that the wallet holds that. *)
LEMMA AcceptedKeepsMoney ==
  ASSUME MoneyInv, NEW t \in Threads, Acceptable(my[t]), pool' = Accepted(my[t]),
         UNCHANGED <<mined, wallet, earned>>
  PROVE  ChainOk' /\ PoolPays' /\ (wallet >= Owed)'
<1>0. /\ ChainOk /\ RestOk /\ my \in [Threads -> Caller] /\ my[t] \in Caller /\ Informed(my[t])
      /\ PoolPays
  BY TypeParts DEF MoneyInv
<1>1. PICK tx \in Tx : /\ tx.call = my[t].call /\ tx.overlapped = my[t].overlapped
                       /\ pool' = Append(pool, tx)
  <2> DEFINE tx == [call |-> my[t].call, overlapped |-> my[t].overlapped]
  <2>1. tx \in Tx /\ tx.call = my[t].call /\ tx.overlapped = my[t].overlapped
    BY <1>0 DEF Caller, Tx
  <2>2. pool' = Append(pool, tx)
    BY DEF Accepted
  <2> HIDE DEF tx
  <2> QED
    BY <2>1, <2>2
<1>2. /\ pool' \in Seq(Tx) /\ Len(pool) \in Nat /\ Len(pool') = Len(pool) + 1
      /\ pool'[Len(pool) + 1] = tx
      /\ \A i \in 1..Len(pool) : pool'[i] = pool[i]
  BY <1>0, <1>1, AppendProperties, LenProperties DEF ChainOk
<1>3. ChainOk'
  BY <1>0, <1>2 DEF ChainOk
<1>4. PoolPays'
  <2> SUFFICES ASSUME NEW i \in 1..Len(pool'), pool'[i].call = "claim", ~pool'[i].overlapped
               PROVE  earned' > Worth
    BY DEF PoolPays, Worth
  <2>1. CASE i \in 1..Len(pool)
    BY <1>0, <1>2, <2>1 DEF PoolPays
  <2>2. CASE i = Len(pool) + 1
    BY <1>0, <1>1, <1>2, <2>2 DEF Informed
  <2> QED
    BY <1>2, <2>1, <2>2
<1>5. /\ Waiting("fulfil")' = Waiting("fulfil") + (IF tx.call = "fulfil" THEN 1 ELSE 0)
      /\ Waiting("claim")' = Waiting("claim") + (IF tx.call = "claim" THEN 1 ELSE 0)
  <2>1. pool \in Seq(Tx)
    BY <1>0 DEF ChainOk
  <2>2. ASSUME NEW kind
        PROVE  Cardinality(Of(pool', kind))
                 = Cardinality(Of(pool, kind)) + (IF tx.call = kind THEN 1 ELSE 0)
    <3>1. \A q : q = Append(pool, tx) =>
            Cardinality(Of(q, kind)) = Cardinality(Of(pool, kind)) + (IF tx.call = kind THEN 1 ELSE 0)
      BY <2>1, WaitingAppend
    <3> QED
      BY <1>1, <3>1
  <2> QED
    BY <2>2, Zenon DEF Waiting, Of
<1>6. wallet \in Nat /\ wallet >= Owed + Cover(tx.call)
  BY <1>0, <1>1 DEF ChainOk, Acceptable
<1>7. Owed' = Cover("fulfil") * Waiting("fulfil")' + Cover("claim") * Waiting("claim")'
  BY DEF Owed, Cover
<1>8. Owed' = Owed + Cover(tx.call)
  <2>1. CASE tx.call = "fulfil"
    <3>1. Waiting("fulfil")' = Waiting("fulfil") + 1 /\ Waiting("claim")' = Waiting("claim")
      BY <1>0, <1>5, <2>1, CoverNat
    <3> QED
      BY <1>0, <1>7, <2>1, <3>1, CoverNat, OneMore DEF Owed
  <2>2. CASE tx.call = "claim"
    <3>1. Waiting("fulfil")' = Waiting("fulfil") /\ Waiting("claim")' = Waiting("claim") + 1
      BY <1>0, <1>5, <2>2, CoverNat
    <3> QED
      BY <1>0, <1>7, <2>2, <3>1, CoverNat, OneMore DEF Owed
  <2> QED
    BY <2>1, <2>2 DEF Tx
<1> QED
  BY <1>3, <1>4, <1>6, <1>8

(* A thread moves on as it may, and the chain keeps what it should. *)
LEMMA SendKeepsMoney ==
  ASSUME MoneyInv, NEW t \in Threads, SendTransaction(t)
  PROVE  MoneyInv'
<1>0. /\ ChainOk /\ RestOk /\ my \in [Threads -> Caller] /\ my[t] \in Caller /\ Informed(my[t])
  BY TypeParts DEF MoneyInv
<1>1. RestOk' /\ UNCHANGED <<mined, wallet, earned, subscription>>
  <2>1. my[t].nonce \in Nat
    BY <1>0 DEF Caller
  <2>2. haveNonce' \in BOOLEAN
    BY <1>0 DEF SendTransaction, DropNonce, RestOk
  <2>3. nextNonce' \in Nat /\ refusals' \in Nat
    BY <1>0, <2>1 DEF SendTransaction, Refuse, RestOk
  <2> QED
    BY <1>0, <2>2, <2>3 DEF SendTransaction, RestOk, cacheVars
<1>2. ChainOk' /\ PoolPays' /\ (wallet >= Owed)'
  <2>1. CASE UNCHANGED pool
    BY <1>0, <1>1, <2>1 DEF MoneyInv, ChainOk, PoolPays, Owed, Waiting
  <2>2. CASE Acceptable(my[t]) /\ pool' = Accepted(my[t])
    BY <1>1, <2>2, AcceptedKeepsMoney
  <2> QED
    BY <2>1, <2>2 DEF SendTransaction
<1>3. PICK r \in Caller : /\ my' = [my EXCEPT ![t] = r] /\ r.at \in {"sent", "idle"}
                          /\ r.call = "claim" /\ ~r.overlapped => earned > Worth
  <2>1. CASE Return(t)
    BY <2>1, IdleIsCaller DEF Return
  <2>2. CASE Go(t, "sent")
    <3> DEFINE r == [my[t] EXCEPT !.at = "sent"]
    <3>1. /\ r \in Caller /\ r.at = "sent" /\ r.call = my[t].call
          /\ r.overlapped = my[t].overlapped
      BY <1>0 DEF Caller
    <3>2. my' = [my EXCEPT ![t] = r]
      BY <1>0, <2>2 DEF Go
    <3> HIDE DEF r
    <3> QED
      BY <1>0, <3>1, <3>2 DEF Informed
  <2> QED
    BY <2>1, <2>2 DEF SendTransaction
<1>4. my' \in [Threads -> Caller]
  BY <1>0, <1>3
<1>5. WalletTypeOK'
  BY <1>1, <1>2, <1>4 DEF WalletTypeOK, ChainOk, RestOk, Tx, Caller
<1>6. \A u \in Threads : Informed(my[u])'
  <2> SUFFICES ASSUME NEW u \in Threads PROVE Informed(my[u])'
    OBVIOUS
  <2>1. CASE u = t
    BY <1>0, <1>1, <1>3, <2>1 DEF Informed, Worth
  <2>2. CASE u # t
    BY <1>0, <1>1, <1>3, <2>2 DEF MoneyInv, Informed, Worth
  <2> QED
    BY <2>1, <2>2
<1> QED
  BY <1>2, <1>5, <1>6 DEF MoneyInv

(* Once the transaction at the head is mined its cover is owed no more. *)
LEMMA MinedIsPaid ==
  ASSUME ChainOk, pool # <<>>, pool' \in Seq(Tx), Len(pool') = Len(pool) - 1,
         \A i \in 1..Len(pool') : pool'[i].call = pool[i + 1].call
  PROVE  /\ Owed = Owed' + Cover(pool[1].call)
         /\ Owed' \in Nat /\ pool[1].call \in {"fulfil", "claim"}
<1>0. pool \in Seq(Tx)
  BY DEF ChainOk
<1>1. ASSUME NEW kind
      PROVE  Cardinality(Of(pool, kind))
               = Cardinality(Of(pool', kind)) + (IF pool[1].call = kind THEN 1 ELSE 0)
  <2>1. \A q \in Seq(Tx) :
          Len(q) = Len(pool) - 1 /\ (\A i \in 1..Len(q) : q[i].call = pool[i + 1].call)
          => Cardinality(Of(pool, kind))
               = Cardinality(Of(q, kind)) + (IF pool[1].call = kind THEN 1 ELSE 0)
    BY <1>0, WaitingShift
  <2> QED
    BY <2>1
<1>2. /\ Waiting("fulfil") = Waiting("fulfil")' + (IF pool[1].call = "fulfil" THEN 1 ELSE 0)
      /\ Waiting("claim") = Waiting("claim")' + (IF pool[1].call = "claim" THEN 1 ELSE 0)
  BY <1>1, Zenon DEF Waiting, Of
<1>3. Waiting("fulfil")' \in Nat /\ Waiting("claim")' \in Nat
  <2>1. ASSUME NEW kind PROVE Cardinality(Of(pool', kind)) \in Nat
    BY WaitingNat
  <2> QED
    BY <2>1, Zenon DEF Waiting, Of
<1>4. Owed' = Cover("fulfil") * Waiting("fulfil")' + Cover("claim") * Waiting("claim")'
  BY DEF Owed, Cover
<1>5. Owed' \in Nat
  BY <1>3, <1>4, CoverNat
<1>6. pool[1].call \in {"fulfil", "claim"}
  <2>1. 1 \in 1..Len(pool)
    BY <1>0, EmptySeq, LenProperties
  <2>2. pool[1] \in Tx
    BY <1>0, <2>1, ElementOfSeq
  <2> QED
    BY <2>2 DEF Tx
<1>9. /\ Cover("fulfil") \in Nat /\ Cover("claim") \in Nat
      /\ Owed = Cover("fulfil") * Waiting("fulfil") + Cover("claim") * Waiting("claim")
  BY CoverNat DEF Owed
<1>10. ASSUME NEW a \in Nat, NEW b \in Nat, NEW m \in Nat, NEW n \in Nat
       PROVE  /\ a * (m + 1) + b * n = (a * m + b * n) + a
              /\ a * m + b * (n + 1) = (a * m + b * n) + b
  OBVIOUS
<1>11. PICK a \in Nat, b \in Nat, m \in Nat, n \in Nat :
         /\ a = Cover("fulfil") /\ b = Cover("claim")
         /\ m = Waiting("fulfil")' /\ n = Waiting("claim")'
  BY <1>3, <1>9
<1>12. Owed' = a * m + b * n
  BY <1>4, <1>11
<1>7. CASE pool[1].call = "fulfil"
  <2>1. Waiting("fulfil") = Waiting("fulfil")' + 1 /\ Waiting("claim") = Waiting("claim")'
    BY <1>2, <1>3, <1>7
  <2>2. Owed = a * (m + 1) + b * n
    BY <1>9, <1>11, <2>1
  <2>3. a * (m + 1) + b * n = (a * m + b * n) + a
    BY <1>10
  <2> QED
    BY <1>5, <1>6, <1>7, <1>11, <1>12, <2>2, <2>3
<1>8. CASE pool[1].call = "claim"
  <2>1. Waiting("fulfil") = Waiting("fulfil")' /\ Waiting("claim") = Waiting("claim")' + 1
    BY <1>2, <1>3, <1>8
  <2>2. Owed = a * m + b * (n + 1)
    BY <1>9, <1>11, <2>1
  <2>3. a * m + b * (n + 1) = (a * m + b * n) + b
    BY <1>10
  <2> QED
    BY <1>5, <1>6, <1>8, <1>11, <1>12, <2>2, <2>3
<1> QED
  BY <1>6, <1>7, <1>8

(* Mining costs no more than was covered, and a claim marks whatever it     *)
(* overtakes. *)
LEMMA MineKeepsMoney ==
  ASSUME MoneyInv, MineTx
  PROVE  MoneyInv'
<1>0. /\ ChainOk /\ RestOk /\ my \in [Threads -> Caller] /\ PoolPays /\ wallet >= Owed
      /\ \A t \in Threads : my[t] \in Caller /\ Informed(my[t])
  BY TypeParts DEF MoneyInv
<1>1. RestOk' /\ UNCHANGED subscription /\ mined' \in Nat /\ pool # <<>>
  BY <1>0 DEF MineTx, RestOk, ChainOk, nonceVars, cacheVars
<1>2. Len(pool) \in Nat \ {0} /\ pool \in [1..Len(pool) -> Tx]
  BY <1>0, <1>1, LenProperties, EmptySeq DEF ChainOk
<1>3. wallet \in Nat /\ earned \in Nat
  BY <1>0 DEF ChainOk
<1>7. /\ FulfilCost \in Nat /\ FulfilCover \in Nat /\ FulfilCost <= FulfilCover
      /\ ClaimCost \in Nat /\ Fee \in Nat /\ Worth \in Nat
  <2>1. ClaimMargin \in Nat /\ ClaimCost \in Nat
    BY WalletAssumption
  <2>2. Worth \in Nat
    BY <2>1 DEF Worth
  <2> QED
    BY <2>2, WalletAssumption
<1>4. ASSUME ChainOk', PoolPays', (wallet >= Owed)', my' \in [Threads -> Caller],
             \A t \in Threads : Informed(my[t])'
      PROVE  MoneyInv'
  <2>1. WalletTypeOK'
    BY <1>1, <1>4 DEF WalletTypeOK, ChainOk, RestOk, Tx, Caller
  <2> QED
    BY <1>4, <2>1 DEF MoneyInv
<1>5. CASE /\ pool[1].call = "fulfil"
           /\ pool' = Tail(pool)
           /\ wallet' = wallet - FulfilCost
           /\ earned' \in {earned, earned + Fee}
           /\ UNCHANGED my
  <2>0. /\ pool' \in Seq(Tx) /\ Len(pool') = Len(pool) - 1
        /\ \A i \in 1..Len(pool') : pool'[i] = pool[i + 1]
    <3>1. pool \in Seq(Tx)
      BY <1>0 DEF ChainOk
    <3> QED
      BY <1>1, <1>5, <3>1, HeadTailProperties
  <2>1. /\ pool' \in Seq(Tx) /\ Len(pool') = Len(pool) - 1
        /\ \A i \in 1..Len(pool') : pool'[i] = pool[i + 1] /\ i + 1 \in 1..Len(pool)
    <3>1. ASSUME NEW i \in 1..Len(pool') PROVE i + 1 \in 1..Len(pool)
      BY <1>2, <2>0
    <3> QED
      BY <2>0, <3>1
  <2>9. \A i \in 1..Len(pool') : pool'[i].call = pool[i + 1].call
    BY <2>1
  <2>2. Owed = Owed' + FulfilCover /\ Owed' \in Nat
    BY <1>0, <1>1, <1>5, <2>1, <2>9, MinedIsPaid DEF Cover
  <2>3. wallet' \in Nat /\ wallet' >= Owed'
    <3>1. wallet' = wallet - FulfilCost /\ wallet >= Owed
      BY <1>0, <1>5
    <3>2. PICK w \in Nat, o \in Nat : w = wallet /\ o = Owed'
      BY <1>3, <2>2
    <3>3. w >= o + FulfilCover
      BY <2>2, <3>1, <3>2
    <3>4. w - FulfilCost \in Nat /\ w - FulfilCost >= o
      BY <1>7, <3>3
    <3> QED
      BY <3>1, <3>2, <3>4
  <2>4. earned' \in Nat /\ earned' >= earned /\ Worth \in Nat
    <3>1. earned' = earned \/ earned' = earned + Fee
      BY <1>5
    <3> QED
      BY <1>3, <1>7, <3>1
  <2>5. PoolPays'
    <3> SUFFICES ASSUME NEW i \in 1..Len(pool'), pool'[i].call = "claim", ~pool'[i].overlapped
                 PROVE  earned' > Worth
      BY DEF PoolPays, Worth
    <3>1. earned > Worth
      BY <1>0, <2>1 DEF PoolPays
    <3> QED
      BY <1>3, <2>4, <3>1
  <2>6. ASSUME NEW t \in Threads PROVE Informed(my[t])'
    <3>1. my'[t] = my[t] /\ my[t].earnings \in Nat /\ Informed(my[t])
      BY <1>0, <1>5 DEF Caller
    <3>2. my[t].at = "price" /\ ~my[t].overlapped => my[t].earnings <= earned'
      BY <1>3, <2>4, <3>1 DEF Informed
    <3>3. my[t].call = "claim" /\ ~my[t].overlapped => earned' > Worth
      BY <1>3, <2>4, <3>1 DEF Informed
    <3> QED
      BY <1>1, <3>1, <3>2, <3>3 DEF Informed, Worth
  <2>7. ChainOk'
    BY <1>1, <2>1, <2>3, <2>4 DEF ChainOk
  <2> QED
    BY <1>0, <1>4, <1>5, <2>3, <2>5, <2>6, <2>7
<1>6. CASE /\ pool[1].call = "claim"
           /\ pool' = [i \in 1..(Len(pool) - 1) |-> [pool[i + 1] EXCEPT !.overlapped = TRUE]]
           /\ wallet' = wallet - ClaimCost + earned
           /\ earned' = 0
           /\ my' = [t \in Threads |->
                       [my[t] EXCEPT !.overlapped = my[t].at = "price" \/ my[t].call = "claim"]]
  <2>0. Len(pool) - 1 \in Nat
    BY <1>2
  <2>1. ASSUME NEW i \in 1..(Len(pool) - 1)
        PROVE  /\ pool'[i] \in Tx /\ pool'[i].call = pool[i + 1].call
               /\ pool'[i].overlapped = TRUE
    <3>1. i + 1 \in 1..Len(pool)
      BY <1>2
    <3>2. pool[i + 1] \in Tx
      BY <1>2, <3>1
    <3> QED
      BY <1>6, <3>2 DEF Tx
  <2>2. pool' \in Seq(Tx) /\ Len(pool') = Len(pool) - 1
    <3>1. \A i \in 1..(Len(pool) - 1) : [pool[i + 1] EXCEPT !.overlapped = TRUE] \in Tx
      BY <1>6, <2>1
    <3>2. pool' \in Seq(Tx)
      BY <1>6, <2>0, <3>1, IsASeq
    <3> QED
      BY <1>6, <2>0, <3>2
  <2>3. Owed = Owed' + ClaimCost /\ Owed' \in Nat
    BY <1>0, <1>1, <1>6, <2>1, <2>2, MinedIsPaid DEF Cover
  <2>4. wallet' \in Nat /\ wallet' >= Owed'
    <3>1. wallet' = wallet - ClaimCost + earned /\ wallet >= Owed
      BY <1>0, <1>6
    <3>2. PICK w \in Nat, o \in Nat : w = wallet /\ o = Owed'
      BY <1>3, <2>3
    <3>3. w >= o + ClaimCost
      BY <2>3, <3>1, <3>2
    <3>4. w - ClaimCost + earned \in Nat /\ w - ClaimCost + earned >= o
      BY <1>3, <1>7, <3>3
    <3> QED
      BY <3>1, <3>2, <3>4
  <2>5. PoolPays'
    BY <2>1, <2>2 DEF PoolPays
  <2>6. ASSUME NEW t \in Threads PROVE my'[t] \in Caller /\ Informed(my[t])'
    <3>1. PICK b \in BOOLEAN : /\ b = (my[t].at = "price" \/ my[t].call = "claim")
                               /\ my'[t] = [my[t] EXCEPT !.overlapped = b]
      BY <1>6
    <3>2. /\ my'[t] \in Caller /\ my'[t].at = my[t].at /\ my'[t].call = my[t].call
          /\ my'[t].overlapped = b
      BY <1>0, <3>1 DEF Caller
    <3> QED
      BY <1>0, <1>1, <3>1, <3>2 DEF Informed
  <2>7. ChainOk'
    BY <1>1, <1>6, <2>2, <2>4 DEF ChainOk
  <2>8. my' \in [Threads -> Caller]
    BY <1>6, <2>6
  <2> QED
    BY <1>4, <2>4, <2>5, <2>6, <2>7, <2>8
<1> QED
  BY <1>5, <1>6 DEF MineTx

(* Time costs nothing. *)
LEMMA MinuteKeepsMoney ==
  ASSUME MoneyInv, Minute
  PROVE  MoneyInv'
<1>0. /\ ChainOk /\ RestOk /\ my \in [Threads -> Caller]
      /\ \A t \in Threads : my[t] \in Caller /\ Informed(my[t])
  BY TypeParts DEF MoneyInv
<1>1. RestOk' /\ UNCHANGED <<chainVars, subscription>>
  BY <1>0 DEF Minute, RestOk, nonceVars
<1>2. ChainOk' /\ PoolPays' /\ (wallet >= Owed)'
  BY <1>0, <1>1 DEF MoneyInv, ChainOk, PoolPays, Owed, Waiting, chainVars
<1>3. ASSUME NEW t \in Threads PROVE my'[t] \in Caller /\ Informed(my[t])'
  <2>1. PICK st \in {"zero", "fresh", "expired"} :
          my'[t] = [my[t] EXCEPT !.stamp = st, !.recent = FALSE]
    <3>1. my[t].stamp \in {"zero", "fresh", "expired"}
      BY <1>0 DEF Caller
    <3>2. CASE my[t].stamp = "fresh"
      BY <3>2 DEF Minute
    <3>3. CASE my[t].stamp # "fresh"
      BY <3>1, <3>3 DEF Minute
    <3> QED
      BY <3>2, <3>3
  <2>2. /\ my'[t] \in Caller /\ my'[t].at = my[t].at /\ my'[t].call = my[t].call
        /\ my'[t].earnings = my[t].earnings /\ my'[t].overlapped = my[t].overlapped
    BY <1>0, <2>1 DEF Caller
  <2> QED
    BY <1>0, <1>1, <2>2 DEF Informed, chainVars
<1>4. my' \in [Threads -> Caller]
  BY <1>3 DEF Minute
<1>5. WalletTypeOK'
  BY <1>1, <1>2, <1>4 DEF WalletTypeOK, ChainOk, RestOk, Tx, Caller
<1> QED
  BY <1>2, <1>3, <1>5 DEF MoneyInv

(* Every step preserves what is said of money. *)
LEMMA MoneyStep == MoneyInv /\ [WalletNext]_walletVars => MoneyInv'
<1> SUFFICES ASSUME MoneyInv, [WalletNext]_walletVars PROVE MoneyInv'
  OBVIOUS
<1>1. CASE UNCHANGED walletVars
  BY <1>1 DEF walletVars, chainVars, nonceVars, cacheVars, MoneyInv, WalletTypeOK,
              Informed, PoolPays, Owed, Waiting
<1>2. CASE WalletNext
  BY <1>2, MineKeepsMoney, MinuteKeepsMoney, StartKeepsMoney, ReserveKeepsMoney,
     SendKeepsMoney, BalanceKeepsMoney, EarningsKeepMoney DEF WalletNext, Send, checkBalance
<1> QED
  BY <1>1, <1>2

(* Whatever is sent, refused or mined, and however many threads find the    *)
(* address half written: the wallet never goes below zero, and no claim is  *)
(* sent to an address that is not there (checkBalance, WithdrawableOf and   *)
(* Claim). *)
THEOREM WalletTypes == WalletSpec => []WalletTypeOK
<1>1. MoneyInv => WalletTypeOK
  BY DEF MoneyInv
<1> QED
  BY MoneyInit, MoneyStep, <1>1, PTL DEF WalletSpec

(* A claim that no other claim of the operator has overtaken collects more  *)
(* than ClaimMargin times what it costs, for every margin and every price   *)
(* (ShouldClaim in earnings.go). *)
THEOREM ClaimsPayTheorem == WalletSpec => ClaimsPay
<1>1. MoneyInv /\ [WalletNext]_walletVars =>
        [(pool # <<>> /\ pool[1].call = "claim" /\ ~pool[1].overlapped /\ mined' # mined)
           => earned > ClaimMargin * ClaimCost]_walletVars
  <2> SUFFICES ASSUME MoneyInv, pool # <<>>, pool[1].call = "claim", ~pool[1].overlapped
               PROVE  earned > ClaimMargin * ClaimCost
    OBVIOUS
  <2>1. 1 \in 1..Len(pool)
    BY EmptySeq, LenProperties, TypeParts DEF MoneyInv, ChainOk
  <2> QED
    BY <2>1 DEF MoneyInv, PoolPays, Worth
<1> QED
  BY MoneyInit, MoneyStep, <1>1, PTL DEF WalletSpec, ClaimsPay
=============================================================================

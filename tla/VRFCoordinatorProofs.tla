------------------------ MODULE VRFCoordinatorProofs ------------------------
(***************************************************************************)
(* The coordinator over its accounts and fees, for any number of consumers, *)
(* requests and operators, any prices, any gas limits and any depth of      *)
(* re-entrance.                                                             *)
(*                                                                         *)
(* CoordInv holds whatever consumers call.  The books of the open requests  *)
(* (Books) balance as long as every member of a batch is still open when    *)
(* its turn comes (BatchStillOpen), and that is so when batches have one    *)
(* member, or when consumers close no requests while they are delivered to. *)
(***************************************************************************)
EXTENDS VRFCoordinator, SubscriptionProofs, FeeScheduleProofs,
        NaturalsInduction, WellFoundedInduction

-----------------------------------------------------------------------------
(* The requests. *)

RequestsOk ==
  /\ requests \in [RequestIds -> Request]
  /\ \A r \in RequestIds : Exists(r) => requests[r].subId \in SubIds
  /\ \A r \in RequestIds : ~Exists(r) => requests[r] = EmptyRequest
  /\ nonces \in [Addresses -> 0..MaxNonce]
  /\ \A a \in Addresses, n \in Nonces : n >= nonces[a] => ~Exists(IdOf[<<a, n>>])

(* What a step may do to a request that was made. *)
Final(r) ==
  LET old == requests[r] new == requests'[r] IN
  /\ new.consumer = old.consumer /\ new.subId = old.subId
  /\ new.paid = old.paid /\ new.callbackGasLimit = old.callbackGasLimit
  /\ new.numWords = old.numWords /\ new.createdAtBlock = old.createdAtBlock
  /\ old.fulfilled => new.fulfilled
  /\ old.refunded => new.refunded
  /\ old.callbackSucceeded => new.callbackSucceeded

AllFinal == \A r \in RequestIds : Exists(r) => Final(r)

(* Marking a request that was made changes nothing else of it. *)
LEMMA MarkOk ==
  ASSUME RequestsOk, NEW r \in RequestIds, Exists(r), UNCHANGED nonces,
         \/ requests' = [requests EXCEPT ![r].fulfilled = TRUE]
         \/ requests' = [requests EXCEPT ![r].refunded = TRUE]
         \/ requests' = [requests EXCEPT ![r].callbackSucceeded = TRUE]
  PROVE  RequestsOk' /\ AllFinal
<1>1. requests \in [RequestIds -> Request] /\ requests[r] \in Request
  BY DEF RequestsOk
<1>2. requests' \in [RequestIds -> Request]
  <2>1. PICK rec \in Request : requests' = [requests EXCEPT ![r] = rec]
    <3>1. CASE requests' = [requests EXCEPT ![r].fulfilled = TRUE]
      <4>1. [requests[r] EXCEPT !.fulfilled = TRUE] \in Request
        BY <1>1 DEF Request
      <4> QED
        BY <3>1, <4>1
    <3>2. CASE requests' = [requests EXCEPT ![r].refunded = TRUE]
      <4>1. [requests[r] EXCEPT !.refunded = TRUE] \in Request
        BY <1>1 DEF Request
      <4> QED
        BY <3>2, <4>1
    <3>3. CASE requests' = [requests EXCEPT ![r].callbackSucceeded = TRUE]
      <4>1. [requests[r] EXCEPT !.callbackSucceeded = TRUE] \in Request
        BY <1>1 DEF Request
      <4> QED
        BY <3>3, <4>1
    <3> QED
      BY <3>1, <3>2, <3>3
  <2> QED
    BY <1>1, <2>1
<1>3. /\ \A s \in RequestIds \ {r} : requests'[s] = requests[s]
      /\ Final(r)
  BY <1>1 DEF Final, Request
<1>4. AllFinal
  BY <1>3 DEF AllFinal, Final
<1>5. \A s \in RequestIds : Exists(s) <=> Exists(s)'
  BY <1>3 DEF Exists, Final
<1>6. \A s \in RequestIds : Exists(s)' => requests'[s].subId \in SubIds
  BY <1>3, <1>5 DEF RequestsOk, Final
<1>7. \A s \in RequestIds : ~Exists(s)' => requests'[s] = EmptyRequest
  BY <1>3, <1>5 DEF RequestsOk
<1>8. \A a \in Addresses, n \in Nonces : n >= nonces'[a] => ~Exists(IdOf[<<a, n>>])'
  <2>1. \A a \in Addresses, n \in Nonces : IdOf[<<a, n>>] \in RequestIds
    BY DEF RequestIds
  <2> QED
    BY <1>5, <2>1 DEF RequestsOk
<1> QED
  BY <1>2, <1>4, <1>6, <1>7, <1>8 DEF RequestsOk

(* A price is a number. *)
LEMMA PriceType ==
  ASSUME FeeInv, NEW n \in Nat, NEW g \in Nat
  PROVE  price(n, g) \in Nat /\ price(n, g) >= fees.base
<1>1. fees.base \in Nat /\ fees.perWord \in Nat /\ fees.perGas \in Nat
  BY DEF FeeInv, FeeTypeOK, Fees
<1>2. fees.perWord * n \in Nat /\ fees.perGas * g \in Nat
  BY <1>1
<1> QED
  BY <1>1, <1>2 DEF price

(* The id of a new request is taken by none. *)
LEMMA NewRequestOk ==
  ASSUME RequestsOk, SubInv, FeeInv, NEW caller \in Addresses, NEW id \in SubIds,
         NEW n \in WordCounts, NEW g \in GasLimits, requestRandomWords(caller, id, n, g)
  PROVE  LET r == IdOf[<<caller, nonces[caller]>>] IN
         /\ r \in RequestIds /\ ~Exists(r)
         /\ price(n, g) \in Amount
         /\ requests' = [requests EXCEPT ![r] =
              [consumer |-> caller, subId |-> id, numWords |-> n, callbackGasLimit |-> g,
               createdAtBlock |-> block, paid |-> price(n, g),
               fulfilled |-> FALSE, refunded |-> FALSE, callbackSucceeded |-> FALSE]]
         /\ RequestsOk' /\ AllFinal
<1> USE CoordinatorAssumption, AddressAssumption, SubscriptionAssumption
<1> DEFINE x == <<caller, nonces[caller]>>
           r == IdOf[x]
           rec == [consumer |-> caller, subId |-> id, numWords |-> n, callbackGasLimit |-> g,
                   createdAtBlock |-> block, paid |-> price(n, g),
                   fulfilled |-> FALSE, refunded |-> FALSE, callbackSucceeded |-> FALSE]
<1>1. nonces[caller] \in Nonces
  BY DEF requestRandomWords, RequestsOk, Nonces
<1>2. x \in Addresses \X Nonces /\ r \in RequestIds
  BY <1>1 DEF RequestIds
<1>3. ~Exists(r)
  BY <1>1 DEF RequestsOk, Nonces
<1>4. price(n, g) \in Amount
  <2>1. price(n, g) \in Nat
    BY PriceType
  <2> QED
    BY <2>1 DEF requestRandomWords, Amount
<1>5. requests' = [requests EXCEPT ![r] = rec]
  BY DEF requestRandomWords
<1>6. rec \in Request
  <2>1. block \in Nat /\ n \in Nat /\ g \in Nat
    BY DEF FeeInv, FeeTypeOK
  <2> QED
    BY <1>4, <2>1 DEF Request, MaybeAddress, Amount
<1>7. requests \in [RequestIds -> Request]
  BY DEF RequestsOk
<1>8. requests' \in [RequestIds -> Request]
  BY <1>5, <1>6, <1>7
<1>9. /\ \A s \in RequestIds \ {r} : requests'[s] = requests[s]
      /\ requests'[r].consumer = caller /\ requests'[r].subId = id
  BY <1>2, <1>5, <1>7
<1>10. AllFinal
  BY <1>3, <1>9 DEF AllFinal, Final
<1> HIDE DEF x, r, rec
<1>11. /\ \A s \in RequestIds : s = r => Exists(s)'
       /\ \A s \in RequestIds \ {r} : Exists(s) <=> Exists(s)'
  BY <1>9 DEF Exists
<1>12. \A s \in RequestIds : Exists(s)' => requests'[s].subId \in SubIds
  BY <1>9, <1>11 DEF RequestsOk
<1>13. \A s \in RequestIds : ~Exists(s)' => requests'[s] = EmptyRequest
  BY <1>9, <1>11 DEF RequestsOk
<1>14. nonces' = [nonces EXCEPT ![caller] = nonces[caller] + 1]
  BY DEF requestRandomWords, TakeNonce, RequestsOk
<1>15. nonces' \in [Addresses -> 0..MaxNonce]
  BY <1>1, <1>14 DEF RequestsOk, Nonces
<1>16. ASSUME NEW a \in Addresses, NEW k \in Nonces, k >= nonces'[a]
       PROVE  ~Exists(IdOf[<<a, k>>])'
  <2>1. IdOf[<<a, k>>] \in RequestIds
    BY DEF RequestIds
  <2>2. k >= nonces[a] /\ (a = caller => k # nonces[caller])
    BY <1>1, <1>14, <1>16 DEF RequestsOk, Nonces
  <2>3. <<a, k>> # x
    BY <2>2 DEF x
  <2>4. IdOf[<<a, k>>] # r
    BY <1>2, <2>3 DEF r
  <2> QED
    BY <1>11, <2>1, <2>2, <2>4 DEF RequestsOk
<1>17. RequestsOk'
  BY <1>8, <1>12, <1>13, <1>15, <1>16 DEF RequestsOk
<1> QED
  BY <1>2, <1>3, <1>4, <1>5, <1>10, <1>17 DEF x, r, rec

-----------------------------------------------------------------------------
(* Induction, as a statement about sets. *)

(* A set of numbers that is not empty has a least one. *)
LEMMA LeastNumber ==
  ASSUME NEW T \in SUBSET Nat, T # {}
  PROVE  \E n \in T : \A m \in T : n <= m
<1> DEFINE R == {ss \in Nat \X Nat : ss[1] < ss[2]}
<1>1. IsWellFoundedOn(R, Nat)
  BY NatLessThanWellFounded DEF OpToRel
<1> HIDE DEF R
<1>2. PICK n \in T : \A m \in T : ~(<<m, n>> \in R)
  BY <1>1, WFMin
<1>3. \A m \in T : ~(m < n)
  BY <1>2 DEF R
<1> QED
  BY <1>3

(* A set that has 0 and with each number the next has all numbers. *)
LEMMA SetInduction ==
  ASSUME NEW S, 0 \in S, \A n \in Nat : n \in S => n + 1 \in S
  PROVE  \A n \in Nat : n \in S
<1> SUFFICES ASSUME Nat \ S # {} PROVE FALSE
  OBVIOUS
<1>1. PICK n \in Nat \ S : \A m \in Nat \ S : n <= m
  BY LeastNumber
<1>2. n # 0 /\ n - 1 \in Nat
  BY <1>1
<1>3. n - 1 \in S
  BY <1>1, <1>2
<1> QED
  BY <1>1, <1>2, <1>3

-----------------------------------------------------------------------------
(* Gas. *)

Limit(r) == requests[r].callbackGasLimit

(* A delivery needs more gas than its consumer is given. *)
LEMMA NeedsMore ==
  ASSUME RequestsOk, NEW r \in RequestIds
  PROVE  Limit(r) \in Nat /\ GasNeeded(r) \in Nat /\ Limit(r) < GasNeeded(r)
<1>1. Limit(r) \in Nat
  BY DEF RequestsOk, Request, Limit
<1>2. POST_CALLBACK_GAS \in Nat /\ POST_CALLBACK_GAS > 0
  BY CoordinatorAssumption
<1> DEFINE L == requests[r].callbackGasLimit
<1>3. L \in Nat
  BY <1>1 DEF Limit
<1> HIDE DEF L
<1>4. (L * 64) \div 63 \in Nat /\ L <= (L * 64) \div 63
  BY <1>3
<1>5. (L * 64) \div 63 + POST_CALLBACK_GAS \in Nat /\ L < (L * 64) \div 63 + POST_CALLBACK_GAS
  BY <1>2, <1>3, <1>4
<1> QED
  BY <1>1, <1>5 DEF GasNeeded, Limit, L

(* A batch needs as much gas as any of its members. *)
LEMMA BatchNeedsEach ==
  ASSUME RequestsOk, NEW ids \in Seq(RequestIds)
  PROVE  /\ BatchGasNeeded(ids) \in Nat
         /\ \A i \in 1..Len(ids) : GasNeeded(ids[i]) <= BatchGasNeeded(ids)
<1> DEFINE N == Len(ids)
           need == [i \in 1..N |-> GasNeeded(ids[i])]
           Sums(g, n) == g[0] = 0 /\ \A i \in 1..n : g[i] = g[i - 1] + need[i]
           S == {n \in Nat : n <= N => \E g \in [0..n -> Nat] : Sums(g, n)}
           Def(G) == G = [n \in 0..N |-> IF n = 0 THEN 0 ELSE G[n - 1] + GasNeeded(ids[n])]
           F == CHOOSE G : Def(G)
<1>1. N \in Nat /\ need \in [1..N -> Nat]
  BY NeedsMore, LenProperties, ElementOfSeq
<1> HIDE DEF need, N
<1>2. \A n \in Nat : n \in S
  <2>1. 0 \in S
    <3>1. [i \in 0..0 |-> 0] \in [0..0 -> Nat] /\ Sums([i \in 0..0 |-> 0], 0)
      OBVIOUS
    <3> QED
      BY <3>1
  <2>2. ASSUME NEW n \in Nat, n \in S PROVE n + 1 \in S
    <3> SUFFICES ASSUME n + 1 <= N PROVE \E g \in [0..(n + 1) -> Nat] : Sums(g, n + 1)
      <4> HIDE DEF Sums
      <4> QED
        OBVIOUS
    <3>1. PICK g \in [0..n -> Nat] : Sums(g, n)
      <4> HIDE DEF Sums
      <4> QED
        BY <1>1, <2>2
    <3> DEFINE h == [i \in 0..(n + 1) |-> IF i = n + 1 THEN g[n] + need[n + 1] ELSE g[i]]
    <3>2. h \in [0..(n + 1) -> Nat]
      BY <1>1
    <3>3. h[0] = 0
      BY <3>1
    <3>4. ASSUME NEW i \in 1..(n + 1) PROVE h[i] = h[i - 1] + need[i]
      <4>1. CASE i = n + 1
        BY <4>1
      <4>2. CASE i \in 1..n
        BY <3>1, <4>2
      <4> QED
        BY <4>1, <4>2
    <3> HIDE DEF h
    <3> QED
      BY <3>2, <3>3, <3>4
  <2> HIDE DEF S
  <2> QED
    BY <2>1, <2>2, SetInduction
<1>3. \E G : Def(G)
  <2>1. PICK g \in [0..N -> Nat] : Sums(g, N)
    <3> HIDE DEF Sums
    <3>1. N \in S
      <4> HIDE DEF S
      <4> QED
        BY <1>1, <1>2
    <3> QED
      BY <1>1, <3>1
  <2>2. \A n \in 0..N : g[n] = IF n = 0 THEN 0 ELSE g[n - 1] + GasNeeded(ids[n])
    BY <1>1, <2>1 DEF need
  <2> QED
    BY <2>2
<1>4. Def(F)
  BY <1>3
<1>5. BatchGasNeeded(ids) = F[N]
  BY DEF BatchGasNeeded, N
<1> HIDE DEF F
<1>6. \A n \in 0..N : F[n] = IF n = 0 THEN 0 ELSE F[n - 1] + need[n]
  BY <1>1, <1>4 DEF need
<1> DEFINE U == {n \in Nat : n <= N => F[n] \in Nat /\ \A i \in 1..n : need[i] <= F[n]}
<1>7. \A n \in Nat : n \in U
  <2>1. 0 \in U
    BY <1>1, <1>6
  <2>2. ASSUME NEW n \in Nat, n \in U PROVE n + 1 \in U
    <3> SUFFICES ASSUME n + 1 <= N
                 PROVE  F[n + 1] \in Nat /\ \A i \in 1..(n + 1) : need[i] <= F[n + 1]
      OBVIOUS
    <3>1. F[n] \in Nat /\ \A i \in 1..n : need[i] <= F[n]
      BY <1>1, <2>2
    <3>2. F[n + 1] = F[n] + need[n + 1] /\ need[n + 1] \in Nat
      BY <1>1, <1>6
    <3>3. \A i \in 1..n : need[i] \in Nat
      BY <1>1
    <3> QED
      BY <3>1, <3>2, <3>3
  <2> HIDE DEF U
  <2> QED
    BY <2>1, <2>2, SetInduction
<1>8. N \in U
  <2> HIDE DEF U
  <2> QED
    BY <1>1, <1>7
<1>9. F[N] \in Nat /\ \A i \in 1..N : need[i] <= F[N]
  BY <1>1, <1>8
<1> QED
  BY <1>5, <1>9 DEF N, need

-----------------------------------------------------------------------------
(* The deliveries in progress. *)

(* Frames and stacks are judged by the requests given, so that these and    *)
(* the stack can move one after the other. *)
MadeIn(rq, r) == rq[r].consumer # NoAddr

LimitIn(rq, r) == rq[r].callbackGasLimit

FrameOk(rq, f) ==
  /\ f.req # NoRequest => MadeIn(rq, f.req)
  /\ \A j \in 1..Len(f.rest) : MadeIn(rq, f.rest[j])

(* All that the inner frame delivers now or later has a smaller budget than *)
(* what the outer one delivers now. *)
Inside(rq, outer, inner) ==
  outer.req # NoRequest =>
    /\ inner.req # NoRequest => LimitIn(rq, inner.req) < LimitIn(rq, outer.req)
    /\ \A j \in 1..Len(inner.rest) : LimitIn(rq, inner.rest[j]) < LimitIn(rq, outer.req)

StackGood(rq, st) ==
  /\ st \in Seq(Frame)
  /\ \A i \in 1..Len(st) : FrameOk(rq, st[i])
  /\ \A i, j \in 1..Len(st) : i < j => Inside(rq, st[i], st[j])

(* A frame's requests are requests. *)
LEMMA FrameIds ==
  ASSUME NEW f \in Frame
  PROVE  /\ f.rest \in Seq(RequestIds) /\ Len(f.rest) \in Nat
         /\ f.req # NoRequest => f.req \in RequestIds
         /\ \A j \in 1..Len(f.rest) : f.rest[j] \in RequestIds
<1>1. f.rest \in Seq(RequestIds) /\ (f.req # NoRequest => f.req \in RequestIds)
  BY DEF Frame
<1> QED
  BY <1>1, ElementOfSeq, LenProperties

(* A stack does not notice what happens to requests it does not change. *)
LEMMA GoodKept ==
  ASSUME NEW rq, NEW rq2, NEW st, StackGood(rq, st),
         \A r \in RequestIds : MadeIn(rq, r) => MadeIn(rq2, r) /\ LimitIn(rq2, r) = LimitIn(rq, r)
  PROVE  StackGood(rq2, st)
<1>1. \A i \in 1..Len(st) : st[i] \in Frame
  BY ElementOfSeq DEF StackGood
<1>2. ASSUME NEW i \in 1..Len(st)
      PROVE  /\ FrameOk(rq2, st[i])
             /\ st[i].req # NoRequest => LimitIn(rq2, st[i].req) = LimitIn(rq, st[i].req)
             /\ \A j \in 1..Len(st[i].rest) :
                  LimitIn(rq2, st[i].rest[j]) = LimitIn(rq, st[i].rest[j])
  <2> DEFINE f == st[i]
  <2>1. f \in Frame /\ FrameOk(rq, f)
    BY <1>1 DEF StackGood
  <2> HIDE DEF f
  <2>2. /\ FrameOk(rq2, f)
        /\ f.req # NoRequest => LimitIn(rq2, f.req) = LimitIn(rq, f.req)
        /\ \A j \in 1..Len(f.rest) : LimitIn(rq2, f.rest[j]) = LimitIn(rq, f.rest[j])
    BY <2>1, FrameIds DEF FrameOk
  <2> QED
    BY <2>2 DEF f
<1>3. \A i, j \in 1..Len(st) : i < j => Inside(rq2, st[i], st[j])
  <2> SUFFICES ASSUME NEW i \in 1..Len(st), NEW j \in 1..Len(st), i < j
               PROVE  Inside(rq2, st[i], st[j])
    OBVIOUS
  <2>1. Inside(rq, st[i], st[j])
    BY DEF StackGood
  <2> QED
    BY <1>2, <2>1 DEF Inside
<1> QED
  BY <1>2, <1>3 DEF StackGood

(* A new frame inside the one on top is inside all. *)
LEMMA GoodPush ==
  ASSUME NEW rq \in [RequestIds -> Request], NEW st, StackGood(rq, st), NEW f \in Frame,
         FrameOk(rq, f),
         st # <<>> => st[Len(st)].req # NoRequest /\ Inside(rq, st[Len(st)], f)
  PROVE  StackGood(rq, Append(st, f))
<1> DEFINE t == Append(st, f)
<1>1. st \in Seq(Frame) /\ Len(st) \in Nat
  BY LenProperties DEF StackGood
<1>2. /\ t \in Seq(Frame) /\ Len(t) = Len(st) + 1
      /\ \A i \in 1..Len(st) : t[i] = st[i]
      /\ t[Len(st) + 1] = f
  BY <1>1, AppendProperties
<1>3. \A r \in RequestIds : LimitIn(rq, r) \in Nat
  BY DEF LimitIn, Request
<1>4. \A i \in 1..Len(st) : st[i] \in Frame
  BY <1>1, ElementOfSeq
<1>5. ASSUME NEW i \in 1..Len(st) PROVE Inside(rq, st[i], f)
  <2> DEFINE g == st[i]
             top == st[Len(st)]
  <2>1. st # <<>> /\ Len(st) \in 1..Len(st)
    BY <1>1
  <2>2. g \in Frame /\ top \in Frame /\ top.req # NoRequest /\ Inside(rq, top, f)
    BY <1>4, <2>1
  <2>3. CASE i = Len(st)
    BY <2>2, <2>3
  <2>4. CASE i # Len(st)
    <3>1. Inside(rq, g, top)
      BY <1>1, <2>1, <2>4 DEF StackGood
    <3> HIDE DEF g, top
    <3>2. /\ LimitIn(rq, top.req) \in Nat
          /\ g.req # NoRequest => LimitIn(rq, g.req) \in Nat
          /\ f.req # NoRequest => LimitIn(rq, f.req) \in Nat
          /\ \A j \in 1..Len(f.rest) : LimitIn(rq, f.rest[j]) \in Nat
      BY <1>3, <2>2, FrameIds
    <3>3. Inside(rq, g, f)
      BY <2>2, <3>1, <3>2 DEF Inside
    <3> QED
      BY <3>3 DEF g
  <2> QED
    BY <2>3, <2>4
<1> HIDE DEF t
<1>6. \A i \in 1..Len(t) : FrameOk(rq, t[i])
  <2>1. \A i \in 1..Len(t) : i \in 1..Len(st) \/ i = Len(st) + 1
    BY <1>1, <1>2
  <2> QED
    BY <1>2, <2>1 DEF StackGood
<1>7. ASSUME NEW i \in 1..Len(t), NEW j \in 1..Len(t), i < j
      PROVE  Inside(rq, t[i], t[j])
  <2>1. i \in 1..Len(st) /\ (j \in 1..Len(st) \/ j = Len(st) + 1)
    BY <1>1, <1>2, <1>7
  <2> QED
    BY <1>2, <1>5, <1>7, <2>1 DEF StackGood
<1>8. StackGood(rq, t)
  BY <1>2, <1>6, <1>7 DEF StackGood
<1> QED
  BY <1>8 DEF t

(* A stack without its top. *)
LEMMA PopProperties ==
  ASSUME NEW st \in Seq(Frame), st # <<>>
  PROVE  LET n == Len(st) - 1
             pop == SubSeq(st, 1, n)
         IN /\ Len(st) \in Nat /\ Len(st) >= 1 /\ n \in Nat
            /\ pop \in Seq(Frame) /\ Len(pop) = n /\ \A i \in 1..n : pop[i] = st[i]
<1> DEFINE n == Len(st) - 1
<1>1. Len(st) \in Nat /\ Len(st) >= 1 /\ n \in Nat
  BY LenProperties, EmptySeq
<1>2. 1 \in 1..(Len(st) + 1) /\ n \in (1 - 1)..Len(st)
  BY <1>1
<1>3. \A i \in 1..n : 1 + i - 1 = i
  BY <1>1
<1> HIDE DEF n
<1>4. /\ SubSeq(st, 1, n) \in Seq(Frame)
      /\ Len(SubSeq(st, 1, n)) = n - 1 + 1
      /\ \A i \in 1..(n - 1 + 1) : SubSeq(st, 1, n)[i] = st[1 + i - 1]
  BY <1>1, <1>2, SubSeqProperties
<1>5. n - 1 + 1 = n
  BY <1>1
<1>6. Len(SubSeq(st, 1, n)) = n /\ \A i \in 1..n : SubSeq(st, 1, n)[i] = st[i]
  BY <1>3, <1>4, <1>5
<1> QED
  BY <1>1, <1>4, <1>6 DEF n

(* The stack without its top, and with another top inside the same frames. *)
LEMMA GoodProceed ==
  ASSUME NEW rq, NEW st, StackGood(rq, st), st # <<>>, NEW f \in Frame, FrameOk(rq, f),
         \A g \in Frame : Inside(rq, g, st[Len(st)]) => Inside(rq, g, f)
  PROVE  LET pop == SubSeq(st, 1, Len(st) - 1) IN
         StackGood(rq, pop) /\ StackGood(rq, Append(pop, f))
<1> DEFINE n == Len(st) - 1
           pop == SubSeq(st, 1, n)
           t == Append(pop, f)
<1>1. st \in Seq(Frame) /\ Len(st) \in Nat /\ Len(st) >= 1 /\ n \in Nat
  BY LenProperties, EmptySeq DEF StackGood
<1>2. pop \in Seq(Frame) /\ Len(pop) = n /\ \A i \in 1..n : pop[i] = st[i]
  BY <1>1, PopProperties
<1>3. \A i \in 1..n : i \in 1..Len(st) /\ i < Len(st)
  BY <1>1
<1>4. \A i \in 1..Len(st) : st[i] \in Frame
  BY <1>1, ElementOfSeq
<1> HIDE DEF pop
<1>5. StackGood(rq, pop)
  BY <1>1, <1>2, <1>3 DEF StackGood
<1>6. /\ t \in Seq(Frame) /\ Len(t) = n + 1 /\ t[n + 1] = f
      /\ \A i \in 1..n : t[i] = st[i]
  BY <1>1, <1>2, AppendProperties
<1> HIDE DEF t
<1>7. \A i \in 1..n : Inside(rq, t[i], f)
  <2> SUFFICES ASSUME NEW i \in 1..n PROVE Inside(rq, t[i], f)
    OBVIOUS
  <2>1. Inside(rq, st[i], st[Len(st)]) /\ st[i] \in Frame
    BY <1>1, <1>3, <1>4 DEF StackGood
  <2> QED
    BY <1>6, <2>1
<1>8. \A i \in 1..Len(t) : FrameOk(rq, t[i])
  <2>1. \A i \in 1..Len(t) : i \in 1..n \/ i = n + 1
    BY <1>1, <1>6
  <2> QED
    BY <1>3, <1>6, <2>1 DEF StackGood
<1>9. ASSUME NEW i \in 1..Len(t), NEW j \in 1..Len(t), i < j
      PROVE  Inside(rq, t[i], t[j])
  <2>1. i \in 1..n /\ (j \in 1..n \/ j = n + 1)
    BY <1>1, <1>6, <1>9
  <2> QED
    BY <1>3, <1>6, <1>7, <1>9, <2>1 DEF StackGood
<1>10. StackGood(rq, t)
  BY <1>6, <1>8, <1>9 DEF StackGood
<1> QED
  BY <1>5, <1>10 DEF t, pop

-----------------------------------------------------------------------------
(* The invariant that holds whatever consumers call. *)

StackOk == StackGood(requests, stack)

DeliveredOk == delivered \in [RequestIds -> Seq(Seq(RequestIds))]

CoordInv == SubInv /\ FeeInv /\ RequestsOk /\ StackOk /\ DeliveredOk

(* The accounts, left alone. *)
LEMMA SubSame == SubInv /\ UNCHANGED subVars => SubInv'
BY DEF subVars, SubInv, SubTypeOK, ReservedWithinBalance, ActiveIdsExact,
       ConsumerListExact, ClosedIsEmpty, UnissuedIsFresh, Alive

(* The fees, left alone. *)
LEMMA FeeSame == FeeInv /\ UNCHANGED <<feeVars, block>> => FeeInv'
BY DEF FeeInv, FeeTypeOK, FeesWithinCaps, WithinCaps, feeVars

(* The requests, left alone. *)
LEMMA RequestsSame == RequestsOk /\ UNCHANGED reqVars => RequestsOk' /\ AllFinal
BY DEF RequestsOk, reqVars, Exists, AllFinal, Final

(* Nothing is delivered, or one more. *)
LEMMA DeliveredMore ==
  ASSUME DeliveredOk, NEW r \in RequestIds, NEW w \in Seq(RequestIds),
         delivered' = [delivered EXCEPT ![r] = Append(@, w)]
  PROVE  DeliveredOk'
<1>1. Append(delivered[r], w) \in Seq(Seq(RequestIds))
  BY AppendProperties DEF DeliveredOk
<1> QED
  BY <1>1 DEF DeliveredOk

(* What the stack allowed before a step that keeps the requests it allows   *)
(* after it. *)
LEMMA StackAfter ==
  ASSUME AllFinal, StackGood(requests, stack')
  PROVE  StackOk'
<1>1. \A r \in RequestIds : MadeIn(requests, r) =>
         MadeIn(requests', r) /\ LimitIn(requests', r) = LimitIn(requests, r)
  BY DEF AllFinal, Final, Exists, MadeIn, LimitIn
<1>2. StackGood(requests', stack')
  BY <1>1, GoodKept
<1> QED
  BY <1>2 DEF StackOk

(* NoRequest is no request. *)
LEMMA NoRequestId == NoRequest \notin RequestIds
BY CoordinatorAssumption DEF RequestIds

(* The frame on top. *)
LEMMA TopFrame ==
  ASSUME StackOk, stack # <<>>
  PROVE  /\ Top \in Frame /\ FrameOk(requests, Top)
         /\ Len(stack) \in Nat /\ Len(stack) \in 1..Len(stack)
         /\ Top.req # NoRequest => Top.req \in RequestIds /\ Exists(Top.req)
<1>1. stack \in Seq(Frame) /\ Len(stack) \in Nat /\ Len(stack) >= 1
  BY LenProperties, EmptySeq DEF StackOk, StackGood
<1>2. Top \in Frame
  BY <1>1, ElementOfSeq DEF Top
<1>3. FrameOk(requests, Top)
  BY <1>1 DEF Top, StackOk, StackGood
<1>4. Top.req # NoRequest => Top.req \in RequestIds /\ Exists(Top.req)
  <2> DEFINE f == Top
  <2>1. f \in Frame /\ FrameOk(requests, f)
    BY <1>2, <1>3
  <2> HIDE DEF f
  <2>2. f.req # NoRequest => f.req \in RequestIds /\ Exists(f.req)
    BY <2>1, FrameIds DEF FrameOk, MadeIn, Exists
  <2> QED
    BY <2>2 DEF f
<1> QED
  BY <1>1, <1>2, <1>3, <1>4

(* A delivery that is entered has a smaller budget than the one around it. *)
LEMMA CallbackOk ==
  ASSUME CoordInv, NEW op, Enter(op), NEW r \in RequestIds, Exists(r),
         GasAllows(GasNeeded(r)), NEW payee \in Addresses, _callback(r, payee)
  PROVE  StackGood(requests, stack')
<1> DEFINE f == [req |-> r, rest |-> <<>>, randomness |-> <<r>>, payee |-> payee]
<1>0. RequestsOk /\ StackOk
  BY DEF CoordInv
<1>1. f \in Frame
  <2>1. <<>> \in Seq(RequestIds) /\ <<r>> \in Seq(RequestIds)
    BY EmptySeq
  <2> QED
    BY <2>1 DEF Frame
<1>2. FrameOk(requests, f)
  BY EmptySeq DEF FrameOk, MadeIn, Exists
<1>3. stack # <<>> => stack[Len(stack)].req # NoRequest /\ Inside(requests, stack[Len(stack)], f)
  <2> SUFFICES ASSUME stack # <<>> PROVE Top.req # NoRequest /\ Inside(requests, Top, f)
    BY DEF Top
  <2>1. Top.req # NoRequest /\ Top.req \in RequestIds
    BY <1>0, TopFrame DEF Enter
  <2>2. Limit(r) < GasNeeded(r) /\ Limit(r) \in Nat /\ GasNeeded(r) \in Nat
        /\ Limit(Top.req) \in Nat
    BY <1>0, <2>1, NeedsMore
  <2>3. GasNeeded(r) <= Limit(Top.req)
    BY DEF GasAllows, Limit
  <2>4. Limit(r) < Limit(Top.req)
    BY <2>2, <2>3
  <2> QED
    BY <2>1, <2>4 DEF Inside, Limit, LimitIn
<1>4. StackGood(requests, Append(stack, f))
  <2> HIDE DEF f
  <2> QED
    BY <1>0, <1>1, <1>2, <1>3, GoodPush DEF StackOk, RequestsOk
<1> QED
  BY <1>0, <1>4 DEF _callback, StackOk

(* So has every member of a batch that is entered. *)
LEMMA BatchOk ==
  ASSUME CoordInv, NEW caller \in Publishers, NEW ids \in Batches, fulfillBatch(caller, ids)
  PROVE  StackGood(requests, stack')
<1> DEFINE f == [req |-> NoRequest, rest |-> ids, randomness |-> ids, payee |-> caller]
<1>0. RequestsOk /\ StackOk
  BY DEF CoordInv
<1>1. ids \in Seq(RequestIds)
  BY DEF Batches
<1>2. f \in Frame
  BY <1>1, CoordinatorAssumption DEF Frame
<1>3. FrameOk(requests, f)
  BY DEF FrameOk, MadeIn, fulfillBatch, Open, Exists
<1>4. stack # <<>> => stack[Len(stack)].req # NoRequest /\ Inside(requests, stack[Len(stack)], f)
  <2> SUFFICES ASSUME stack # <<>> PROVE Top.req # NoRequest /\ Inside(requests, Top, f)
    BY DEF Top
  <2>1. Top.req # NoRequest /\ Top.req \in RequestIds
    BY <1>0, TopFrame DEF Enter, fulfillBatch
  <2>2. BatchGasNeeded(ids) \in Nat /\ BatchGasNeeded(ids) <= Limit(Top.req)
        /\ Limit(Top.req) \in Nat
    BY <1>0, <1>1, <2>1, BatchNeedsEach, NeedsMore DEF fulfillBatch, GasAllows, Limit
  <2>3. ASSUME NEW j \in 1..Len(ids) PROVE Limit(ids[j]) < Limit(Top.req)
    <3>1. ids[j] \in RequestIds
      BY <1>1, ElementOfSeq
    <3>2. GasNeeded(ids[j]) <= BatchGasNeeded(ids)
      BY <1>0, <1>1, BatchNeedsEach
    <3>3. Limit(ids[j]) < GasNeeded(ids[j]) /\ Limit(ids[j]) \in Nat /\ GasNeeded(ids[j]) \in Nat
      BY <1>0, <3>1, NeedsMore
    <3> QED
      BY <2>2, <3>2, <3>3
  <2> QED
    BY <2>1, <2>3 DEF Inside, Limit, LimitIn
<1>5. StackGood(requests, Append(stack, f))
  <2> HIDE DEF f
  <2> QED
    BY <1>0, <1>2, <1>3, <1>4, GoodPush DEF StackOk, RequestsOk
<1> QED
  BY <1>5 DEF fulfillBatch

(* A frame that goes on, with less to do than before. *)
LEMMA ProceedOk ==
  ASSUME StackOk, stack # <<>>, NEW f \in Frame, FrameOk(requests, f), Proceed(f),
         \A g \in Frame : Inside(requests, g, Top) => Inside(requests, g, f)
  PROVE  StackGood(requests, stack')
<1>1. StackGood(requests, Pop) /\ StackGood(requests, Append(Pop, f))
  BY GoodProceed DEF StackOk, Top, Pop
<1> QED
  BY <1>1 DEF Proceed

-----------------------------------------------------------------------------
(* Every step keeps CoordInv, and every request that was made as it was.    *)

(* What a request was quoted, and who pays. *)
LEMMA QuoteType ==
  ASSUME RequestsOk, NEW r \in RequestIds, Exists(r)
  PROVE  requests[r].subId \in SubIds /\ requests[r].paid \in Amount /\ requests[r].paid \in Nat
BY SubscriptionAssumption DEF RequestsOk, Request, Amount

(* A delivery leaves the requests to be marked. *)
LEMMA FulfillKeeps ==
  ASSUME CoordInv, NEW caller \in Publishers, NEW r \in RequestIds,
         fulfillRandomWords(caller, r)
  PROVE  CoordInv' /\ AllFinal
<1>1. Exists(r) /\ caller \in Addresses /\ RequestsOk /\ SubInv /\ FeeInv /\ DeliveredOk
  BY CoordinatorAssumption DEF fulfillRandomWords, Open, CoordInv
<1>2. RequestsOk' /\ AllFinal
  BY <1>1, MarkOk DEF fulfillRandomWords
<1>3. StackGood(requests, stack')
  BY <1>1, CallbackOk DEF fulfillRandomWords
<1>4. StackOk'
  BY <1>2, <1>3, StackAfter
<1>5. SubInv'
  BY <1>1, QuoteType, CoordinatorApiInv DEF fulfillRandomWords
<1>6. FeeInv' /\ DeliveredOk'
  BY <1>1, FeeSame DEF fulfillRandomWords, DeliveredOk
<1> QED
  BY <1>2, <1>4, <1>5, <1>6 DEF CoordInv

(* A new request. *)
LEMMA RequestKeeps ==
  ASSUME CoordInv, NEW caller \in Addresses, NEW id \in SubIds,
         NEW n \in WordCounts, NEW g \in GasLimits, requestRandomWords(caller, id, n, g)
  PROVE  CoordInv' /\ AllFinal
<1>1. RequestsOk /\ SubInv /\ FeeInv /\ DeliveredOk /\ StackOk
  BY DEF CoordInv
<1>2. RequestsOk' /\ AllFinal
  BY <1>1, NewRequestOk
<1>3. price(n, g) \in Nat
  BY <1>1, PriceType, CoordinatorAssumption
<1>4. StackOk'
  <2>1. StackGood(requests, stack')
    BY <1>1 DEF StackOk, requestRandomWords
  <2> QED
    BY <1>2, <2>1, StackAfter
<1>5. SubInv'
  BY <1>1, <1>3, CoordinatorApiInv DEF requestRandomWords
<1>6. FeeInv' /\ DeliveredOk'
  BY <1>1, FeeSame DEF requestRandomWords, DeliveredOk
<1> QED
  BY <1>2, <1>4, <1>5, <1>6 DEF CoordInv

(* A batch that starts. *)
LEMMA BatchKeeps ==
  ASSUME CoordInv, NEW caller \in Publishers, NEW ids \in Batches, fulfillBatch(caller, ids)
  PROVE  CoordInv' /\ AllFinal
<1>1. RequestsOk /\ SubInv /\ FeeInv /\ DeliveredOk
  BY DEF CoordInv
<1>2. RequestsOk' /\ AllFinal
  BY <1>1, RequestsSame DEF fulfillBatch
<1>3. StackOk'
  BY <1>2, BatchOk, StackAfter
<1>4. SubInv' /\ FeeInv' /\ DeliveredOk'
  BY <1>1, SubSame, FeeSame DEF fulfillBatch, DeliveredOk
<1> QED
  BY <1>2, <1>3, <1>4 DEF CoordInv

(* A retry. *)
LEMMA RetryKeeps ==
  ASSUME CoordInv, NEW caller \in Publishers, NEW r \in RequestIds, retryCallback(caller, r)
  PROVE  CoordInv' /\ AllFinal
<1>1. RequestsOk /\ SubInv /\ FeeInv /\ DeliveredOk /\ caller \in Addresses
  BY CoordinatorAssumption DEF CoordInv
<1>2. RequestsOk' /\ AllFinal
  BY <1>1, RequestsSame DEF retryCallback
<1>3. StackGood(requests, stack')
  BY <1>1, CallbackOk DEF retryCallback
<1>4. StackOk'
  BY <1>2, <1>3, StackAfter
<1>5. SubInv' /\ FeeInv' /\ DeliveredOk'
  BY <1>1, SubSame, FeeSame DEF retryCallback, DeliveredOk
<1> QED
  BY <1>2, <1>4, <1>5 DEF CoordInv

(* A refund. *)
LEMMA RefundKeeps ==
  ASSUME CoordInv, NEW r \in RequestIds, refund(r)
  PROVE  CoordInv' /\ AllFinal
<1>1. Exists(r) /\ RequestsOk /\ SubInv /\ FeeInv /\ DeliveredOk /\ StackOk
  BY DEF refund, Open, CoordInv
<1>2. RequestsOk' /\ AllFinal
  BY <1>1, MarkOk DEF refund
<1>3. StackOk'
  <2>1. StackGood(requests, stack')
    BY <1>1 DEF StackOk, refund
  <2> QED
    BY <1>2, <2>1, StackAfter
<1>4. SubInv'
  BY <1>1, QuoteType, CoordinatorApiInv DEF refund
<1>5. FeeInv' /\ DeliveredOk'
  BY <1>1, FeeSame DEF refund, DeliveredOk
<1> QED
  BY <1>2, <1>3, <1>4, <1>5 DEF CoordInv

(* The next member of a batch, and the frame that is left. *)
LEMMA NextMember ==
  ASSUME StackOk, stack # <<>>, Top.rest # <<>>
  PROVE  LET r == Head(Top.rest)
             next == [Top EXCEPT !.rest = Tail(@)]
         IN /\ r \in RequestIds /\ Exists(r) /\ r = Top.rest[1]
            /\ next = [req |-> Top.req, rest |-> Tail(Top.rest),
                       randomness |-> Top.randomness, payee |-> Top.payee]
            /\ next \in Frame /\ [next EXCEPT !.req = r] \in Frame
            /\ [next EXCEPT !.req = r] =
                 [req |-> r, rest |-> Tail(Top.rest),
                  randomness |-> Top.randomness, payee |-> Top.payee]
            /\ Len(Top.rest) \in Nat /\ Len(Top.rest) >= 1
            /\ Len(Tail(Top.rest)) = Len(Top.rest) - 1
            /\ \A j \in 1..(Len(Top.rest) - 1) : Tail(Top.rest)[j] = Top.rest[j + 1]
<1> DEFINE f == Top
           r == Head(f.rest)
           t == Tail(f.rest)
           next == [f EXCEPT !.rest = t]
           new == [req |-> r, rest |-> t, randomness |-> f.randomness, payee |-> f.payee]
<1>1. f \in Frame /\ FrameOk(requests, f) /\ f.rest # <<>>
  BY TopFrame
<1> HIDE DEF f
<1>2. f.rest \in Seq(RequestIds)
  BY <1>1, FrameIds
<1>3. Len(f.rest) \in Nat /\ Len(f.rest) >= 1
  BY <1>1, <1>2, LenProperties, EmptySeq
<1>4. r = f.rest[1] /\ r \in RequestIds
  BY <1>1, <1>2, <1>3, HeadTailProperties
<1>5. /\ t \in Seq(RequestIds) /\ Len(t) = Len(f.rest) - 1
      /\ \A j \in 1..(Len(f.rest) - 1) : t[j] = f.rest[j + 1]
  BY <1>1, <1>2, <1>3, HeadTailProperties
<1>6. Exists(r)
  BY <1>1, <1>3, <1>4 DEF FrameOk, MadeIn, Exists
<1> HIDE DEF r, t
<1>7. next \in Frame /\ next = [req |-> f.req, rest |-> t, randomness |-> f.randomness,
                               payee |-> f.payee]
  BY <1>1, <1>5 DEF Frame
<1>8. new \in Frame
  BY <1>1, <1>4, <1>5 DEF Frame
<1>9. [next EXCEPT !.req = r] = new
  <2> HIDE DEF next
  <2> QED
    BY <1>7
<1> QED
  BY <1>3, <1>4, <1>5, <1>6, <1>7, <1>8, <1>9 DEF f, r, t

(* A member of a batch is settled. *)
LEMMA SettleKeeps ==
  ASSUME CoordInv, _settle
  PROVE  CoordInv' /\ AllFinal
<1> DEFINE r == Head(Top.rest)
           next == [Top EXCEPT !.rest = Tail(@)]
           new == [next EXCEPT !.req = r]
<1>1. /\ RequestsOk /\ SubInv /\ FeeInv /\ DeliveredOk /\ StackOk
      /\ stack # <<>> /\ Top.req = NoRequest /\ Top.rest # <<>>
  BY DEF CoordInv, _settle
<1>2. /\ requests' = [requests EXCEPT ![r].fulfilled = TRUE]
      /\ settle(requests[r].subId, requests[r].paid, Top.payee)
      /\ Proceed(new) \/ Proceed(next)
      /\ UNCHANGED <<nonces, delivered, feeVars, block>>
  BY DEF _settle
<1>3. r \in RequestIds /\ Exists(r)
  BY <1>1, NextMember
<1>4. Top.payee \in Addresses /\ Top \in Frame /\ FrameOk(requests, Top)
  BY <1>1, TopFrame DEF Frame
<1>5. RequestsOk' /\ AllFinal
  <2> HIDE DEF r
  <2> QED
    BY <1>1, <1>2, <1>3, MarkOk
<1>6. SubInv'
  <2> HIDE DEF r
  <2> QED
    BY <1>1, <1>2, <1>3, <1>4, QuoteType, CoordinatorApiInv
<1>7. /\ next \in Frame /\ new \in Frame
      /\ next.req = NoRequest /\ new.req = r
      /\ next.rest = Tail(Top.rest) /\ new.rest = Tail(Top.rest)
      /\ Len(Tail(Top.rest)) = Len(Top.rest) - 1 /\ Len(Top.rest) \in Nat
      /\ Len(Top.rest) >= 1 /\ r = Top.rest[1]
      /\ \A j \in 1..(Len(Top.rest) - 1) : Tail(Top.rest)[j] = Top.rest[j + 1]
  BY <1>1, NextMember
<1>8. \A j \in 1..(Len(Top.rest) - 1) : j + 1 \in 1..Len(Top.rest)
  BY <1>7
<1> HIDE DEF r, next, new
<1>9. ASSUME NEW f \in Frame, f = next \/ f = new
      PROVE  /\ FrameOk(requests, f)
             /\ \A g \in Frame : Inside(requests, g, Top) => Inside(requests, g, f)
  <2>1. /\ f.req = NoRequest \/ f.req = r
        /\ Len(f.rest) = Len(Top.rest) - 1
        /\ \A j \in 1..Len(f.rest) : j + 1 \in 1..Len(Top.rest) /\ f.rest[j] = Top.rest[j + 1]
    BY <1>7, <1>8, <1>9
  <2>2. 1 \in 1..Len(Top.rest)
    BY <1>7
  <2>3. FrameOk(requests, f)
    BY <1>3, <1>4, <2>1 DEF FrameOk, MadeIn, Exists
  <2>4. ASSUME NEW g \in Frame, Inside(requests, g, Top) PROVE Inside(requests, g, f)
    BY <1>7, <2>1, <2>2, <2>4 DEF Inside
  <2> QED
    BY <2>3, <2>4
<1>10. StackGood(requests, stack')
  BY <1>1, <1>2, <1>7, <1>9, ProceedOk
<1>11. StackOk'
  BY <1>5, <1>10, StackAfter
<1>12. FeeInv' /\ DeliveredOk'
  BY <1>1, <1>2, FeeSame DEF DeliveredOk
<1> QED
  BY <1>5, <1>6, <1>11, <1>12 DEF CoordInv

(* A consumer returns. *)
LEMMA ReturnKeeps ==
  ASSUME CoordInv, CallbackReturns
  PROVE  CoordInv' /\ AllFinal
<1> DEFINE r == Top.req
           next == [Top EXCEPT !.req = NoRequest]
<1>1. /\ RequestsOk /\ SubInv /\ FeeInv /\ DeliveredOk /\ StackOk
      /\ stack # <<>> /\ r # NoRequest
  BY DEF CoordInv, CallbackReturns
<1>2. /\ requests' = [requests EXCEPT ![r].callbackSucceeded = TRUE]
      /\ delivered' = [delivered EXCEPT ![r] = Append(@, Top.randomness)]
      /\ Proceed(next)
      /\ UNCHANGED <<nonces, subVars, feeVars, block>>
  BY DEF CallbackReturns
<1>3. Top \in Frame /\ FrameOk(requests, Top) /\ r \in RequestIds /\ Exists(r)
  BY <1>1, TopFrame
<1>4. /\ next \in Frame /\ next.req = NoRequest /\ next.rest = Top.rest
      /\ Top.randomness \in Seq(RequestIds)
  BY <1>3 DEF Frame
<1> HIDE DEF r, next
<1>5. RequestsOk' /\ AllFinal
  BY <1>1, <1>2, <1>3, MarkOk
<1>6. FrameOk(requests, next) /\
      \A g \in Frame : Inside(requests, g, Top) => Inside(requests, g, next)
  BY <1>3, <1>4 DEF FrameOk, Inside
<1>7. StackGood(requests, stack')
  BY <1>1, <1>2, <1>4, <1>6, ProceedOk
<1>8. StackOk'
  BY <1>5, <1>7, StackAfter
<1>9. DeliveredOk'
  BY <1>1, <1>2, <1>3, <1>4, DeliveredMore
<1>10. FeeInv' /\ SubInv'
  BY <1>1, <1>2, FeeSame, SubSame
<1> QED
  BY <1>5, <1>8, <1>9, <1>10 DEF CoordInv

(* Calls to the accounts or the fees, and the passing of time. *)
LEMMA OtherKeeps ==
  ASSUME CoordInv,
         \/ \E caller \in Addresses : AccountCall(caller)
         \/ \E caller \in Addresses : AdminCall(caller)
         \/ Tick
         \/ UNCHANGED vars
  PROVE  CoordInv' /\ AllFinal
<1>1. RequestsOk /\ SubInv /\ FeeInv /\ DeliveredOk /\ StackOk
  BY DEF CoordInv
<1>2. UNCHANGED <<reqVars, stack, delivered>>
  BY DEF AccountCall, AdminCall, Tick, vars
<1>3. RequestsOk' /\ AllFinal
  BY <1>1, <1>2, RequestsSame
<1>4. StackOk' /\ DeliveredOk'
  BY <1>1, <1>2 DEF StackOk, DeliveredOk, reqVars
<1>5. SubInv'
  <2>1. CASE \E caller \in Addresses : AccountCall(caller)
    BY <1>1, <2>1, OwnerApiInv DEF AccountCall
  <2>2. CASE UNCHANGED subVars
    BY <1>1, <2>2, SubSame
  <2> QED
    BY <2>1, <2>2 DEF AdminCall, Tick, vars
<1>6. FeeInv'
  <2>1. CASE \E caller \in Addresses : AdminCall(caller)
    BY <1>1, <2>1, FeeStepInv DEF AdminCall
  <2>2. CASE Tick
    BY <1>1, <2>2, MineInv DEF Tick
  <2>3. CASE UNCHANGED <<feeVars, block>>
    BY <1>1, <2>3, FeeSame
  <2> QED
    BY <2>1, <2>2, <2>3 DEF AccountCall, vars
<1> QED
  BY <1>3, <1>4, <1>5, <1>6 DEF CoordInv

(* The constructors. *)
LEMMA CoordInitInv == CoordInit => CoordInv
<1> SUFFICES ASSUME CoordInit PROVE CoordInv
  OBVIOUS
<1> USE CoordinatorAssumption, AddressAssumption, SubscriptionAssumption
<1>1. SubInv /\ FeeInv
  BY SubInitInv, FeeInitInv DEF CoordInit
<1>2. RequestsOk
  <2>1. EmptyRequest \in Request
    BY DEF EmptyRequest, Request, MaybeAddress
  <2>2. \A r \in RequestIds : requests[r] = EmptyRequest /\ ~Exists(r)
    BY DEF CoordInit, Exists, EmptyRequest
  <2>3. \A a \in Addresses, n \in Nonces : IdOf[<<a, n>>] \in RequestIds
    BY DEF RequestIds
  <2>4. requests \in [RequestIds -> Request] /\ nonces \in [Addresses -> 0..MaxNonce]
    BY <2>1 DEF CoordInit
  <2> QED
    BY <2>2, <2>3, <2>4 DEF RequestsOk
<1>3. StackOk /\ DeliveredOk
  BY EmptySeq DEF CoordInit, StackOk, StackGood, DeliveredOk
<1> QED
  BY <1>1, <1>2, <1>3 DEF CoordInv

(* Every step. *)
LEMMA CoordStep == CoordInv /\ [CoordNext]_vars => CoordInv' /\ AllFinal
<1> SUFFICES ASSUME CoordInv, [CoordNext]_vars PROVE CoordInv' /\ AllFinal
  OBVIOUS
<1> QED
  BY RequestKeeps, FulfillKeeps, BatchKeeps, SettleKeeps, ReturnKeeps, RetryKeeps,
     RefundKeeps, OtherKeeps DEF CoordNext

(* The coordinator's invariant, whatever consumers call. *)
THEOREM CoordInvariant == CoordSpec => []CoordInv
BY CoordInitInv, CoordStep, PTL DEF CoordSpec

(* No request, no frame of the call stack and no delivery is ever of        *)
(* another shape, however deep the consumers re-enter. *)
THEOREM TypesTheorem == CoordSpec => []TypeOK
<1>1. CoordInv => TypeOK
  BY DEF CoordInv, SubInv, FeeInv, RequestsOk, StackOk, StackGood, DeliveredOk, TypeOK
<1> QED
  BY <1>1, CoordInvariant, PTL

(* A delivery nested in another always runs on a smaller budget, so no      *)
(* request is delivered inside itself: 64/63 and POST_CALLBACK_GAS leave no *)
(* room, at any limits. *)
THEOREM BudgetsTheorem == CoordSpec => []BudgetsShrink
<1>1. CoordInv => BudgetsShrink
  BY DEF CoordInv, StackOk, StackGood, Inside, LimitIn, BudgetsShrink
<1> QED
  BY <1>1, CoordInvariant, PTL

(* Once made, a request keeps its consumer, account, quote and gas, and what *)
(* closed it: no id is given out twice, and no change of fees reaches back. *)
THEOREM QuoteTheorem == CoordSpec => QuoteIsFinal
<1>1. CoordInv /\ [CoordNext]_vars =>
        [\A r \in RequestIds : Exists(r) =>
           LET old == requests[r] new == requests'[r] IN
           /\ new.consumer = old.consumer /\ new.subId = old.subId
           /\ new.paid = old.paid /\ new.callbackGasLimit = old.callbackGasLimit
           /\ new.numWords = old.numWords /\ new.createdAtBlock = old.createdAtBlock
           /\ old.fulfilled => new.fulfilled
           /\ old.refunded => new.refunded
           /\ old.callbackSucceeded => new.callbackSucceeded]_vars
  BY CoordStep DEF AllFinal, Final
<1> QED
  BY <1>1, CoordInvariant, PTL DEF CoordSpec, QuoteIsFinal

-----------------------------------------------------------------------------
(* The coin, with the coordinator's calls. *)

(* Requests, deliveries in any order, retries and refunds neither create    *)
(* nor strand coin either. *)
THEOREM CoordSolvent == CoordSpec => []Solvent
<1>1. CoordInv /\ Solvent /\ [CoordNext]_vars => Solvent'
  <2> SUFFICES ASSUME CoordInv, Solvent, [CoordNext]_vars PROVE Solvent'
    OBVIOUS
  <2>1. SubInv /\ RequestsOk /\ FeeInv /\ StackOk /\ Publishers \subseteq Addresses
    BY CoordinatorAssumption DEF CoordInv
  <2>2. ASSUME UNCHANGED subVars PROVE Solvent'
    BY <2>2, NothingMoves DEF subVars, Balances
  <2>3. ASSUME NEW caller \in Addresses, NEW id \in SubIds, NEW n \in WordCounts,
               NEW g \in GasLimits, requestRandomWords(caller, id, n, g)
        PROVE  Solvent'
    <3>1. price(n, g) \in Nat
      BY <2>1, PriceType, CoordinatorAssumption
    <3> QED
      BY <2>1, <2>3, <3>1, CoordinatorSolvent DEF requestRandomWords
  <2>4. ASSUME NEW caller \in Publishers, NEW r \in RequestIds, fulfillRandomWords(caller, r)
        PROVE  Solvent'
    BY <2>1, <2>4, QuoteType, CoordinatorSolvent DEF fulfillRandomWords, Open
  <2>5. ASSUME NEW r \in RequestIds, refund(r) PROVE Solvent'
    BY <2>1, <2>5, QuoteType, CoordinatorSolvent DEF refund, Open
  <2>6. CASE _settle
    <3> DEFINE r == Head(Top.rest)
    <3>1. stack # <<>> /\ Top.rest # <<>> /\ settle(requests[r].subId, requests[r].paid, Top.payee)
      BY <2>6 DEF _settle
    <3>2. r \in RequestIds /\ Exists(r) /\ Top.payee \in Addresses
      BY <2>1, <3>1, NextMember, TopFrame DEF Frame
    <3> HIDE DEF r
    <3> QED
      BY <2>1, <3>1, <3>2, QuoteType, CoordinatorSolvent
  <2>7. ASSUME NEW caller \in Addresses, AccountCall(caller) PROVE Solvent'
    BY <2>1, <2>7, OwnerSolvent DEF AccountCall
  <2> QED
    BY <2>2, <2>3, <2>4, <2>5, <2>6, <2>7
    DEF CoordNext, fulfillBatch, CallbackReturns, retryCallback, AdminCall, Tick, vars
<1> QED
  BY <1>1, SolventInit, CoordInvariant, PTL DEF CoordSpec, CoordInit

-----------------------------------------------------------------------------
(* The books of the open requests. *)

(* A request is closed one way, and its words are recorded with it. *)
OneWay(r) ==
  /\ ~(requests[r].fulfilled /\ requests[r].refunded)
  /\ requests[r].callbackSucceeded => requests[r].fulfilled
  /\ Len(delivered[r]) = IF requests[r].callbackSucceeded THEN 1 ELSE 0

(* What is being delivered is paid for and not delivered yet. *)
Undelivered(rq, f) ==
  f.req # NoRequest => rq[f.req].fulfilled /\ ~rq[f.req].callbackSucceeded

AllUndelivered(rq, st) == \A i \in 1..Len(st) : Undelivered(rq, st[i])

InProgress == AllUndelivered(requests, stack)

Books ==
  /\ \A r \in RequestIds : OneWay(r)
  /\ InProgress
  /\ ReservedBacksOpen
  /\ PendingCountsOpen

(* There are finitely many requests, hence open ones. *)
LEMMA FiniteRequests ==
  /\ IsFiniteSet(RequestIds)
  /\ \A id \in SubIds : IsFiniteSet(OpenOf(id)) /\ Cardinality(OpenOf(id)) \in Nat
<1>1. IsFiniteSet(Nonces)
  <2> DEFINE m == MaxNonce - 1
  <2>1. 0 \in Int /\ m \in Int
    BY CoordinatorAssumption
  <2> HIDE DEF m
  <2>2. IsFiniteSet(0..m)
    BY <2>1, FS_Interval
  <2> QED
    BY <2>2 DEF Nonces, m
<1>2. IsFiniteSet(Addresses \X Nonces)
  BY <1>1, FS_Product, AddressAssumption
<1>3. IsFiniteSet(RequestIds)
  <2> DEFINE D == Addresses \X Nonces
  <2>1. IdOf \in [D -> RequestIds] /\ \A r \in RequestIds : \E x \in D : IdOf[x] = r
    BY CoordinatorAssumption DEF RequestIds
  <2>2. IdOf \in Surjection(D, RequestIds)
    BY <2>1 DEF Surjection
  <2> HIDE DEF D
  <2> QED
    BY <1>2, <2>2, FS_Surjection DEF D
<1>4. ASSUME NEW id \in SubIds
      PROVE  IsFiniteSet(OpenOf(id)) /\ Cardinality(OpenOf(id)) \in Nat
  <2>1. OpenOf(id) \subseteq RequestIds
    BY DEF OpenOf
  <2>2. IsFiniteSet(OpenOf(id))
    BY <1>3, <2>1, FS_Subset
  <2> QED
    BY <2>2, FS_CardinalityType
<1> QED
  BY <1>3, <1>4

(* What the open requests of an account were quoted. *)
LEMMA QuotesType ==
  ASSUME RequestsOk, NEW id \in SubIds
  PROVE  OpenQuotes(id) \in [RequestIds -> Amount]
<1>1. \A r \in RequestIds : requests[r].paid \in Amount /\ 0 \in Amount
  BY SubscriptionAssumption DEF RequestsOk, Request, Amount
<1> QED
  BY <1>1 DEF OpenQuotes

(* The accounts' view: one account reserves more, behind one more request. *)
LEMMA BooksAdd ==
  ASSUME RequestsOk, ReservedBacksOpen, PendingCountsOpen,
         NEW id \in SubIds, NEW r \in RequestIds, NEW p \in Amount, ~Open(r),
         requests'[r].subId = id, requests'[r].paid = p, Open(r)',
         \A s \in RequestIds \ {r} : requests'[s] = requests[s],
         accounts'[id].reserved = accounts[id].reserved + p,
         counters'[id].pending = counters[id].pending + 1,
         \A t \in SubIds \ {id} : /\ accounts'[t].reserved = accounts[t].reserved
                                  /\ counters'[t].pending = counters[t].pending
  PROVE  ReservedBacksOpen' /\ PendingCountsOpen'
<1>1. \A s \in RequestIds \ {r} : Open(s)' <=> Open(s)
  BY DEF Open, Exists, Closed
<1>2. OpenOf(id)' = OpenOf(id) \cup {r} /\ r \notin OpenOf(id)
  BY <1>1 DEF OpenOf
<1>3. \A t \in SubIds \ {id} : OpenOf(t)' = OpenOf(t)
  BY <1>1 DEF OpenOf
<1>4. OpenQuotes(id)' = [OpenQuotes(id) EXCEPT ![r] = p] /\ OpenQuotes(id)[r] = 0
  <2>1. \A s \in RequestIds : s \in OpenOf(id)' <=> s \in OpenOf(id) \/ s = r
    BY <1>2
  <2> QED
    BY <1>2, <2>1 DEF OpenQuotes
<1>5. \A t \in SubIds \ {id} : OpenQuotes(t)' = OpenQuotes(t)
  <2> SUFFICES ASSUME NEW t \in SubIds \ {id} PROVE OpenQuotes(t)' = OpenQuotes(t)
    OBVIOUS
  <2>1. OpenOf(t)' = OpenOf(t) /\ r \notin OpenOf(t)
    BY <1>3 DEF OpenOf
  <2> QED
    BY <2>1 DEF OpenQuotes
<1>6. Total(OpenQuotes(id)') = Total(OpenQuotes(id)) + p /\ Total(OpenQuotes(id)) \in Nat
  <2> DEFINE f == OpenQuotes(id)
  <2>1. f \in [RequestIds -> Amount] /\ f[r] = 0 /\ p \in Nat
    BY <1>4, QuotesType, SubscriptionAssumption DEF Amount
  <2> HIDE DEF f
  <2>2. Total(f) \in Nat /\ Total([f EXCEPT ![r] = p]) = Total(f) + (p - f[r])
    BY <2>1, TotalSet, FiniteRequests
  <2>3. Total([f EXCEPT ![r] = p]) = Total(f) + p
    BY <2>1, <2>2
  <2> QED
    BY <1>4, <2>2, <2>3 DEF f
<1>7. ReservedBacksOpen'
  <2> SUFFICES ASSUME NEW t \in SubIds PROVE accounts'[t].reserved = Total(OpenQuotes(t)')
    BY DEF ReservedBacksOpen, Total, Coins
  <2> QED
    BY <1>5, <1>6 DEF ReservedBacksOpen
<1>8. Cardinality(OpenOf(id)') = Cardinality(OpenOf(id)) + 1
  <2> DEFINE old == OpenOf(id)
  <2>1. IsFiniteSet(old) /\ r \notin old /\ OpenOf(id)' = old \cup {r}
    BY <1>2, FiniteRequests
  <2> HIDE DEF old
  <2>2. Cardinality(old \cup {r}) = Cardinality(old) + 1
    BY <2>1, FS_AddElement
  <2> QED
    BY <2>1, <2>2 DEF old
<1>9. PendingCountsOpen'
  BY <1>3, <1>8 DEF PendingCountsOpen
<1> QED
  BY <1>7, <1>9

(* One account reserves less, behind one request less. *)
LEMMA BooksDrop ==
  ASSUME RequestsOk, ReservedBacksOpen, PendingCountsOpen,
         NEW id \in SubIds, NEW r \in RequestIds, NEW p \in Amount, Open(r),
         requests[r].subId = id, requests[r].paid = p, ~Open(r)',
         \A s \in RequestIds \ {r} : requests'[s] = requests[s],
         accounts'[id].reserved = accounts[id].reserved - p,
         counters'[id].pending =
           IF counters[id].pending # 0 THEN counters[id].pending - 1 ELSE counters[id].pending,
         \A t \in SubIds \ {id} : /\ accounts'[t].reserved = accounts[t].reserved
                                  /\ counters'[t].pending = counters[t].pending
  PROVE  ReservedBacksOpen' /\ PendingCountsOpen'
<1>1. \A s \in RequestIds \ {r} : Open(s)' <=> Open(s)
  BY DEF Open, Exists, Closed
<1>2. OpenOf(id)' = OpenOf(id) \ {r} /\ r \in OpenOf(id)
  BY <1>1 DEF OpenOf
<1>3. \A t \in SubIds \ {id} : OpenOf(t)' = OpenOf(t)
  BY <1>1 DEF OpenOf
<1>4. OpenQuotes(id)' = [OpenQuotes(id) EXCEPT ![r] = 0] /\ OpenQuotes(id)[r] = p
  <2>1. \A s \in RequestIds : s \in OpenOf(id)' <=> s \in OpenOf(id) /\ s # r
    BY <1>2
  <2> QED
    BY <1>2, <2>1 DEF OpenQuotes
<1>5. \A t \in SubIds \ {id} : OpenQuotes(t)' = OpenQuotes(t)
  <2> SUFFICES ASSUME NEW t \in SubIds \ {id} PROVE OpenQuotes(t)' = OpenQuotes(t)
    OBVIOUS
  <2>1. OpenOf(t)' = OpenOf(t) /\ r \notin OpenOf(t)
    BY <1>3 DEF OpenOf
  <2> QED
    BY <2>1 DEF OpenQuotes
<1>6. Total(OpenQuotes(id)') = Total(OpenQuotes(id)) - p /\ Total(OpenQuotes(id)) \in Nat
  <2> DEFINE f == OpenQuotes(id)
  <2>1. f \in [RequestIds -> Amount] /\ f[r] = p /\ p \in Nat /\ 0 \in Amount
    BY <1>4, QuotesType, SubscriptionAssumption DEF Amount
  <2> HIDE DEF f
  <2>2. Total(f) \in Nat /\ Total([f EXCEPT ![r] = 0]) = Total(f) + (0 - f[r])
    BY <2>1, TotalSet, FiniteRequests
  <2>3. Total([f EXCEPT ![r] = 0]) = Total(f) - p
    BY <2>1, <2>2
  <2> QED
    BY <1>4, <2>2, <2>3 DEF f
<1>7. ReservedBacksOpen'
  <2> SUFFICES ASSUME NEW t \in SubIds PROVE accounts'[t].reserved = Total(OpenQuotes(t)')
    BY DEF ReservedBacksOpen, Total, Coins
  <2> QED
    BY <1>5, <1>6 DEF ReservedBacksOpen
<1>8. /\ Cardinality(OpenOf(id)') = Cardinality(OpenOf(id)) - 1
      /\ Cardinality(OpenOf(id)) \in Nat /\ Cardinality(OpenOf(id)) # 0
  <2>1. IsFiniteSet(OpenOf(id)) /\ Cardinality(OpenOf(id)) \in Nat
    BY FiniteRequests
  <2>2. Cardinality(OpenOf(id)') = Cardinality(OpenOf(id)) - 1
    BY <1>2, <2>1, FS_RemoveElement
  <2>3. Cardinality(OpenOf(id)) # 0
    BY <1>2, <2>1, FS_EmptySet
  <2> QED
    BY <2>1, <2>2, <2>3
<1>9. PendingCountsOpen'
  BY <1>3, <1>8 DEF PendingCountsOpen
<1> QED
  BY <1>7, <1>9

(* Nothing opens or closes, and no account reserves more or less. *)
LEMMA BooksSame ==
  ASSUME ReservedBacksOpen, PendingCountsOpen,
         \A s \in RequestIds : /\ Open(s)' <=> Open(s)
                               /\ requests'[s].subId = requests[s].subId
                               /\ requests'[s].paid = requests[s].paid,
         \A t \in SubIds : /\ accounts'[t].reserved = accounts[t].reserved
                           /\ counters'[t].pending = counters[t].pending
  PROVE  ReservedBacksOpen' /\ PendingCountsOpen'
<1>1. \A t \in SubIds : OpenOf(t)' = OpenOf(t)
  BY DEF OpenOf
<1>2. \A t \in SubIds : OpenQuotes(t)' = OpenQuotes(t)
  BY <1>1 DEF OpenQuotes
<1> QED
  BY <1>1, <1>2 DEF ReservedBacksOpen, PendingCountsOpen, Total, Coins

(* What the coordinator's calls do to what is reserved and counted. *)
LEMMA ReserveEffect ==
  ASSUME SubTypeOK, NEW id \in SubIds, NEW p \in Nat, reserve(id, p)
  PROVE  /\ accounts'[id].reserved = accounts[id].reserved + p
         /\ counters'[id].pending = counters[id].pending + 1
         /\ \A t \in SubIds \ {id} : /\ accounts'[t].reserved = accounts[t].reserved
                                     /\ counters'[t].pending = counters[t].pending
<1>1. /\ accounts \in [SubIds -> Account] /\ counters \in [SubIds -> Counters]
      /\ accounts[id] \in Account /\ counters[id] \in Counters
  BY DEF SubTypeOK
<1>2. /\ accounts' = [accounts EXCEPT ![id].reserved = @ + p]
      /\ counters' = [counters EXCEPT ![id].total = @ + 1, ![id].pending = @ + 1]
  BY DEF reserve
<1>3. counters'[id].pending = counters[id].pending + 1
  BY <1>1, <1>2 DEF Counters
<1> QED
  BY <1>1, <1>2, <1>3 DEF Account

(* A settlement and a release both give up one reservation. *)
LEMMA DropEffect ==
  ASSUME SubTypeOK, NEW id \in SubIds, NEW p \in Nat,
         release(id, p) \/ \E payee \in Addresses : settle(id, p, payee)
  PROVE  /\ accounts'[id].reserved = accounts[id].reserved - p
         /\ counters'[id].pending =
              IF counters[id].pending # 0 THEN counters[id].pending - 1 ELSE counters[id].pending
         /\ \A t \in SubIds \ {id} : /\ accounts'[t].reserved = accounts[t].reserved
                                     /\ counters'[t].pending = counters[t].pending
<1>1. /\ accounts \in [SubIds -> Account] /\ counters \in [SubIds -> Counters]
      /\ accounts[id] \in Account /\ counters[id] \in Counters
  BY DEF SubTypeOK
<1>2. _closeOne(id)
  BY DEF release, settle
<1>3. /\ counters'[id].pending =
           IF counters[id].pending # 0 THEN counters[id].pending - 1 ELSE counters[id].pending
      /\ \A t \in SubIds \ {id} : counters'[t].pending = counters[t].pending
  BY <1>1, <1>2 DEF _closeOne, Counters
<1>4. /\ accounts'[id].reserved = accounts[id].reserved - p
      /\ \A t \in SubIds \ {id} : accounts'[t].reserved = accounts[t].reserved
  <2>1. CASE release(id, p)
    BY <1>1, <2>1 DEF release, Account
  <2>2. CASE \E payee \in Addresses : settle(id, p, payee)
    BY <1>1, <2>2 DEF settle, Account
  <2> QED
    BY <2>1, <2>2
<1> QED
  BY <1>3, <1>4

(* Nobody else moves a reservation: an account is cancelled only without    *)
(* any. *)
LEMMA OwnerEffect ==
  ASSUME SubTypeOK, NEW caller \in Addresses, OwnerApi(caller)
  PROVE  \A t \in SubIds : /\ accounts'[t].reserved = accounts[t].reserved
                           /\ counters'[t].pending = counters[t].pending
<1>1. accounts \in [SubIds -> Account] /\ counters \in [SubIds -> Counters]
  BY DEF SubTypeOK
<1>2. CASE createSubscription(caller)
  BY <1>1, <1>2 DEF createSubscription, Account
<1>3. CASE withdraw(caller)
  BY <1>3 DEF withdraw
<1>4. ASSUME NEW id \in SubIds, NEW x,
             \/ fundSubscriptionWithNative(id, x)
             \/ withdrawFromSubscription(caller, id, x)
      PROVE  \A t \in SubIds : /\ accounts'[t].reserved = accounts[t].reserved
                               /\ counters'[t].pending = counters[t].pending
  BY <1>1, <1>4 DEF fundSubscriptionWithNative, withdrawFromSubscription, Account
<1>5. ASSUME NEW id \in SubIds, NEW x,
             \/ addConsumer(caller, id, x)
             \/ removeConsumer(caller, id, x)
             \/ requestSubscriptionOwnerTransfer(caller, id, x)
      PROVE  \A t \in SubIds : /\ accounts'[t].reserved = accounts[t].reserved
                               /\ counters'[t].pending = counters[t].pending
  BY <1>5 DEF addConsumer, removeConsumer, requestSubscriptionOwnerTransfer
<1>6. ASSUME NEW id \in SubIds, cancelSubscription(caller, id)
      PROVE  \A t \in SubIds : /\ accounts'[t].reserved = accounts[t].reserved
                               /\ counters'[t].pending = counters[t].pending
  BY <1>1, <1>6 DEF cancelSubscription, NoAccount, NoCounters
<1>7. ASSUME NEW id \in SubIds, acceptSubscriptionOwnerTransfer(caller, id)
      PROVE  \A t \in SubIds : /\ accounts'[t].reserved = accounts[t].reserved
                               /\ counters'[t].pending = counters[t].pending
  BY <1>1, <1>7 DEF acceptSubscriptionOwnerTransfer, Account
<1> QED
  BY <1>2, <1>3, <1>4, <1>5, <1>6, <1>7 DEF OwnerApi

(* What a mark changes. *)
LEMMA MarkEffect ==
  ASSUME RequestsOk, NEW r \in RequestIds, NEW f, NEW u, NEW c,
         f \in BOOLEAN, u \in BOOLEAN, c \in BOOLEAN,
         \/ requests' = [requests EXCEPT ![r].fulfilled = TRUE] /\ f = TRUE
            /\ u = requests[r].refunded /\ c = requests[r].callbackSucceeded
         \/ requests' = [requests EXCEPT ![r].refunded = TRUE] /\ u = TRUE
            /\ f = requests[r].fulfilled /\ c = requests[r].callbackSucceeded
         \/ requests' = [requests EXCEPT ![r].callbackSucceeded = TRUE] /\ c = TRUE
            /\ f = requests[r].fulfilled /\ u = requests[r].refunded
  PROVE  /\ \A s \in RequestIds \ {r} : requests'[s] = requests[s]
         /\ requests'[r].fulfilled = f /\ requests'[r].refunded = u
         /\ requests'[r].callbackSucceeded = c
         /\ requests'[r].consumer = requests[r].consumer
         /\ requests'[r].subId = requests[r].subId /\ requests'[r].paid = requests[r].paid
<1>1. requests \in [RequestIds -> Request] /\ requests[r] \in Request
  BY DEF RequestsOk
<1>2. CASE requests' = [requests EXCEPT ![r].fulfilled = TRUE] /\ f = TRUE
            /\ u = requests[r].refunded /\ c = requests[r].callbackSucceeded
  BY <1>1, <1>2 DEF Request
<1>3. CASE requests' = [requests EXCEPT ![r].refunded = TRUE] /\ u = TRUE
            /\ f = requests[r].fulfilled /\ c = requests[r].callbackSucceeded
  BY <1>1, <1>3 DEF Request
<1>4. CASE requests' = [requests EXCEPT ![r].callbackSucceeded = TRUE] /\ c = TRUE
            /\ f = requests[r].fulfilled /\ u = requests[r].refunded
  BY <1>1, <1>4 DEF Request
<1> QED
  BY <1>2, <1>3, <1>4

(* A new frame is undelivered with the others. *)
LEMMA UndeliveredPush ==
  ASSUME NEW rq, NEW st \in Seq(Frame), AllUndelivered(rq, st), NEW f \in Frame,
         Undelivered(rq, f)
  PROVE  AllUndelivered(rq, Append(st, f))
<1> DEFINE t == Append(st, f)
<1>1. /\ Len(st) \in Nat /\ Len(t) = Len(st) + 1 /\ t[Len(st) + 1] = f
      /\ \A i \in 1..Len(st) : t[i] = st[i]
  BY AppendProperties, LenProperties
<1> HIDE DEF t
<1>2. \A i \in 1..Len(t) : i \in 1..Len(st) \/ i = Len(st) + 1
  BY <1>1
<1>3. AllUndelivered(rq, t)
  BY <1>1, <1>2 DEF AllUndelivered
<1> QED
  BY <1>3 DEF t

(* So are the frames below the top. *)
LEMMA UndeliveredPop ==
  ASSUME NEW rq, NEW st \in Seq(Frame), st # <<>>,
         \A i \in 1..(Len(st) - 1) : Undelivered(rq, st[i])
  PROVE  LET pop == SubSeq(st, 1, Len(st) - 1) IN
         pop \in Seq(Frame) /\ AllUndelivered(rq, pop)
<1> DEFINE n == Len(st) - 1
           pop == SubSeq(st, 1, n)
<1>1. Len(st) \in Nat /\ Len(st) >= 1 /\ n \in Nat
  BY LenProperties, EmptySeq
<1>2. pop \in Seq(Frame) /\ Len(pop) = n /\ \A i \in 1..n : pop[i] = st[i]
  BY <1>1, PopProperties
<1> HIDE DEF pop
<1>3. AllUndelivered(rq, pop)
  BY <1>2 DEF AllUndelivered
<1> QED
  BY <1>2, <1>3 DEF pop

(* Frames are undelivered as long as no request is, and as long as it is    *)
(* fulfilled. *)
LEMMA UndeliveredKept ==
  ASSUME NEW rq, NEW rq2, NEW st \in Seq(Frame), AllUndelivered(rq, st),
         \A r \in RequestIds : rq[r].fulfilled /\ ~rq[r].callbackSucceeded =>
                                 rq2[r].fulfilled /\ ~rq2[r].callbackSucceeded
  PROVE  AllUndelivered(rq2, st)
<1> SUFFICES ASSUME NEW i \in 1..Len(st) PROVE Undelivered(rq2, st[i])
  BY DEF AllUndelivered
<1> DEFINE f == st[i]
<1>1. f \in Frame /\ Undelivered(rq, f)
  BY ElementOfSeq DEF AllUndelivered
<1> HIDE DEF f
<1>2. Undelivered(rq2, f)
  BY <1>1, FrameIds DEF Undelivered
<1> QED
  BY <1>2 DEF f

-----------------------------------------------------------------------------
(* The books, step by step. *)

(* A new request is open, and its quote reserved. *)
LEMMA RequestBooks ==
  ASSUME CoordInv, Books, NEW caller \in Addresses, NEW id \in SubIds,
         NEW n \in WordCounts, NEW g \in GasLimits, requestRandomWords(caller, id, n, g)
  PROVE  Books'
<1>1. RequestsOk /\ SubInv /\ FeeInv /\ StackOk /\ SubTypeOK /\ stack \in Seq(Frame)
  BY DEF CoordInv, SubInv, StackOk, StackGood
<1>2. PICK r \in RequestIds, p \in Amount :
      /\ ~Exists(r) /\ p = price(n, g)
      /\ requests' = [requests EXCEPT ![r] =
              [consumer |-> caller, subId |-> id, numWords |-> n, callbackGasLimit |-> g,
               createdAtBlock |-> block, paid |-> p,
               fulfilled |-> FALSE, refunded |-> FALSE, callbackSucceeded |-> FALSE]]
  <2> DEFINE x == IdOf[<<caller, nonces[caller]>>]
             q == price(n, g)
  <2>1. /\ x \in RequestIds /\ ~Exists(x) /\ q \in Amount
        /\ requests' = [requests EXCEPT ![x] =
              [consumer |-> caller, subId |-> id, numWords |-> n, callbackGasLimit |-> g,
               createdAtBlock |-> block, paid |-> q,
               fulfilled |-> FALSE, refunded |-> FALSE, callbackSucceeded |-> FALSE]]
    BY <1>1, NewRequestOk
  <2>2. q = price(n, g)
    OBVIOUS
  <2> HIDE DEF x, q
  <2> QED
    BY <2>1, <2>2
<1>3. p \in Nat /\ reserve(id, p) /\ UNCHANGED <<stack, delivered>> /\ caller # NoAddr
  BY <1>2, SubscriptionAssumption, AddressAssumption DEF Amount, requestRandomWords
<1>4. requests \in [RequestIds -> Request] /\ requests[r] = EmptyRequest
  BY <1>1, <1>2 DEF RequestsOk
<1>5. /\ \A s \in RequestIds \ {r} : requests'[s] = requests[s]
      /\ requests'[r].consumer = caller /\ requests'[r].subId = id /\ requests'[r].paid = p
      /\ ~requests'[r].fulfilled /\ ~requests'[r].refunded /\ ~requests'[r].callbackSucceeded
  BY <1>2, <1>4
<1>6. ~Open(r) /\ ~requests[r].fulfilled /\ ~requests[r].callbackSucceeded
  BY <1>2, <1>4 DEF Open, EmptyRequest
<1>7. Open(r)'
  BY <1>3, <1>5 DEF Open, Exists, Closed
<1>8. ReservedBacksOpen' /\ PendingCountsOpen'
  <2>1. ReservedBacksOpen /\ PendingCountsOpen
    BY DEF Books
  <2>2. /\ accounts'[id].reserved = accounts[id].reserved + p
        /\ counters'[id].pending = counters[id].pending + 1
        /\ \A t \in SubIds \ {id} : /\ accounts'[t].reserved = accounts[t].reserved
                                    /\ counters'[t].pending = counters[t].pending
    BY <1>1, <1>3, ReserveEffect
  <2> QED
    BY <1>1, <1>5, <1>6, <1>7, <2>1, <2>2, BooksAdd
<1>9. \A s \in RequestIds : OneWay(s)'
  <2> SUFFICES ASSUME NEW s \in RequestIds PROVE OneWay(s)'
    OBVIOUS
  <2>1. OneWay(s)
    BY DEF Books
  <2> QED
    BY <1>3, <1>5, <1>6, <2>1 DEF OneWay
<1>10. InProgress'
  <2>1. AllUndelivered(requests, stack)
    BY DEF Books, InProgress
  <2>2. \A s \in RequestIds : requests[s].fulfilled /\ ~requests[s].callbackSucceeded =>
                              requests'[s].fulfilled /\ ~requests'[s].callbackSucceeded
    BY <1>5, <1>6
  <2>3. AllUndelivered(requests', stack)
    BY <1>1, <2>1, <2>2, UndeliveredKept
  <2> QED
    BY <1>3, <2>3 DEF InProgress
<1> QED
  BY <1>8, <1>9, <1>10 DEF Books

(* An open request is closed, and its reservation given up. *)
LEMMA CloseBooks ==
  ASSUME CoordInv, Books, NEW r \in RequestIds, Open(r), UNCHANGED delivered,
         \/ requests' = [requests EXCEPT ![r].fulfilled = TRUE]
         \/ requests' = [requests EXCEPT ![r].refunded = TRUE],
         \/ release(requests[r].subId, requests[r].paid)
         \/ \E payee \in Addresses : settle(requests[r].subId, requests[r].paid, payee)
  PROVE  /\ \A s \in RequestIds : OneWay(s)'
         /\ ReservedBacksOpen' /\ PendingCountsOpen'
         /\ AllUndelivered(requests', stack)
         /\ requests' = [requests EXCEPT ![r].fulfilled = TRUE] =>
              requests'[r].fulfilled /\ ~requests'[r].callbackSucceeded
<1>1. RequestsOk /\ SubTypeOK /\ stack \in Seq(Frame) /\ Exists(r)
  BY DEF CoordInv, SubInv, StackOk, StackGood, Open
<1>2. PICK id \in SubIds, p \in Amount : id = requests[r].subId /\ p = requests[r].paid /\ p \in Nat
  BY <1>1, QuoteType
<1>3. requests \in [RequestIds -> Request] /\ requests[r] \in Request
  BY <1>1 DEF RequestsOk
<1>4. ~requests[r].fulfilled /\ ~requests[r].refunded /\ ~requests[r].callbackSucceeded
      /\ Len(delivered[r]) = 0
  <2>1. OneWay(r)
    BY DEF Books
  <2> QED
    BY <2>1 DEF OneWay, Open, Closed
<1>5. /\ \A s \in RequestIds \ {r} : requests'[s] = requests[s]
      /\ ~requests'[r].callbackSucceeded
      /\ ~(requests'[r].fulfilled /\ requests'[r].refunded)
      /\ requests'[r].fulfilled \/ requests'[r].refunded
      /\ requests' = [requests EXCEPT ![r].fulfilled = TRUE] => requests'[r].fulfilled
  <2>1. CASE requests' = [requests EXCEPT ![r].fulfilled = TRUE]
    BY <1>3, <1>4, <2>1 DEF Request
  <2>2. CASE requests' = [requests EXCEPT ![r].refunded = TRUE]
    BY <1>3, <1>4, <2>2 DEF Request
  <2> QED
    BY <2>1, <2>2
<1>6. ~Open(r)'
  BY <1>5 DEF Open, Closed
<1>7. ReservedBacksOpen' /\ PendingCountsOpen'
  <2>1. ReservedBacksOpen /\ PendingCountsOpen
    BY DEF Books
  <2>2. /\ accounts'[id].reserved = accounts[id].reserved - p
        /\ counters'[id].pending =
              IF counters[id].pending # 0 THEN counters[id].pending - 1 ELSE counters[id].pending
        /\ \A t \in SubIds \ {id} : /\ accounts'[t].reserved = accounts[t].reserved
                                    /\ counters'[t].pending = counters[t].pending
    <3>1. release(id, p) \/ \E payee \in Addresses : settle(id, p, payee)
      BY <1>2
    <3> QED
      BY <1>1, <1>2, <3>1, DropEffect
  <2> QED
    BY <1>1, <1>2, <1>5, <1>6, <2>1, <2>2, BooksDrop
<1>8. ASSUME NEW s \in RequestIds PROVE OneWay(s)'
  <2>1. OneWay(s)
    BY DEF Books
  <2> QED
    BY <1>4, <1>5, <2>1 DEF OneWay
<1>9. AllUndelivered(requests', stack)
  <2>1. AllUndelivered(requests, stack)
    BY DEF Books, InProgress
  <2>2. \A s \in RequestIds : requests[s].fulfilled /\ ~requests[s].callbackSucceeded =>
                              requests'[s].fulfilled /\ ~requests'[s].callbackSucceeded
    BY <1>4, <1>5
  <2> QED
    BY <1>1, <2>1, <2>2, UndeliveredKept
<1> QED
  BY <1>5, <1>7, <1>8, <1>9

(* A delivery that may or may not be entered. *)
LEMMA CallbackBooks ==
  ASSUME NEW r \in RequestIds, NEW payee \in Addresses, _callback(r, payee),
         stack \in Seq(Frame), AllUndelivered(requests', stack),
         requests'[r].fulfilled /\ ~requests'[r].callbackSucceeded
  PROVE  InProgress'
<1> DEFINE f == [req |-> r, rest |-> <<>>, randomness |-> <<r>>, payee |-> payee]
<1>1. f \in Frame
  <2>1. <<>> \in Seq(RequestIds) /\ <<r>> \in Seq(RequestIds)
    BY EmptySeq
  <2> QED
    BY <2>1 DEF Frame
<1>2. Undelivered(requests', f)
  BY DEF Undelivered
<1>3. stack' = Append(stack, f) \/ stack' = stack
  BY DEF _callback
<1> HIDE DEF f
<1>4. AllUndelivered(requests', Append(stack, f))
  BY <1>1, <1>2, UndeliveredPush
<1> QED
  BY <1>3, <1>4 DEF InProgress

(* Fulfilling one request. *)
LEMMA FulfillBooks ==
  ASSUME CoordInv, Books, NEW caller \in Publishers, NEW r \in RequestIds,
         fulfillRandomWords(caller, r)
  PROVE  Books'
<1>1. /\ Open(r) /\ UNCHANGED delivered /\ caller \in Addresses /\ _callback(r, caller)
      /\ requests' = [requests EXCEPT ![r].fulfilled = TRUE]
      /\ settle(requests[r].subId, requests[r].paid, caller) /\ stack \in Seq(Frame)
  BY CoordinatorAssumption DEF fulfillRandomWords, CoordInv, StackOk, StackGood
<1>2. /\ \A s \in RequestIds : OneWay(s)'
      /\ ReservedBacksOpen' /\ PendingCountsOpen'
      /\ AllUndelivered(requests', stack)
      /\ requests'[r].fulfilled /\ ~requests'[r].callbackSucceeded
  BY <1>1, CloseBooks
<1>3. InProgress'
  BY <1>1, <1>2, CallbackBooks
<1> QED
  BY <1>2, <1>3 DEF Books

(* Giving one back. *)
LEMMA RefundBooks ==
  ASSUME CoordInv, Books, NEW r \in RequestIds, refund(r)
  PROVE  Books'
<1>1. /\ Open(r) /\ UNCHANGED <<delivered, stack>>
      /\ requests' = [requests EXCEPT ![r].refunded = TRUE]
      /\ release(requests[r].subId, requests[r].paid)
  BY DEF refund
<1>2. /\ \A s \in RequestIds : OneWay(s)'
      /\ ReservedBacksOpen' /\ PendingCountsOpen'
      /\ AllUndelivered(requests', stack)
  BY <1>1, CloseBooks
<1> QED
  BY <1>1, <1>2 DEF Books, InProgress

(* A retry delivers what is paid for and not delivered. *)
LEMMA RetryBooks ==
  ASSUME CoordInv, Books, NEW caller \in Publishers, NEW r \in RequestIds,
         retryCallback(caller, r)
  PROVE  Books'
<1>1. /\ caller \in Addresses /\ _callback(r, caller) /\ stack \in Seq(Frame)
      /\ requests' = requests /\ UNCHANGED <<delivered, accounts, counters>>
      /\ requests[r].fulfilled /\ ~requests[r].callbackSucceeded
  BY CoordinatorAssumption DEF retryCallback, CoordInv, StackOk, StackGood, reqVars, subVars
<1>2. InProgress'
  <2>1. AllUndelivered(requests', stack)
    BY <1>1 DEF Books, InProgress
  <2> QED
    BY <1>1, <2>1, CallbackBooks
<1>3. ReservedBacksOpen' /\ PendingCountsOpen'
  BY <1>1, BooksSame DEF Books, Open, Exists, Closed
<1>4. \A s \in RequestIds : OneWay(s)'
  BY <1>1 DEF Books, OneWay
<1> QED
  BY <1>2, <1>3, <1>4 DEF Books

(* A batch that starts has delivered nothing yet. *)
LEMMA BatchBooks ==
  ASSUME CoordInv, Books, NEW caller \in Publishers, NEW ids \in Batches,
         fulfillBatch(caller, ids)
  PROVE  Books'
<1> DEFINE f == [req |-> NoRequest, rest |-> ids, randomness |-> ids, payee |-> caller]
<1>1. /\ f \in Frame /\ stack \in Seq(Frame) /\ stack' = Append(stack, f)
      /\ requests' = requests /\ UNCHANGED <<delivered, accounts, counters>>
  BY CoordinatorAssumption
  DEF fulfillBatch, CoordInv, StackOk, StackGood, reqVars, subVars, Frame, Batches
<1>2. Undelivered(requests, f)
  BY DEF Undelivered
<1> HIDE DEF f
<1>3. InProgress'
  BY <1>1, <1>2, UndeliveredPush DEF Books, InProgress
<1>4. ReservedBacksOpen' /\ PendingCountsOpen'
  BY <1>1, BooksSame DEF Books, Open, Exists, Closed
<1>5. \A s \in RequestIds : OneWay(s)'
  BY <1>1 DEF Books, OneWay
<1> QED
  BY <1>3, <1>4, <1>5 DEF Books

(* Calls to the accounts or the fees, and the passing of time. *)
LEMMA OtherBooks ==
  ASSUME CoordInv, Books,
         \/ \E caller \in Addresses : AccountCall(caller)
         \/ \E caller \in Addresses : AdminCall(caller)
         \/ Tick
         \/ UNCHANGED vars
  PROVE  Books'
<1>1. requests' = requests /\ UNCHANGED <<stack, delivered>> /\ SubTypeOK
  BY DEF AccountCall, AdminCall, Tick, vars, reqVars, CoordInv, SubInv
<1>2. \A t \in SubIds : /\ accounts'[t].reserved = accounts[t].reserved
                        /\ counters'[t].pending = counters[t].pending
  <2>1. CASE \E caller \in Addresses : AccountCall(caller)
    BY <1>1, <2>1, OwnerEffect DEF AccountCall
  <2>2. CASE UNCHANGED subVars
    BY <2>2 DEF subVars
  <2> QED
    BY <2>1, <2>2 DEF AdminCall, Tick, vars
<1>3. ReservedBacksOpen' /\ PendingCountsOpen'
  BY <1>1, <1>2, BooksSame DEF Books, Open, Exists, Closed
<1> QED
  BY <1>1, <1>3 DEF Books, OneWay, InProgress

(* The frame on top goes on. *)
LEMMA ProceedBooks ==
  ASSUME NEW f \in Frame, Proceed(f), stack \in Seq(Frame), stack # <<>>,
         Undelivered(requests', f),
         \A i \in 1..(Len(stack) - 1) : Undelivered(requests', stack[i])
  PROVE  InProgress'
<1>1. Pop \in Seq(Frame) /\ AllUndelivered(requests', Pop)
  BY UndeliveredPop DEF Pop
<1>2. AllUndelivered(requests', Append(Pop, f))
  BY <1>1, UndeliveredPush
<1>3. AllUndelivered(requests', stack')
  BY <1>1, <1>2 DEF Proceed
<1> QED
  BY <1>3 DEF InProgress

(* A member that is still open is settled like a request of its own. *)
LEMMA SettleBooks ==
  ASSUME CoordInv, Books, BatchStillOpen, _settle
  PROVE  Books'
<1>1. /\ StackOk /\ stack # <<>> /\ Top.rest # <<>> /\ Top.req = NoRequest
      /\ UNCHANGED delivered /\ stack \in Seq(Frame)
  BY DEF CoordInv, _settle, StackOk, StackGood
<1>2. Top \in Frame /\ Top.payee \in Addresses /\ Len(stack) \in 1..Len(stack)
      /\ Len(stack) \in Nat
  BY <1>1, TopFrame DEF Frame
<1>3. PICK r \in RequestIds, next \in Frame, new \in Frame :
        /\ r = Top.rest[1] /\ 1 \in 1..Len(Top.rest)
        /\ next.req = NoRequest /\ new.req = r
        /\ requests' = [requests EXCEPT ![r].fulfilled = TRUE]
        /\ settle(requests[r].subId, requests[r].paid, Top.payee)
        /\ Proceed(new) \/ Proceed(next)
  <2> DEFINE x == Head(Top.rest)
             y == [Top EXCEPT !.rest = Tail(@)]
             z == [y EXCEPT !.req = x]
  <2>1. /\ x \in RequestIds /\ x = Top.rest[1] /\ y \in Frame /\ z \in Frame
        /\ y.req = NoRequest /\ z.req = x
        /\ Len(Top.rest) \in Nat /\ Len(Top.rest) >= 1
    BY <1>1, NextMember
  <2>2. /\ requests' = [requests EXCEPT ![x].fulfilled = TRUE]
        /\ settle(requests[x].subId, requests[x].paid, Top.payee)
        /\ Proceed(z) \/ Proceed(y)
    BY DEF _settle
  <2> HIDE DEF x, y, z
  <2>3. 1 \in 1..Len(Top.rest)
    BY <2>1
  <2> QED
    BY <2>1, <2>2, <2>3
<1>4. Open(r)
  <2>1. \A j \in 1..Len(Top.rest) : Open(Top.rest[j])
    BY <1>2 DEF BatchStillOpen, Top
  <2> QED
    BY <1>3, <2>1
<1>5. /\ \A s \in RequestIds : OneWay(s)'
      /\ ReservedBacksOpen' /\ PendingCountsOpen'
      /\ AllUndelivered(requests', stack)
      /\ requests'[r].fulfilled /\ ~requests'[r].callbackSucceeded
  BY <1>1, <1>2, <1>3, <1>4, CloseBooks
<1>6. Undelivered(requests', next) /\ Undelivered(requests', new)
  BY <1>3, <1>5 DEF Undelivered
<1>7. \A i \in 1..(Len(stack) - 1) : Undelivered(requests', stack[i])
  BY <1>2, <1>5 DEF AllUndelivered
<1>8. InProgress'
  BY <1>1, <1>3, <1>6, <1>7, ProceedBooks
<1> QED
  BY <1>5, <1>8 DEF Books

(* The words are recorded once: no other frame delivers the same request. *)
LEMMA ReturnBooks ==
  ASSUME CoordInv, Books, CallbackReturns
  PROVE  Books'
<1>1. /\ StackOk /\ stack # <<>> /\ Top.req # NoRequest /\ RequestsOk /\ DeliveredOk
      /\ UNCHANGED <<accounts, counters>> /\ stack \in Seq(Frame)
  BY DEF CoordInv, CallbackReturns, StackOk, StackGood, subVars
<1>2. Top \in Frame /\ Len(stack) \in 1..Len(stack) /\ Len(stack) \in Nat /\ Top.req \in RequestIds
  BY <1>1, TopFrame
<1>3. PICK r \in RequestIds, next \in Frame, w \in Seq(RequestIds) :
        /\ r = Top.req /\ next.req = NoRequest
        /\ requests' = [requests EXCEPT ![r].callbackSucceeded = TRUE]
        /\ delivered' = [delivered EXCEPT ![r] = Append(@, w)]
        /\ Proceed(next)
  <2> DEFINE y == [Top EXCEPT !.req = NoRequest]
  <2>1. y \in Frame /\ y.req = NoRequest /\ Top.randomness \in Seq(RequestIds)
    BY <1>2 DEF Frame
  <2>2. /\ requests' = [requests EXCEPT ![Top.req].callbackSucceeded = TRUE]
        /\ delivered' = [delivered EXCEPT ![Top.req] = Append(@, Top.randomness)]
        /\ Proceed(y)
    BY DEF CallbackReturns
  <2> HIDE DEF y
  <2> QED
    BY <1>2, <2>1, <2>2
<1>4. requests \in [RequestIds -> Request] /\ requests[r] \in Request
  BY <1>1 DEF RequestsOk
<1>5. /\ \A s \in RequestIds \ {r} : requests'[s] = requests[s]
      /\ requests'[r].callbackSucceeded
      /\ requests'[r].fulfilled = requests[r].fulfilled
      /\ requests'[r].refunded = requests[r].refunded
      /\ requests'[r].consumer = requests[r].consumer
      /\ requests'[r].subId = requests[r].subId /\ requests'[r].paid = requests[r].paid
  BY <1>3, <1>4 DEF Request
<1>6. requests[r].fulfilled /\ ~requests[r].callbackSucceeded
  <2>1. Undelivered(requests, Top)
    BY <1>2 DEF Books, InProgress, AllUndelivered, Top
  <2> QED
    BY <1>1, <1>3, <2>1 DEF Undelivered
<1>7. /\ \A s \in RequestIds \ {r} : delivered'[s] = delivered[s]
      /\ Len(delivered'[r]) = Len(delivered[r]) + 1
  <2>1. delivered[r] \in Seq(Seq(RequestIds)) /\ delivered \in [RequestIds -> Seq(Seq(RequestIds))]
    BY <1>1 DEF DeliveredOk
  <2>2. Len(Append(delivered[r], w)) = Len(delivered[r]) + 1
    BY <2>1, AppendProperties
  <2> QED
    BY <1>3, <2>1, <2>2
<1>8. ASSUME NEW s \in RequestIds PROVE OneWay(s)'
  <2>1. OneWay(s)
    BY DEF Books
  <2>2. CASE s = r
    <3>1. ~requests[r].refunded /\ Len(delivered[r]) = 0
      BY <1>6, <2>1, <2>2 DEF OneWay
    <3>2. Len(delivered'[r]) = 1
      BY <1>7, <3>1
    <3>3. ~requests'[r].refunded /\ requests'[r].fulfilled /\ requests'[r].callbackSucceeded
      BY <1>5, <1>6, <3>1
    <3> QED
      BY <2>2, <3>2, <3>3 DEF OneWay
  <2>3. CASE s # r
    BY <1>5, <1>7, <2>1, <2>3 DEF OneWay
  <2> QED
    BY <2>2, <2>3
<1>9. ReservedBacksOpen' /\ PendingCountsOpen'
  <2>1. \A s \in RequestIds : /\ Open(s)' <=> Open(s)
                              /\ requests'[s].subId = requests[s].subId
                              /\ requests'[s].paid = requests[s].paid
    BY <1>5 DEF Open, Exists, Closed
  <2> QED
    BY <1>1, <2>1, BooksSame DEF Books
<1>10. ASSUME NEW i \in 1..(Len(stack) - 1) PROVE Undelivered(requests', stack[i])
  <2> DEFINE f == stack[i]
  <2>1. i \in 1..Len(stack) /\ i < Len(stack)
    BY <1>2
  <2>2. f \in Frame /\ Undelivered(requests, f) /\ Inside(requests, f, Top)
    BY <1>1, <1>2, <2>1, ElementOfSeq
    DEF Books, InProgress, AllUndelivered, StackOk, StackGood, Top
  <2> HIDE DEF f
  <2>3. f.req # NoRequest => LimitIn(requests, Top.req) < LimitIn(requests, f.req)
    BY <1>1, <2>2 DEF Inside
  <2>4. LimitIn(requests, r) \in Nat
    BY <1>4 DEF LimitIn, Request
  <2>5. f.req # NoRequest => f.req # r /\ f.req \in RequestIds
    BY <1>3, <2>2, <2>3, <2>4, FrameIds
  <2>6. Undelivered(requests', f)
    BY <1>5, <2>2, <2>5 DEF Undelivered
  <2> QED
    BY <2>6 DEF f
<1>11. InProgress'
  <2>1. Undelivered(requests', next)
    BY <1>3 DEF Undelivered
  <2> QED
    BY <1>1, <1>3, <1>10, <2>1, ProceedBooks
<1> QED
  BY <1>8, <1>9, <1>11 DEF Books

(* The books of a coordinator nobody has asked anything. *)
LEMMA BooksInit == CoordInit => Books
<1> SUFFICES ASSUME CoordInit PROVE Books
  OBVIOUS
<1> USE DEF CoordInit, SubInit
<1>1. \A r \in RequestIds : OneWay(r) /\ ~Open(r)
  BY EmptySeq DEF OneWay, Open, Exists, EmptyRequest
<1>2. InProgress
  BY EmptySeq DEF InProgress, AllUndelivered
<1>3. \A id \in SubIds : OpenOf(id) = {} /\ OpenQuotes(id) = [r \in RequestIds |-> 0]
  BY <1>1 DEF OpenOf, OpenQuotes
<1>4. \A id \in SubIds : Total(OpenQuotes(id)) = 0 /\ Cardinality(OpenOf(id)) = 0
  BY <1>3, TotalZero, FS_EmptySet
<1>5. \A id \in SubIds : accounts[id].reserved = 0 /\ counters[id].pending = 0
  BY DEF NoAccount, NoCounters
<1>6. ReservedBacksOpen /\ PendingCountsOpen
  BY <1>4, <1>5 DEF ReservedBacksOpen, PendingCountsOpen
<1> QED
  BY <1>1, <1>2, <1>6 DEF Books

(* As long as no member of a batch is closed before its turn. *)
LEMMA BooksStep == CoordInv /\ Books /\ BatchStillOpen /\ [CoordNext]_vars => Books'
<1> SUFFICES ASSUME CoordInv, Books, BatchStillOpen, [CoordNext]_vars PROVE Books'
  OBVIOUS
<1> QED
  BY RequestBooks, FulfillBooks, BatchBooks, SettleBooks, ReturnBooks, RetryBooks,
     RefundBooks, OtherBooks DEF CoordNext

(* Whatever else consumers call, re-entered or not: as long as every member *)
(* of a batch is still open when its turn comes, each request is closed one *)
(* way, delivered once, and backed to the unit by what its account reserves. *)
THEOREM BooksTheorem == CoordSpec /\ []BatchStillOpen => []Books
BY BooksInit, BooksStep, CoordInvariant, PTL DEF CoordSpec

-----------------------------------------------------------------------------
(* When a batch's members stay open. *)

(* Either batches have one member, or consumers close no request while they *)
(* are delivered to. *)
QuietBatches == MaxBatch <= 1 \/ CallbackOps \cap {"fulfill", "batch", "refund"} = {}

(* With batches of one: only the frame on top can have a member left, and   *)
(* then nobody is in control. *)
Lone == \A i \in 1..Len(stack) : stack[i].rest # <<>> =>
          i = Len(stack) /\ stack[i].req = NoRequest /\ Len(stack[i].rest) = 1

(* With consumers that close nothing: only the outermost frame can have     *)
(* members left, each once. *)
Outer == \A i \in 1..Len(stack) : stack[i].rest # <<>> => i = 1 /\ Ascending(stack[i].rest)

NoRests == \A i \in 1..Len(stack) : stack[i].rest = <<>>

(* Without members there is nothing to keep open. *)
LEMMA NoRestsOpen == NoRests => Lone /\ Outer /\ BatchStillOpen
BY EmptySeq DEF NoRests, Lone, Outer, BatchStillOpen

(* The stack after a delivery was, or was not, entered. *)
LEMMA CallbackShape ==
  ASSUME stack \in Seq(Frame), NEW r, NEW payee, _callback(r, payee)
  PROVE  /\ Len(stack) \in Nat /\ Len(stack') \in Nat
         /\ \A i \in 1..Len(stack) : stack'[i] = stack[i]
         /\ \A i \in 1..Len(stack') : i \in 1..Len(stack) \/ stack'[i].rest = <<>>
<1> DEFINE f == [req |-> r, rest |-> <<>>, randomness |-> <<r>>, payee |-> payee]
<1>1. Len(stack) \in Nat
  BY LenProperties
<1>2. CASE stack' = stack
  BY <1>1, <1>2
<1>3. CASE stack' = Append(stack, f)
  <2>1. f.rest = <<>>
    OBVIOUS
  <2> HIDE DEF f
  <2>2. /\ Len(stack') = Len(stack) + 1
        /\ \A i \in 1..Len(stack) : stack'[i] = stack[i]
        /\ stack'[Len(stack) + 1] = f
    BY <1>1, <1>3
  <2>3. \A i \in 1..Len(stack') : i \in 1..Len(stack) \/ i = Len(stack) + 1
    BY <1>1, <2>2
  <2> QED
    BY <1>1, <2>1, <2>2, <2>3
<1> QED
  BY <1>2, <1>3 DEF _callback

(* The stack after the frame on top went on. *)
LEMMA ProceedShape ==
  ASSUME stack \in Seq(Frame), stack # <<>>, NEW f \in Frame, Proceed(f)
  PROVE  /\ Len(stack) \in Nat /\ Len(stack) >= 1 /\ Len(stack') \in Nat
         /\ Len(stack') <= Len(stack)
         /\ \A i \in 1..Len(stack') :
              \/ i \in 1..Len(stack) /\ i # Len(stack) /\ stack'[i] = stack[i]
              \/ i = Len(stack) /\ stack'[i] = f
<1>1. /\ Len(stack) \in Nat /\ Len(stack) >= 1 /\ Len(Pop) = Len(stack) - 1
      /\ Pop \in Seq(Frame) /\ \A i \in 1..(Len(stack) - 1) : Pop[i] = stack[i]
  BY PopProperties DEF Pop
<1>2. CASE stack' = Pop
  BY <1>1, <1>2
<1>3. CASE stack' = Append(Pop, f)
  <2>1. /\ Len(stack') = Len(Pop) + 1
        /\ \A i \in 1..Len(Pop) : stack'[i] = Pop[i]
        /\ stack'[Len(Pop) + 1] = f
    BY <1>1, <1>3, AppendProperties
  <2> QED
    BY <1>1, <2>1
<1> QED
  BY <1>2, <1>3 DEF Proceed

(* A consumer in control, or nobody: with batches of one no member is left. *)
LEMMA LoneInControl ==
  ASSUME Lone, stack \in Seq(Frame), stack # <<>> => Top.req # NoRequest
  PROVE  NoRests
<1>1. Len(stack) \in Nat
  BY LenProperties
<1> QED
  BY <1>1, EmptySeq DEF Lone, NoRests, Top

(* The frame a batch of one leaves behind. *)
LEMMA LoneStep ==
  ASSUME MaxBatch <= 1, CoordInv, Lone, BatchStillOpen, [CoordNext]_vars
  PROVE  Lone' /\ BatchStillOpen'
<1>1. StackOk /\ stack \in Seq(Frame) /\ Len(stack) \in Nat
  BY LenProperties DEF CoordInv, StackOk, StackGood
<1>2. SUFFICES ASSUME ~NoRests' PROVE Lone' /\ BatchStillOpen'
  <2>1. NoRests' => Lone' /\ BatchStillOpen'
    BY NoRestsOpen, PTL
  <2> QED
    BY <2>1
<1>3. ASSUME NEW op, Enter(op) PROVE NoRests
  BY <1>1, <1>3, LoneInControl DEF Enter
<1>4. ASSUME NoRests, UNCHANGED stack PROVE FALSE
  BY <1>2, <1>4 DEF NoRests
<1>5. ASSUME NoRests, NEW r, NEW payee, _callback(r, payee) PROVE FALSE
  BY <1>1, <1>2, <1>5, CallbackShape DEF NoRests
<1>6. ASSUME NEW caller \in Addresses, NEW id \in SubIds, NEW n \in WordCounts,
             NEW g \in GasLimits, requestRandomWords(caller, id, n, g)
      PROVE  FALSE
  BY <1>3, <1>4, <1>6 DEF requestRandomWords
<1>7. ASSUME NEW caller \in Publishers, NEW r \in RequestIds,
             fulfillRandomWords(caller, r) \/ retryCallback(caller, r)
      PROVE  FALSE
  BY <1>3, <1>5, <1>7 DEF fulfillRandomWords, retryCallback
<1>8. ASSUME NEW r \in RequestIds, refund(r) PROVE FALSE
  BY <1>3, <1>4, <1>8 DEF refund
<1>9. ASSUME NEW caller \in Addresses, AccountCall(caller) \/ AdminCall(caller) PROVE FALSE
  BY <1>3, <1>4, <1>9 DEF AccountCall, AdminCall
<1>10. ASSUME NEW caller \in Publishers, NEW ids \in Batches, fulfillBatch(caller, ids)
       PROVE  Lone' /\ BatchStillOpen'
  <2> DEFINE f == [req |-> NoRequest, rest |-> ids, randomness |-> ids, payee |-> caller]
  <2>1. NoRests /\ stack' = Append(stack, f) /\ requests' = requests
        /\ \A j \in 1..Len(ids) : Open(ids[j])
    BY <1>3, <1>10 DEF fulfillBatch, reqVars
  <2>2. Len(ids) = 1
    <3>1. PICK k \in 1..MaxBatch : ids \in [1..k -> RequestIds]
      BY DEF Batches
    <3>2. k = 1
      BY <3>1, CoordinatorAssumption
    <3> QED
      BY <3>1, <3>2
  <2>3. f.rest = ids /\ f.req = NoRequest
    OBVIOUS
  <2> HIDE DEF f
  <2>4. /\ Len(stack') = Len(stack) + 1 /\ stack'[Len(stack) + 1] = f
        /\ \A i \in 1..Len(stack) : stack'[i] = stack[i]
    BY <1>1, <2>1
  <2>5. \A i \in 1..Len(stack') : (i \in 1..Len(stack) /\ stack'[i].rest = <<>>)
                                  \/ (i = Len(stack') /\ stack'[i] = f)
    BY <1>1, <2>1, <2>4 DEF NoRests
  <2>6. Lone'
    BY <2>2, <2>3, <2>5 DEF Lone
  <2>7. \A j \in 1..Len(ids) : Open(ids[j])'
    BY <2>1 DEF Open, Exists, Closed
  <2>8. BatchStillOpen'
    BY <2>3, <2>5, <2>7, EmptySeq DEF BatchStillOpen
  <2> QED
    BY <2>6, <2>8
<1>11. ASSUME NEW f \in Frame, stack # <<>>, Proceed(f), f.rest = <<>> PROVE FALSE
  <2>1. \A i \in 1..Len(stack) : i # Len(stack) => stack[i].rest = <<>>
    BY DEF Lone
  <2>2. \A i \in 1..Len(stack') :
          \/ i \in 1..Len(stack) /\ i # Len(stack) /\ stack'[i] = stack[i]
          \/ i = Len(stack) /\ stack'[i] = f
    BY <1>1, <1>11, ProceedShape
  <2>3. NoRests'
    BY <1>11, <2>1, <2>2 DEF NoRests
  <2> QED
    BY <1>2, <2>3
<1>12. CASE _settle
  <2> DEFINE x == Head(Top.rest)
             y == [Top EXCEPT !.rest = Tail(@)]
             z == [y EXCEPT !.req = x]
  <2>1. stack # <<>> /\ Top.rest # <<>> /\ (Proceed(z) \/ Proceed(y))
    BY <1>12 DEF _settle
  <2>2. /\ y \in Frame /\ z \in Frame /\ y.rest = Tail(Top.rest) /\ z.rest = Tail(Top.rest)
        /\ Len(Tail(Top.rest)) = Len(Top.rest) - 1
    BY <1>1, <2>1, NextMember
  <2>3. Len(Top.rest) = 1 /\ Top \in Frame
    BY <1>1, <2>1, TopFrame DEF Lone, Top
  <2>4. Tail(Top.rest) = <<>>
    <3>1. Top.rest \in Seq(RequestIds)
      BY <2>3, FrameIds
    <3>2. Tail(Top.rest) \in Seq(RequestIds)
      BY <2>1, <3>1, HeadTailProperties
    <3>3. Len(Tail(Top.rest)) = 0
      BY <2>2, <2>3
    <3> QED
      BY <3>2, <3>3, EmptySeq
  <2> HIDE DEF y, z
  <2> QED
    BY <1>11, <2>1, <2>2, <2>4
<1>13. CASE CallbackReturns
  <2> DEFINE y == [Top EXCEPT !.req = NoRequest]
  <2>1. stack # <<>> /\ Top.req # NoRequest /\ Proceed(y)
    BY <1>13 DEF CallbackReturns
  <2>2. Top \in Frame /\ Len(stack) \in 1..Len(stack)
    BY <1>1, <2>1, TopFrame
  <2>3. Top.rest = <<>>
    BY <2>1, <2>2 DEF Lone, Top
  <2>4. y \in Frame /\ y.rest = <<>>
    BY <2>2, <2>3 DEF Frame
  <2> HIDE DEF y
  <2> QED
    BY <1>11, <2>1, <2>4
<1>14. CASE Tick \/ UNCHANGED vars
  BY <1>14 DEF Tick, vars, reqVars, Lone, BatchStillOpen, Open, Exists, Closed
<1> QED
  BY <1>6, <1>7, <1>8, <1>9, <1>10, <1>12, <1>13, <1>14 DEF CoordNext

(* The members a batch has left are open, after a step that closes none. *)
LEMMA OpenKept ==
  ASSUME CoordInv, BatchStillOpen,
         \A r \in RequestIds : Open(r) => Open(r)',
         \A i \in 1..Len(stack') :
           stack'[i].rest = <<>> \/ (i \in 1..Len(stack) /\ stack'[i].rest = stack[i].rest)
  PROVE  BatchStillOpen'
<1> SUFFICES ASSUME NEW i \in 1..Len(stack'), NEW j \in 1..Len(stack'[i].rest), NEW r,
                    r = stack'[i].rest[j]
             PROVE  Open(r)'
  BY DEF BatchStillOpen, Open, Exists, Closed
<1>1. i \in 1..Len(stack) /\ stack'[i].rest = stack[i].rest
  BY EmptySeq
<1>2. r = stack[i].rest[j]
  BY <1>1
<1>3. Open(r) /\ r \in RequestIds
  <2> DEFINE f == stack[i]
  <2>1. f \in Frame /\ j \in 1..Len(f.rest)
    BY <1>1, ElementOfSeq DEF CoordInv, StackOk, StackGood
  <2>2. f.rest[j] \in RequestIds
    <3> HIDE DEF f
    <3> QED
      BY <2>1, FrameIds
  <2> QED
    BY <1>1, <1>2, <2>2 DEF BatchStillOpen
<1> QED
  BY <1>3

(* What is left of a batch after its first member. *)
LEMMA TailAscending ==
  ASSUME NEW ids \in Seq(RequestIds), ids # <<>>, Ascending(ids)
  PROVE  Ascending(Tail(ids)) /\ \A j \in 1..Len(Tail(ids)) : Tail(ids)[j] # ids[1]
<1>1. /\ Len(ids) \in Nat /\ Len(ids) >= 1 /\ Len(Tail(ids)) = Len(ids) - 1
      /\ \A j \in 1..Len(Tail(ids)) : Tail(ids)[j] = ids[j + 1]
  BY LenProperties, EmptySeq, HeadTailProperties
<1>2. \A j \in 1..Len(Tail(ids)) : j + 1 \in 1..Len(ids) /\ 1 < j + 1
  BY <1>1
<1>3. \A i, j \in 1..Len(Tail(ids)) : i < j => i + 1 < j + 1
  BY <1>1
<1>4. 1 \in 1..Len(ids) /\ \A j \in 1..Len(ids) : ids[j] \in Nat
  BY <1>1, ElementOfSeq, CoordinatorAssumption DEF RequestIds
<1>5. Ascending(Tail(ids))
  BY <1>1, <1>2, <1>3 DEF Ascending
<1>6. ASSUME NEW j \in 1..Len(Tail(ids)) PROVE Tail(ids)[j] # ids[1]
  <2>1. ids[1] < ids[j + 1] /\ ids[j + 1] \in Nat /\ ids[1] \in Nat
    BY <1>2, <1>4 DEF Ascending
  <2> QED
    BY <1>1, <2>1
<1> QED
  BY <1>5, <1>6

(* Consumers that close nothing leave the outermost batch as it was. *)
LEMMA OuterStep ==
  ASSUME CallbackOps \cap {"fulfill", "batch", "refund"} = {},
         CoordInv, Outer, BatchStillOpen, [CoordNext]_vars
  PROVE  Outer' /\ BatchStillOpen'
<1>1. StackOk /\ RequestsOk /\ SubInv /\ FeeInv /\ stack \in Seq(Frame) /\ Len(stack) \in Nat
  BY LenProperties DEF CoordInv, StackOk, StackGood
<1>2. ASSUME NoRests' PROVE Outer' /\ BatchStillOpen'
  <2>1. NoRests' => Outer' /\ BatchStillOpen'
    BY NoRestsOpen, PTL
  <2> QED
    BY <1>2, <2>1
<1>3. ASSUME \A r \in RequestIds : Open(r) => Open(r)',
             \A i \in 1..Len(stack') :
               stack'[i].rest = <<>> \/ (i \in 1..Len(stack) /\ stack'[i].rest = stack[i].rest)
      PROVE  Outer' /\ BatchStillOpen'
  <2>1. BatchStillOpen'
    BY <1>3, OpenKept
  <2>2. Outer'
    BY <1>3 DEF Outer
  <2> QED
    BY <2>1, <2>2
<1>4. ASSUME requests' = requests PROVE \A r \in RequestIds : Open(r) => Open(r)'
  BY <1>4 DEF Open, Exists, Closed
<1>5. ASSUME NEW caller \in Addresses, NEW id \in SubIds, NEW n \in WordCounts,
             NEW g \in GasLimits, requestRandomWords(caller, id, n, g)
      PROVE  Outer' /\ BatchStillOpen'
  <2> DEFINE x == IdOf[<<caller, nonces[caller]>>]
  <2>1. /\ x \in RequestIds /\ ~Exists(x)
        /\ requests' = [requests EXCEPT ![x] =
              [consumer |-> caller, subId |-> id, numWords |-> n, callbackGasLimit |-> g,
               createdAtBlock |-> block, paid |-> price(n, g),
               fulfilled |-> FALSE, refunded |-> FALSE, callbackSucceeded |-> FALSE]]
    BY <1>1, <1>5, NewRequestOk
  <2> HIDE DEF x
  <2>2. \A r \in RequestIds \ {x} : requests'[r] = requests[r]
    BY <1>1, <2>1 DEF RequestsOk
  <2>3. \A r \in RequestIds : Open(r) => Open(r)'
    BY <2>1, <2>2 DEF Open, Exists, Closed
  <2> QED
    BY <1>3, <1>5, <2>3 DEF requestRandomWords
<1>6. ASSUME NEW caller \in Publishers, NEW r \in RequestIds, fulfillRandomWords(caller, r)
      PROVE  Outer' /\ BatchStillOpen'
  <2>1. stack = <<>> /\ _callback(r, caller)
    BY <1>6 DEF fulfillRandomWords, Enter
  <2>2. NoRests'
    BY <1>1, <2>1, CallbackShape, EmptySeq DEF NoRests
  <2> QED
    BY <1>2, <2>2
<1>7. ASSUME NEW caller \in Publishers, NEW ids \in Batches, fulfillBatch(caller, ids)
      PROVE  Outer' /\ BatchStillOpen'
  <2> DEFINE f == [req |-> NoRequest, rest |-> ids, randomness |-> ids, payee |-> caller]
  <2>1. stack = <<>> /\ stack' = Append(stack, f) /\ requests' = requests /\ Ascending(ids)
        /\ \A j \in 1..Len(ids) : Open(ids[j])
    BY <1>7 DEF fulfillBatch, Enter, reqVars
  <2>2. f.rest = ids
    OBVIOUS
  <2> HIDE DEF f
  <2>3. Len(stack') = 1 /\ stack'[1] = f
    BY <2>1
  <2>4. \A i \in 1..Len(stack') : i = 1 /\ stack'[i] = f
    BY <2>3
  <2>5. Outer'
    BY <2>1, <2>2, <2>4 DEF Outer
  <2>6. \A j \in 1..Len(ids) : Open(ids[j])'
    BY <2>1 DEF Open, Exists, Closed
  <2>7. BatchStillOpen'
    BY <2>2, <2>4, <2>6 DEF BatchStillOpen
  <2> QED
    BY <2>5, <2>7
<1>8. ASSUME NEW caller \in Publishers, NEW r \in RequestIds, retryCallback(caller, r)
      PROVE  Outer' /\ BatchStillOpen'
  <2>1. _callback(r, caller) /\ requests' = requests
    BY <1>8 DEF retryCallback, reqVars
  <2>2. \A i \in 1..Len(stack') :
          stack'[i].rest = <<>> \/ (i \in 1..Len(stack) /\ stack'[i].rest = stack[i].rest)
    BY <1>1, <2>1, CallbackShape
  <2> QED
    BY <1>3, <1>4, <2>1, <2>2
<1>9. ASSUME NEW r \in RequestIds, refund(r) PROVE Outer' /\ BatchStillOpen'
  <2>1. stack = <<>> /\ stack' = stack
    BY <1>9 DEF refund, Enter
  <2>2. NoRests'
    BY <2>1, EmptySeq DEF NoRests
  <2> QED
    BY <1>2, <2>2
<1>10. ASSUME UNCHANGED <<reqVars, stack>> PROVE Outer' /\ BatchStillOpen'
  BY <1>3, <1>4, <1>10 DEF reqVars
<1>11. CASE CallbackReturns
  <2> DEFINE y == [Top EXCEPT !.req = NoRequest]
  <2>1. stack # <<>> /\ Top.req # NoRequest /\ Proceed(y)
        /\ requests' = [requests EXCEPT ![Top.req].callbackSucceeded = TRUE]
    BY <1>11 DEF CallbackReturns
  <2>2. Top \in Frame /\ Len(stack) \in 1..Len(stack) /\ Top.req \in RequestIds
    BY <1>1, <2>1, TopFrame
  <2>3. y \in Frame /\ y.rest = Top.rest
    BY <2>2 DEF Frame
  <2>4. PICK x \in RequestIds : requests' = [requests EXCEPT ![x].callbackSucceeded = TRUE]
    BY <2>1, <2>2
  <2>5. requests \in [RequestIds -> Request] /\ requests[x] \in Request
    BY <1>1 DEF RequestsOk
  <2>6. \A r \in RequestIds : /\ requests'[r].consumer = requests[r].consumer
                              /\ requests'[r].fulfilled = requests[r].fulfilled
                              /\ requests'[r].refunded = requests[r].refunded
    BY <2>4, <2>5 DEF Request
  <2>7. \A r \in RequestIds : Open(r) => Open(r)'
    BY <2>6 DEF Open, Exists, Closed
  <2> HIDE DEF y
  <2>8. \A i \in 1..Len(stack') :
          \/ i \in 1..Len(stack) /\ i # Len(stack) /\ stack'[i] = stack[i]
          \/ i = Len(stack) /\ stack'[i] = y
    BY <1>1, <2>1, <2>3, ProceedShape
  <2>9. \A i \in 1..Len(stack') : i \in 1..Len(stack) /\ stack'[i].rest = stack[i].rest
    BY <2>2, <2>3, <2>8 DEF Top
  <2> QED
    BY <1>3, <2>7, <2>9
<1>12. CASE _settle
  <2>1. /\ stack # <<>> /\ Top.rest # <<>>
        /\ Top \in Frame /\ Len(stack) \in 1..Len(stack)
    BY <1>1, <1>12, TopFrame DEF _settle
  <2>2. Len(stack) = 1 /\ Ascending(Top.rest) /\ \A j \in 1..Len(Top.rest) : Open(Top.rest[j])
    BY <2>1 DEF Outer, BatchStillOpen, Top
  <2>3. PICK ids \in Seq(RequestIds) : ids = Top.rest
    BY <2>1, FrameIds
  <2>4. PICK x \in RequestIds, f \in Frame :
          /\ x = ids[1] /\ f.rest = Tail(ids) /\ Proceed(f)
          /\ requests' = [requests EXCEPT ![x].fulfilled = TRUE]
    <3> DEFINE w == Head(Top.rest)
               y == [Top EXCEPT !.rest = Tail(@)]
               z == [y EXCEPT !.req = w]
    <3>1. /\ w \in RequestIds /\ w = Top.rest[1] /\ y \in Frame /\ z \in Frame
          /\ y.rest = Tail(Top.rest) /\ z.rest = Tail(Top.rest)
      BY <1>1, <2>1, NextMember
    <3>2. /\ requests' = [requests EXCEPT ![w].fulfilled = TRUE]
          /\ Proceed(z) \/ Proceed(y)
      BY <1>12 DEF _settle
    <3> HIDE DEF w, y, z
    <3> QED
      BY <2>3, <3>1, <3>2
  <2>5. /\ Ascending(Tail(ids)) /\ \A j \in 1..Len(Tail(ids)) : Tail(ids)[j] # ids[1]
        /\ Tail(ids) \in Seq(RequestIds)
    BY <2>1, <2>2, <2>3, TailAscending, HeadTailProperties
  <2>6. \A i \in 1..Len(stack') : i = 1 /\ stack'[i] = f
    BY <1>1, <2>1, <2>2, <2>4, ProceedShape
  <2>7. Outer'
    BY <2>4, <2>5, <2>6 DEF Outer
  <2>8. \A r \in RequestIds \ {x} : Open(r) => Open(r)'
    BY <1>1, <2>4 DEF RequestsOk, Open, Exists, Closed
  <2>9. ASSUME NEW j \in 1..Len(Tail(ids)) PROVE Open(Tail(ids)[j])'
    <3>1. /\ Tail(ids)[j] = ids[j + 1] /\ j + 1 \in 1..Len(ids) /\ ids[j + 1] \in RequestIds
      BY <2>1, <2>3, LenProperties, HeadTailProperties, ElementOfSeq
    <3>2. Open(ids[j + 1]) /\ ids[j + 1] # x
      BY <2>2, <2>3, <2>4, <2>5, <3>1
    <3> QED
      BY <2>8, <3>1, <3>2
  <2>10. BatchStillOpen'
    BY <2>4, <2>6, <2>9 DEF BatchStillOpen
  <2> QED
    BY <2>7, <2>10
<1> QED
  BY <1>5, <1>6, <1>7, <1>8, <1>9, <1>10, <1>11, <1>12
  DEF CoordNext, AccountCall, AdminCall, Tick, vars

(* What a batch checked of its members before its first delivery is still   *)
(* true when each one's turn comes: if batches have one member, or if       *)
(* consumers do not close requests while they are delivered to.  Without    *)
(* either it is not: nothing in _settle looks again. *)
THEOREM BatchTheorem ==
  ASSUME QuietBatches PROVE CoordSpec => []BatchStillOpen
<1>1. CoordInit => NoRests
  BY EmptySeq DEF CoordInit, NoRests
<1>2. CASE MaxBatch <= 1
  <2>1. CoordInv /\ Lone /\ BatchStillOpen /\ [CoordNext]_vars => Lone' /\ BatchStillOpen'
    BY <1>2, LoneStep
  <2>2. CoordInit => Lone /\ BatchStillOpen
    BY <1>1, NoRestsOpen
  <2> QED
    BY <2>1, <2>2, CoordInvariant, PTL DEF CoordSpec
<1>3. CASE CallbackOps \cap {"fulfill", "batch", "refund"} = {}
  <2>1. CoordInv /\ Outer /\ BatchStillOpen /\ [CoordNext]_vars => Outer' /\ BatchStillOpen'
    BY <1>3, OuterStep
  <2>2. CoordInit => Outer /\ BatchStillOpen
    BY <1>1, NoRestsOpen
  <2> QED
    BY <2>1, <2>2, CoordInvariant, PTL DEF CoordSpec
<1> QED
  BY <1>2, <1>3 DEF QuietBatches

(* No request is both paid for and refunded. *)
THEOREM ClosedOnceTheorem ==
  ASSUME QuietBatches PROVE CoordSpec => []ClosedOnce
<1>1. Books => ClosedOnce
  BY DEF Books, OneWay, ClosedOnce
<1> QED
  BY <1>1, BatchTheorem, BooksTheorem, PTL

(* The words of a request reach its consumer at most once, and never after  *)
(* a refund, through fulfilments, batches and retries nested in any way.    *)
THEOREM DeliveredOnceTheorem ==
  ASSUME QuietBatches PROVE CoordSpec => []DeliveredOnce
<1>1. CoordInv /\ Books => DeliveredOnce
  <2> SUFFICES ASSUME CoordInv, Books, NEW r \in RequestIds
               PROVE  Len(delivered[r]) <= 1 /\ (requests[r].refunded => delivered[r] = <<>>)
    BY DEF DeliveredOnce
  <2>1. OneWay(r) /\ delivered[r] \in Seq(Seq(RequestIds))
    BY DEF Books, CoordInv, DeliveredOk
  <2>2. Len(delivered[r]) <= 1
    BY <2>1 DEF OneWay
  <2>3. ASSUME requests[r].refunded PROVE delivered[r] = <<>>
    <3>1. Len(delivered[r]) = 0
      BY <2>1, <2>3 DEF OneWay
    <3> QED
      BY <2>1, <3>1, EmptySeq
  <2> QED
    BY <2>2, <2>3
<1> QED
  BY <1>1, BatchTheorem, BooksTheorem, CoordInvariant, PTL

(* What an account has reserved is, to the unit, what its open requests     *)
(* were quoted, whatever the fees were when they were made.                 *)
THEOREM ReservedBacksTheorem ==
  ASSUME QuietBatches PROVE CoordSpec => []ReservedBacksOpen
<1>1. Books => ReservedBacksOpen
  BY DEF Books
<1> QED
  BY <1>1, BatchTheorem, BooksTheorem, PTL

(* The counter that keeps an account with work in flight from being         *)
(* cancelled is the number of its open requests: it never saturates.        *)
THEOREM PendingCountsTheorem ==
  ASSUME QuietBatches PROVE CoordSpec => []PendingCountsOpen
<1>1. Books => PendingCountsOpen
  BY DEF Books
<1> QED
  BY <1>1, BatchTheorem, BooksTheorem, PTL

-----------------------------------------------------------------------------
(* Open requests and their accounts. *)

(* No free tier: every fee schedule the owner picks has a base fee. *)
PaidTier == InitialFees.base > 0 /\ \A f \in FeeChoices : f.base > 0

Priced == fees.base > 0 /\ (effectiveAt # 0 => pendingFees.base > 0)

Behind == \A r \in RequestIds : Open(r) => Alive(requests[r].subId)

(* A base fee never goes away. *)
LEMMA PricedStep ==
  ASSUME PaidTier, Priced, [CoordNext]_vars
  PROVE  Priced'
<1>1. CASE UNCHANGED feeVars
  BY <1>1 DEF Priced, feeVars
<1>2. ASSUME NEW caller \in Addresses, FeeStep(caller) PROVE Priced'
  <2>1. CASE \E f \in FeeChoices : proposeFees(caller, f)
    BY <2>1 DEF proposeFees, Priced, PaidTier
  <2>2. CASE applyFees
    BY <2>2 DEF applyFees, _clearPendingFees, Priced
  <2>3. CASE cancelFeeChange(caller) \/ renounceOwnership(caller)
    BY <2>3 DEF cancelFeeChange, renounceOwnership, _clearPendingFees, Priced
  <2>4. CASE acceptOwnership(caller) \/ \E newOwner \in Successors : transferOwnership(caller, newOwner)
    BY <2>4 DEF acceptOwnership, transferOwnership, Priced
  <2> QED
    BY <1>2, <2>1, <2>2, <2>3, <2>4 DEF FeeStep
<1>3. ASSUME NEW caller \in Addresses, NEW id \in SubIds, NEW n \in WordCounts, NEW g \in GasLimits,
             requestRandomWords(caller, id, n, g)
      PROVE  UNCHANGED feeVars
  BY <1>3 DEF requestRandomWords, feeVars
<1>4. ASSUME NEW caller \in Publishers, NEW r \in RequestIds,
             fulfillRandomWords(caller, r) \/ retryCallback(caller, r)
      PROVE  UNCHANGED feeVars
  BY <1>4 DEF fulfillRandomWords, retryCallback, feeVars
<1>5. ASSUME NEW caller \in Publishers, NEW ids \in Batches, fulfillBatch(caller, ids)
      PROVE  UNCHANGED feeVars
  BY <1>5 DEF fulfillBatch, feeVars
<1>6. ASSUME _settle \/ CallbackReturns
      PROVE  UNCHANGED feeVars
  BY <1>6 DEF _settle, CallbackReturns, feeVars
<1>7. ASSUME NEW r \in RequestIds, refund(r)
      PROVE  UNCHANGED feeVars
  BY <1>7 DEF refund, feeVars
<1>8. ASSUME NEW caller \in Addresses, AccountCall(caller)
      PROVE  UNCHANGED feeVars
  BY <1>8 DEF AccountCall, feeVars
<1>9. ASSUME Tick \/ UNCHANGED vars
      PROVE  UNCHANGED feeVars
  BY <1>9 DEF Tick, vars, feeVars
<1>10. ASSUME NEW caller \in Addresses, AdminCall(caller)
      PROVE  Priced'
  BY <1>1, <1>2, <1>10 DEF AdminCall
<1> QED
  BY <1>1, <1>3, <1>4, <1>5, <1>6, <1>7, <1>8, <1>9, <1>10 DEF CoordNext

(* Only cancelSubscription takes an account's owner away. *)
LEMMA StaysAlive ==
  ASSUME SubInv, NEW caller \in Addresses, OwnerApi(caller), NEW t \in SubIds, Alive(t)
  PROVE  Alive(t)' \/ counters[t].pending = 0
<1>1. accounts \in [SubIds -> Account] /\ caller # NoAddr
  BY AddressAssumption DEF SubInv, SubTypeOK
<1>2. CASE createSubscription(caller)
  BY <1>1, <1>2 DEF createSubscription, Alive, Account
<1>3. CASE withdraw(caller)
  BY <1>3 DEF withdraw, Alive
<1>4. ASSUME NEW id \in SubIds, NEW x,
             \/ fundSubscriptionWithNative(id, x)
             \/ withdrawFromSubscription(caller, id, x)
      PROVE  Alive(t)'
  BY <1>1, <1>4 DEF fundSubscriptionWithNative, withdrawFromSubscription, Alive, Account
<1>5. ASSUME NEW id \in SubIds, NEW x,
             \/ addConsumer(caller, id, x)
             \/ removeConsumer(caller, id, x)
             \/ requestSubscriptionOwnerTransfer(caller, id, x)
      PROVE  Alive(t)'
  BY <1>5 DEF addConsumer, removeConsumer, requestSubscriptionOwnerTransfer, Alive
<1>6. ASSUME NEW id \in SubIds, cancelSubscription(caller, id)
      PROVE  Alive(t)' \/ counters[t].pending = 0
  BY <1>1, <1>6 DEF cancelSubscription, Alive
<1>7. ASSUME NEW id \in SubIds, acceptSubscriptionOwnerTransfer(caller, id)
      PROVE  Alive(t)'
  BY <1>1, <1>7 DEF acceptSubscriptionOwnerTransfer, Alive, Account
<1> QED
  BY <1>2, <1>3, <1>4, <1>5, <1>6, <1>7 DEF OwnerApi

(* A step that opens nothing and takes no owner away. *)
LEMMA BehindKept ==
  ASSUME Behind, \A r \in RequestIds : Open(r)' => Open(r) /\ requests'[r].subId = requests[r].subId,
         \A r \in RequestIds : Open(r) /\ Alive(requests[r].subId) =>
            accounts'[requests[r].subId].owner # NoAddr
  PROVE  Behind'
BY DEF Behind, Alive

(* The coordinator's calls on an account leave every owner. *)
LEMMA MoneyOwners ==
  ASSUME SubInv, NEW id \in SubIds, NEW p \in Nat,
         \/ reserve(id, p)
         \/ release(id, p)
         \/ \E payee \in Addresses : settle(id, p, payee)
  PROVE  \A t \in SubIds : accounts'[t].owner = accounts[t].owner
<1>1. MoneyStep(id)
  BY MoneyStepLemma
<1> QED
  BY <1>1 DEF MoneyStep

(* A step that marks a request opens none. *)
LEMMA MarkOpensNone ==
  ASSUME RequestsOk, NEW r \in RequestIds,
         \/ requests' = [requests EXCEPT ![r].fulfilled = TRUE]
         \/ requests' = [requests EXCEPT ![r].refunded = TRUE]
         \/ requests' = [requests EXCEPT ![r].callbackSucceeded = TRUE]
  PROVE  \A s \in RequestIds : Open(s)' => Open(s) /\ requests'[s].subId = requests[s].subId
<1>1. requests \in [RequestIds -> Request] /\ requests[r] \in Request
  BY DEF RequestsOk
<1>2. \A s \in RequestIds : /\ requests'[s].consumer = requests[s].consumer
                            /\ requests'[s].subId = requests[s].subId
                            /\ requests[s].fulfilled => requests'[s].fulfilled
                            /\ requests[s].refunded => requests'[s].refunded
  BY <1>1 DEF Request
<1> QED
  BY <1>2 DEF Open, Exists, Closed

(* Every open request has an account behind it. *)
LEMMA BehindStep ==
  ASSUME CoordInv, Books, Priced, Behind, [CoordNext]_vars
  PROVE  Behind'
<1>1. RequestsOk /\ SubInv /\ FeeInv /\ StackOk /\ Publishers \subseteq Addresses
  BY CoordinatorAssumption DEF CoordInv
<1>2. \A r \in RequestIds : Open(r) => requests[r].subId \in SubIds
  BY <1>1 DEF RequestsOk, Open
<1>3. ASSUME \A t \in SubIds : accounts'[t].owner = accounts[t].owner,
             \A r \in RequestIds : Open(r)' => Open(r) /\ requests'[r].subId = requests[r].subId
      PROVE  Behind'
  BY <1>2, <1>3, BehindKept DEF Alive
<1>4. ASSUME requests' = requests
      PROVE  \A r \in RequestIds : Open(r)' => Open(r) /\ requests'[r].subId = requests[r].subId
  BY <1>4 DEF Open, Exists, Closed
<1>5. ASSUME NEW caller \in Addresses, NEW id \in SubIds, NEW n \in WordCounts,
             NEW g \in GasLimits, requestRandomWords(caller, id, n, g)
      PROVE  Behind'
  <2> DEFINE x == IdOf[<<caller, nonces[caller]>>]
  <2>1. /\ x \in RequestIds
        /\ requests' = [requests EXCEPT ![x] =
              [consumer |-> caller, subId |-> id, numWords |-> n, callbackGasLimit |-> g,
               createdAtBlock |-> block, paid |-> price(n, g),
               fulfilled |-> FALSE, refunded |-> FALSE, callbackSucceeded |-> FALSE]]
    BY <1>1, <1>5, NewRequestOk
  <2> HIDE DEF x
  <2>2. /\ \A r \in RequestIds \ {x} : requests'[r] = requests[r]
        /\ requests'[x].subId = id
    BY <1>1, <2>1 DEF RequestsOk
  <2>3. price(n, g) \in Nat /\ price(n, g) >= fees.base /\ fees.base > 0 /\ fees.base \in Nat
    BY <1>1, PriceType, CoordinatorAssumption DEF Priced, FeeInv, FeeTypeOK, Fees
  <2>4. \A t \in SubIds : accounts'[t].owner = accounts[t].owner
    BY <1>1, <1>5, <2>3, MoneyOwners DEF requestRandomWords
  <2>5. Alive(id)
    <3>1. available(id) >= price(n, g)
      BY <1>5 DEF requestRandomWords, reserve
    <3>2. accounts[id].balance \in Nat /\ accounts[id].reserved \in Nat
      BY <1>1, SubscriptionAssumption DEF SubInv, SubTypeOK, Account
    <3>3. accounts[id].balance > 0
      BY <2>3, <3>1, <3>2 DEF available
    <3> QED
      BY <1>1, <3>2, <3>3 DEF SubInv, ClosedIsEmpty
  <2>6. ASSUME NEW r \in RequestIds, Open(r)' PROVE accounts'[requests'[r].subId].owner # NoAddr
    <3>1. CASE r = x
      BY <2>2, <2>4, <2>5, <3>1 DEF Alive
    <3>2. CASE r # x
      <4>1. Open(r) /\ requests'[r].subId = requests[r].subId
        BY <2>2, <2>6, <3>2 DEF Open, Exists, Closed
      <4> QED
        BY <1>2, <2>4, <4>1 DEF Behind, Alive
    <3> QED
      BY <3>1, <3>2
  <2> QED
    BY <2>6 DEF Behind, Alive
<1>6. ASSUME NEW caller \in Publishers, NEW r \in RequestIds, fulfillRandomWords(caller, r)
      PROVE  Behind'
  <2>1. \A t \in SubIds : accounts'[t].owner = accounts[t].owner
    BY <1>1, <1>6, QuoteType, MoneyOwners DEF fulfillRandomWords, Open
  <2>2. \A s \in RequestIds : Open(s)' => Open(s) /\ requests'[s].subId = requests[s].subId
    BY <1>1, <1>6, MarkOpensNone DEF fulfillRandomWords
  <2> QED
    BY <1>3, <2>1, <2>2
<1>7. ASSUME NEW r \in RequestIds, refund(r) PROVE Behind'
  <2>1. \A t \in SubIds : accounts'[t].owner = accounts[t].owner
    BY <1>1, <1>7, QuoteType, MoneyOwners DEF refund, Open
  <2>2. \A s \in RequestIds : Open(s)' => Open(s) /\ requests'[s].subId = requests[s].subId
    BY <1>1, <1>7, MarkOpensNone DEF refund
  <2> QED
    BY <1>3, <2>1, <2>2
<1>8. CASE _settle
  <2> DEFINE x == Head(Top.rest)
  <2>1. /\ stack # <<>> /\ Top.rest # <<>>
        /\ settle(requests[x].subId, requests[x].paid, Top.payee)
        /\ requests' = [requests EXCEPT ![x].fulfilled = TRUE]
    BY <1>8 DEF _settle
  <2>2. x \in RequestIds /\ Exists(x) /\ Top.payee \in Addresses
    BY <1>1, <2>1, NextMember, TopFrame DEF Frame
  <2> HIDE DEF x
  <2>3. \A t \in SubIds : accounts'[t].owner = accounts[t].owner
    BY <1>1, <2>1, <2>2, QuoteType, MoneyOwners
  <2>4. \A s \in RequestIds : Open(s)' => Open(s) /\ requests'[s].subId = requests[s].subId
    BY <1>1, <2>1, <2>2, MarkOpensNone
  <2> QED
    BY <1>3, <2>3, <2>4
<1>9. CASE CallbackReturns
  <2>1. /\ stack # <<>> /\ Top.req # NoRequest /\ UNCHANGED accounts
        /\ requests' = [requests EXCEPT ![Top.req].callbackSucceeded = TRUE]
    BY <1>9 DEF CallbackReturns, subVars
  <2>2. Top.req \in RequestIds
    BY <1>1, <2>1, TopFrame
  <2>3. \A s \in RequestIds : Open(s)' => Open(s) /\ requests'[s].subId = requests[s].subId
    BY <1>1, <2>1, <2>2, MarkOpensNone
  <2> QED
    BY <1>3, <2>1, <2>3
<1>10. ASSUME NEW caller \in Addresses, AccountCall(caller) PROVE Behind'
  <2>1. OwnerApi(caller) /\ requests' = requests
    BY <1>10 DEF AccountCall, reqVars
  <2>2. ASSUME NEW r \in RequestIds, Open(r), Alive(requests[r].subId)
        PROVE  accounts'[requests[r].subId].owner # NoAddr
    <3>1. PICK t \in SubIds : t = requests[r].subId /\ r \in OpenOf(t)
      BY <1>2, <2>2 DEF OpenOf
    <3>2. counters[t].pending # 0
      <4>1. IsFiniteSet(OpenOf(t)) /\ OpenOf(t) # {}
        BY <3>1, FiniteRequests
      <4>2. Cardinality(OpenOf(t)) # 0
        BY <4>1, FS_EmptySet
      <4> QED
        BY <4>2 DEF Books, PendingCountsOpen
    <3>3. Alive(t)'
      BY <1>1, <2>1, <2>2, <3>1, <3>2, StaysAlive
    <3> QED
      BY <3>1, <3>3 DEF Alive
  <2> QED
    BY <1>4, <2>1, <2>2, BehindKept
<1>11. ASSUME UNCHANGED <<reqVars, subVars>> PROVE Behind'
  BY <1>3, <1>4, <1>11 DEF reqVars, subVars
<1> QED
  BY <1>5, <1>6, <1>7, <1>8, <1>9, <1>10, <1>11
  DEF CoordNext, fulfillBatch, retryCallback, AdminCall, Tick, vars

(* Without a free tier nobody walks away from work in flight, and no closed *)
(* account orders more: consumers left in the mapping of a cancelled        *)
(* account are refused by its empty balance.                                *)
THEOREM AccountTheorem ==
  ASSUME QuietBatches, PaidTier PROVE CoordSpec => []OpenHasAccount
<1>1. CoordInit => Priced /\ Behind
  BY DEF CoordInit, FeeInit, Priced, PaidTier, Behind, Open, Exists, EmptyRequest
<1>2. CoordInv /\ Books /\ Priced /\ Behind /\ [CoordNext]_vars => Priced' /\ Behind'
  BY PricedStep, BehindStep
<1>3. Behind => OpenHasAccount
  BY DEF Behind, OpenHasAccount
<1> QED
  BY <1>1, <1>2, <1>3, BatchTheorem, BooksTheorem, CoordInvariant, PTL DEF CoordSpec
=============================================================================

----------------------------- MODULE NodeProofs -----------------------------
(***************************************************************************)
(* The daemons' safety for any number of operators and requests, any bounds *)
(* and any faults: the invariant is a conjunction with one part for each    *)
(* group of variables, so that an action is proved only for the groups it   *)
(* writes.                                                                  *)
(***************************************************************************)
EXTENDS Node, SequenceTheorems, FiniteSetTheorems, TLAPS

-----------------------------------------------------------------------------
(* Sessions. *)

SessionOk(s) ==
  /\ s \in Sessions
  /\ \A p \in s.partials : p.sig = "good" /\ p.index \in s.spent
  /\ s.verifications = Cardinality(s.spent)

(* A threshold of verified shares of different operators. *)
IsQuorum(shares) ==
  /\ \A p \in shares : p.sig = "good"
  /\ Cardinality({p.index : p \in shares}) >= Threshold

(* An empty session has verified nothing. *)
LEMMA NewSessionOk == SessionOk(NewSession)
BY FS_EmptySet DEF SessionOk, NewSession, Sessions, NoIndex

(* Whatever share comes, Add files only verified ones, one for each         *)
(* operator, and counts every operator it verified once. *)
LEMMA AddOk ==
  ASSUME NEW s, SessionOk(s), NEW p \in Share
  PROVE  SessionOk(Add(s, p))
<1>1. /\ s.partials \in SUBSET Share /\ s.spent \in SUBSET Indices
      /\ s.equivocation \in Indices \cup {NoIndex} /\ s.verifications \in Nat
      /\ p.index \in Indices
  BY DEF SessionOk, Sessions, Share
<1>2. IsFiniteSet(Indices)
  BY FS_Interval, GroupAssumption DEF Indices
<1>3. IsFiniteSet(s.spent)
  BY <1>1, <1>2, FS_Subset
<1>4. CASE Known(s, p)
  <2>1. p.index \in s.spent
    BY <1>4 DEF Known, SessionOk
  <2>2. s.spent \cup {p.index} = s.spent
    BY <2>1
  <2>3. CASE SameShare(s, p)
    BY <1>4, <2>3 DEF Add
  <2>4. CASE ~SameShare(s, p)
    BY <1>1, <1>4, <2>2, <2>4 DEF Add, recordEquivocation, SessionOk, Sessions
  <2> QED
    BY <2>3, <2>4
<1>5. CASE ~Known(s, p) /\ p.index \in s.spent
  BY <1>5 DEF Add
<1>6. CASE ~Known(s, p) /\ p.index \notin s.spent
  <2>1. Cardinality(s.spent \cup {p.index}) = Cardinality(s.spent) + 1
    BY <1>3, <1>6, FS_AddElement
  <2> DEFINE kept == IF VerifyPartial(p) THEN s.partials \cup {p} ELSE s.partials
             t == Add(s, p)
  <2>2. t = [s EXCEPT !.spent = @ \cup {p.index}, !.verifications = @ + 1, !.partials = kept]
    BY <1>6 DEF Add
  <2>3. kept \in SUBSET Share /\ s.spent \cup {p.index} \in SUBSET Indices
    BY <1>1
  <2>4. \A e \in kept : e.sig = "good" /\ e.index \in s.spent \cup {p.index}
    BY DEF VerifyPartial, SessionOk
  <2> HIDE DEF kept
  <2>5. t \in Sessions
    <3>1. t = [partials |-> kept, spent |-> s.spent \cup {p.index},
               equivocation |-> s.equivocation, verifications |-> s.verifications + 1]
      BY <2>2 DEF SessionOk, Sessions
    <3>2. s.verifications + 1 \in Nat
      BY <1>1
    <3> HIDE DEF t
    <3> QED
      BY <1>1, <2>3, <3>1, <3>2 DEF Sessions
  <2>6. /\ t.partials = kept /\ t.spent = s.spent \cup {p.index}
        /\ t.verifications = s.verifications + 1
    BY <2>2 DEF SessionOk, Sessions
  <2> HIDE DEF t
  <2>7. SessionOk(t)
    BY <2>1, <2>4, <2>5, <2>6 DEF SessionOk
  <2> QED
    BY <2>7 DEF t
<1> QED
  BY <1>4, <1>5, <1>6

(* The shares of a session that counts as ready are a quorum: counting      *)
(* shares counts operators. *)
LEMMA ReadyIsQuorum ==
  ASSUME NEW s, SessionOk(s), Ready(s)
  PROVE  IsQuorum(Signature(s)) /\ Signature(s) \in SUBSET Share
<1> DEFINE F == [p \in s.partials |-> p.index]
           I == {p.index : p \in s.partials}
<1>1. s.partials \in SUBSET Share /\ \A p \in s.partials : p.sig = "good"
  BY DEF SessionOk, Sessions
<1>2. \A p, q \in s.partials : p.index = q.index => p = q
  BY <1>1 DEF Share
<1>3. F \in Injection(s.partials, I)
  BY <1>2 DEF Injection, IsInjective
<1>4. F \in Surjection(s.partials, I)
  BY DEF Surjection
<1>5. I \in SUBSET Indices
  BY <1>1 DEF Share
<1>6. IsFiniteSet(I)
  <2>1. IsFiniteSet(Indices)
    BY FS_Interval, GroupAssumption DEF Indices
  <2> HIDE DEF I
  <2> QED
    BY <1>5, <2>1, FS_Subset
<1>7. Cardinality(s.partials) = Cardinality(I)
  BY <1>3, <1>4, <1>6, FS_Injection
<1> QED
  BY <1>1, <1>7 DEF IsQuorum, Signature, Ready, Collected

-----------------------------------------------------------------------------
(* The invariant, one part for each group of variables. *)

ChainOk ==
  /\ log \in Seq([event : {"requested", "fulfilled"}, req : Requests])
  /\ status \in [Requests -> {"none", "open", "fulfilled", "refunded"}]
  /\ txs \subseteq [from : Live, req : Requests, signers : SUBSET Share]
  /\ \A tx \in txs : IsQuorum(tx.signers)
  /\ \A i \in 1..Len(log) : log[i].event = "fulfilled" => status[log[i].req] = "fulfilled"

TaskOk ==
  /\ task \in [Live -> [Requests -> Steps]]
  /\ held \in [Live -> [Requests -> Seq(Share)]]
  /\ attempt \in [Live -> [Requests -> 0..RebroadcastAttempts]]

SessOk ==
  /\ sessions \in [Live -> SUBSET Requests]
  /\ sess \in [Live -> [Requests -> Sessions]]
  /\ \A v \in Live, q \in Requests : SessionOk(sess[v][q])

(* The publisher of a request holds a quorum until it is done, is recorded  *)
(* in published from its start, and each of its transactions but the last   *)
(* has cost it an attempt. *)
PublisherOk(v, q) ==
  /\ q \in published[v] <=> pub[v][q] # "none"
  /\ pub[v][q] \in {"none", "turn"} => sent[v][q] = 0
  /\ pub[v][q] = "send" => sent[v][q] <= sends[v][q]
  /\ sent[v][q] <= 1 + sends[v][q]
  /\ pub[v][q] \in {"turn", "send", "retry"} => IsQuorum(signers[v][q])
  /\ pub[v][q] = "retry" => sends[v][q] < SendRetries

PubOk ==
  /\ published \in [Live -> SUBSET Requests]
  /\ pub \in [Live -> [Requests -> {"none", "turn", "send", "retry", "done"}]]
  /\ sends \in [Live -> [Requests -> 0..SendRetries]]
  /\ signers \in [Live -> [Requests -> SUBSET Share]]
  /\ sent \in [Live -> [Requests -> Nat]]
  /\ \A v \in Live, q \in Requests : PublisherOk(v, q)

(* ParkedExact, of one node's list and table. *)
Exact(order, table) ==
  /\ Range1(order) = {q \in Requests : table[q] # <<>>}
  /\ \A i, j \in 1..Len(order) : order[i] = order[j] => i = j
  /\ Len(order) <= MaxParkedRequests
  /\ \A q \in Requests : Len(table[q]) <= Operators

ParkOk ==
  /\ parked \in [Live -> [Requests -> Seq(Share)]]
  /\ parkedOrder \in [Live -> Seq(Requests)]
  /\ \A v \in Live : Exact(parkedOrder[v], parked[v])

(* SettledExact, of one node's memory. *)
MemoryOk(order) ==
  /\ \A i, j \in 1..Len(order) : order[i] = order[j] => i = j
  /\ Len(order) <= MaxSettledMemory

(* A scan stays within the log. *)
NextOk ==
  /\ next \in [Live -> Nat] /\ head \in [Live -> Nat] /\ cursor \in [Live -> Nat]
  /\ settledOrder \in [Live -> Seq(Requests)]
  /\ \A v \in Live : 1 <= next[v] /\ next[v] <= cursor[v] /\ head[v] <= Len(log)
  /\ \A v \in Live : MemoryOk(settledOrder[v])
  /\ \A v \in Live : \A q \in settled(v) : status[q] = "fulfilled"

PostOk == posts \subseteq Post

BudgetOk ==
  /\ budget \in [{"losses", "refusals", "restarts", "faulty"} -> Nat]
  /\ forged \subseteq Indices

NodeInv ==
  ChainOk /\ TaskOk /\ SessOk /\ PubOk /\ ParkOk /\ NextOk /\ PostOk /\ BudgetOk

(* A part is kept by a step that leaves its variables alone. *)
LEMMA ChainSame == ChainOk /\ UNCHANGED chainVars => ChainOk'
BY DEF ChainOk, chainVars

(* The same for the tasks. *)
LEMMA TaskSame == TaskOk /\ UNCHANGED taskVars => TaskOk'
BY DEF TaskOk, taskVars

(* The same for the sessions. *)
LEMMA SessSame == SessOk /\ UNCHANGED sessVars => SessOk'
BY DEF SessOk, sessVars

(* The same for the publishers. *)
LEMMA PubSame == PubOk /\ UNCHANGED pubVars => PubOk'
BY DEF PubOk, PublisherOk, pubVars

(* The same for the parked shares. *)
LEMMA ParkSame == ParkOk /\ UNCHANGED parkVars => ParkOk'
BY DEF ParkOk, parkVars

(* The same for the place in the log. *)
LEMMA NextSame == NextOk /\ UNCHANGED watchVars /\ UNCHANGED <<log, status>> => NextOk'
BY DEF NextOk, watchVars, settled

(* So do steps of the daemons, which leave the whole chain alone. *)
LEMMA NextSteady == NextOk /\ UNCHANGED watchVars /\ UNCHANGED chainVars => NextOk'
BY NextSame DEF chainVars

(* The same for the posts. *)
LEMMA PostSame == PostOk /\ UNCHANGED posts => PostOk'
BY DEF PostOk

(* The same for the faults to come. *)
LEMMA BudgetSame == BudgetOk /\ UNCHANGED faultVars => BudgetOk'
BY DEF BudgetOk, faultVars

(* A fault that is spent leaves a budget. *)
LEMMA SpendOk ==
  ASSUME BudgetOk, NEW kind \in {"losses", "refusals", "restarts", "faulty"}, Spend(kind)
  PROVE  BudgetOk'
BY DEF BudgetOk, Spend

(* The operators start with nothing. *)
LEMMA NodeInitInv == NodeInit => NodeInv
<1> SUFFICES ASSUME NodeInit PROVE NodeInv
  OBVIOUS
<1> USE DEF NodeInit, PerRequest
<1>1. ChainOk
  BY DEF ChainOk
<1>2. TaskOk
  BY NodeAssumption DEF TaskOk, Steps
<1>3. SessOk
  BY NewSessionOk DEF SessOk, SessionOk
<1>4. PubOk
  BY NodeAssumption DEF PubOk, PublisherOk
<1>5. ParkOk
  <2>1. \A v \in Live : parkedOrder[v] = <<>> /\ parked[v] = [q \in Requests |-> <<>>]
    OBVIOUS
  <2>2. \A v \in Live : Exact(parkedOrder[v], parked[v])
    BY <2>1, NodeAssumption, GroupAssumption DEF Exact, Range1
  <2>3. <<>> \in Seq(Share) /\ <<>> \in Seq(Requests)
    BY EmptySeq
  <2>4. parked \in [Live -> [Requests -> Seq(Share)]] /\ parkedOrder \in [Live -> Seq(Requests)]
    BY <2>3
  <2> QED
    BY <2>2, <2>4 DEF ParkOk
<1>6. NextOk /\ PostOk
  <2>1. <<>> \in Seq(Requests) /\ Len(<<>>) = 0
    BY EmptySeq
  <2>2. \A v \in Live : settledOrder[v] = <<>> /\ settled(v) = {}
    BY DEF settled, Range1
  <2> QED
    BY <2>1, <2>2, NodeAssumption DEF NextOk, MemoryOk, PostOk
<1>7. BudgetOk
  BY NodeAssumption DEF BudgetOk
<1> QED
  BY <1>1, <1>2, <1>3, <1>4, <1>5, <1>6, <1>7 DEF NodeInv

-----------------------------------------------------------------------------
(* The chain. *)

(* Requests, refunds and mined transactions keep the log a log, and add no  *)
(* transaction. *)
LEMMA ChainKeeps ==
  ASSUME NodeInv,
         \/ \E q \in Requests : RequestMade(q) \/ Refunded(q)
         \/ \E tx \in txs : Mined(tx)
  PROVE  NodeInv'
<1> DEFINE Events == [event : {"requested", "fulfilled"}, req : Requests]
<1>0. ChainOk /\ TaskOk /\ SessOk /\ PubOk /\ ParkOk /\ NextOk /\ PostOk /\ BudgetOk
  BY DEF NodeInv
<1>1. /\ txs' \subseteq txs
      /\ status' \in [Requests -> {"none", "open", "fulfilled", "refunded"}]
      /\ \A q \in Requests : status[q] = "fulfilled" => status'[q] = "fulfilled"
      /\ \/ log' = log
         \/ \E e \in Events : /\ log' = Append(log, e)
                              /\ e.event = "fulfilled" => status'[e.req] = "fulfilled"
  <2>1. ASSUME NEW q \in Requests, RequestMade(q) PROVE <1>1!:
    <3>1. [event |-> "requested", req |-> q] \in Events
      OBVIOUS
    <3> QED
      BY <1>0, <2>1, <3>1 DEF ChainOk, RequestMade
  <2>2. ASSUME NEW q \in Requests, Refunded(q) PROVE <1>1!:
    BY <1>0, <2>2 DEF ChainOk, Refunded
  <2>3. ASSUME NEW tx \in txs, Mined(tx) PROVE <1>1!:
    <3>1. tx.req \in Requests
      BY <1>0 DEF ChainOk
    <3>2. [event |-> "fulfilled", req |-> tx.req] \in Events
      BY <3>1
    <3> QED
      BY <1>0, <2>3, <3>1, <3>2 DEF ChainOk, Mined
  <2> QED
    BY <2>1, <2>2, <2>3
<1>2. /\ log' \in Seq(Events) /\ Len(log) <= Len(log')
      /\ \A i \in 1..Len(log') :
           log'[i].event = "fulfilled" => status'[log'[i].req] = "fulfilled"
  <2>1. log \in Seq(Events) /\ Len(log) \in Nat /\ \A i \in 1..Len(log) : log[i].req \in Requests
    <3>1. log \in Seq(Events)
      BY <1>0 DEF ChainOk
    <3>2. \A i \in 1..Len(log) : log[i] \in Events
      BY <3>1, ElementOfSeq
    <3> QED
      BY <3>1, <3>2, LenProperties
  <2>2. CASE log' = log
    BY <1>0, <1>1, <2>1, <2>2 DEF ChainOk
  <2>3. ASSUME NEW e \in Events, log' = Append(log, e),
               e.event = "fulfilled" => status'[e.req] = "fulfilled"
        PROVE  <1>2!:
    <3>1. /\ log' \in Seq(Events) /\ Len(log') = Len(log) + 1
          /\ \A i \in 1..Len(log) : log'[i] = log[i]
          /\ log'[Len(log) + 1] = e
      BY <2>1, <2>3, AppendProperties
    <3> HIDE DEF Events
    <3>2. ASSUME NEW i \in 1..Len(log'), log'[i].event = "fulfilled"
          PROVE  status'[log'[i].req] = "fulfilled"
      <4>1. CASE i \in 1..Len(log)
        BY <1>0, <1>1, <2>1, <3>1, <3>2, <4>1 DEF ChainOk
      <4>2. CASE i = Len(log) + 1
        BY <2>3, <3>1, <3>2, <4>2
      <4> QED
        BY <2>1, <3>1, <4>1, <4>2
    <3> QED
      BY <2>1, <3>1, <3>2
  <2> QED
    BY <1>1, <2>2, <2>3
<1>3. UNCHANGED <<taskVars, pubVars, sessVars, parkVars, watchVars, posts, faultVars>>
  BY DEF RequestMade, Refunded, Mined
<1>4. ChainOk'
  <2>1. txs' \subseteq [from : Live, req : Requests, signers : SUBSET Share]
    BY <1>0, <1>1 DEF ChainOk
  <2>2. \A tx \in txs' : IsQuorum(tx.signers)
    BY <1>0, <1>1 DEF ChainOk
  <2> QED
    BY <1>1, <1>2, <2>1, <2>2 DEF ChainOk
<1>5. NextOk'
  <2>1. UNCHANGED <<next, head, cursor, settledOrder>>
    BY <1>3 DEF watchVars
  <2>2. \A v \in Live : settled(v)' = settled(v) /\ settled(v) \subseteq Requests
    BY <1>0, <2>1, ElementOfSeq DEF NextOk, settled, Range1
  <2>3. \A v \in Live : head[v] <= Len(log')
    <3>1. Len(log) \in Nat /\ Len(log') \in Nat
      BY <1>0, <1>2, LenProperties DEF ChainOk
    <3> QED
      BY <1>0, <1>2, <3>1 DEF NextOk
  <2> QED
    BY <1>0, <1>1, <2>1, <2>2, <2>3 DEF NextOk
<1> QED
  BY <1>0, <1>3, <1>4, <1>5, TaskSame, SessSame, PubSame, ParkSame, PostSame, BudgetSame
  DEF NodeInv

-----------------------------------------------------------------------------
(* The watch loop. *)

(* Remembering a request keeps the memory in order. *)
LEMMA RememberOk ==
  ASSUME NEW order \in Seq(Requests), MemoryOk(order), NEW id \in Requests
  PROVE  /\ Remember(order, id) \in Seq(Requests)
         /\ MemoryOk(Remember(order, id))
         /\ Range1(Remember(order, id)) \subseteq Range1(order) \cup {id}
<1>0. Len(order) \in Nat /\ MaxSettledMemory \in Nat /\ 1 <= MaxSettledMemory
  BY LenProperties, NodeAssumption
<1>1. CASE id \in Range1(order)
  BY <1>1 DEF Remember
<1>2. CASE id \notin Range1(order) /\ Len(order) < MaxSettledMemory
  <2> DEFINE new == Append(order, id)
  <2>1. Remember(order, id) = new
    BY <1>2 DEF Remember
  <2>2. /\ new \in Seq(Requests) /\ Len(new) = Len(order) + 1
        /\ \A i \in 1..Len(order) : new[i] = order[i]
        /\ new[Len(order) + 1] = id
    BY AppendProperties
  <2> HIDE DEF new
  <2> QED
    BY <1>0, <1>2, <2>1, <2>2 DEF MemoryOk, Range1
<1>3. CASE id \notin Range1(order) /\ ~(Len(order) < MaxSettledMemory)
  <2> DEFINE rest == Tail(order)
             new == Append(rest, id)
  <2>1. Remember(order, id) = new
    BY <1>3 DEF Remember
  <2>2. Len(order) = MaxSettledMemory /\ order # <<>>
    BY <1>0, <1>3, EmptySeq DEF MemoryOk
  <2>3. /\ rest \in Seq(Requests) /\ Len(rest) = Len(order) - 1
        /\ \A i \in 1..Len(rest) : rest[i] = order[i + 1]
    BY <2>2, HeadTailProperties
  <2> HIDE DEF rest
  <2>4. /\ new \in Seq(Requests) /\ Len(new) = Len(rest) + 1
        /\ \A i \in 1..Len(rest) : new[i] = rest[i]
        /\ new[Len(rest) + 1] = id
    BY <2>3, AppendProperties
  <2> HIDE DEF new
  <2>5. Len(new) = Len(order) /\ new[Len(order)] = id
        /\ \A i \in 1..(Len(order) - 1) : new[i] = order[i + 1]
    BY <1>0, <2>3, <2>4
  <2>6. Range1(new) \subseteq Range1(order) \cup {id}
    BY <1>0, <2>5 DEF Range1
  <2>7. MemoryOk(new)
    <3>1. ASSUME NEW i \in 1..Len(new), NEW j \in 1..Len(new), new[i] = new[j] PROVE i = j
      <4>1. CASE i = Len(order) /\ j # Len(order)
        BY <1>0, <1>3, <2>5, <3>1, <4>1 DEF Range1
      <4>2. CASE j = Len(order) /\ i # Len(order)
        BY <1>0, <1>3, <2>5, <3>1, <4>2 DEF Range1
      <4>3. CASE i # Len(order) /\ j # Len(order)
        BY <1>0, <2>5, <3>1, <4>3 DEF MemoryOk
      <4> QED
        BY <4>1, <4>2, <4>3
    <3> QED
      BY <1>0, <2>2, <2>5, <3>1 DEF MemoryOk
  <2> QED
    BY <2>1, <2>4, <2>6, <2>7
<1> QED
  BY <1>1, <1>2, <1>3

(* Going on with a scan moves within the log, and starts goroutines. *)
LEMMA HandOverOk ==
  ASSUME ChainOk, TaskOk, NextOk, NEW v \in Live, NEW from \in Nat, NEW last \in Nat,
         next[v] <= from, next[v] <= last, last <= Len(log),
         HandOver(v, from, last), UNCHANGED <<log, held, attempt>>
  PROVE  /\ TaskOk'
         /\ next' \in [Live -> Nat] /\ head' \in [Live -> Nat] /\ cursor' \in [Live -> Nat]
         /\ \A u \in Live : 1 <= next'[u] /\ next'[u] <= cursor'[u] /\ head'[u] <= Len(log')
<1>0. next \in [Live -> Nat] /\ head \in [Live -> Nat] /\ cursor \in [Live -> Nat]
      /\ \A u \in Live : 1 <= next[u] /\ next[u] <= cursor[u] /\ head[u] <= Len(log)
  BY DEF NextOk
<1>1. head' = [head EXCEPT ![v] = last]
  BY DEF HandOver
<1>2. CASE Fulfilments(from, last) # {}
  <2>1. cursor' = [cursor EXCEPT ![v] = from] /\ UNCHANGED <<next, task>>
    BY <1>2 DEF HandOver
  <2>2. TaskOk'
    BY <2>1 DEF TaskOk
  <2> QED
    BY <1>0, <1>1, <2>1, <2>2
<1>3. CASE Fulfilments(from, last) = {}
  <2> DEFINE asked == Asked(next[v], last)
             now == [q \in Requests |-> IF q \in asked THEN "seen" ELSE task[v][q]]
  <2>1. cursor' = [cursor EXCEPT ![v] = last + 1] /\ next' = [next EXCEPT ![v] = last + 1]
    BY <1>3 DEF HandOver
  <2>2. task' = [task EXCEPT ![v] = now]
    BY <1>3 DEF HandOver, TaskOk
  <2> HIDE DEF asked
  <2>3. now \in [Requests -> Steps]
    BY DEF TaskOk, Steps
  <2> HIDE DEF now
  <2>4. task' \in [Live -> [Requests -> Steps]]
    BY <2>2, <2>3 DEF TaskOk
  <2>5. TaskOk'
    BY <2>4 DEF TaskOk
  <2> QED
    BY <1>0, <1>1, <2>1, <2>5
<1> QED
  BY <1>2, <1>3

(* A report remembers what the chain fulfilled. *)
LEMMA OnFulfilledOk ==
  ASSUME ChainOk, TaskOk, NextOk, NEW v \in Live, NEW from \in Nat, NEW last \in Nat,
         next[v] <= from, last <= Len(log),
         OnFulfilled(v, from, last), UNCHANGED <<log, status, held, attempt>>
  PROVE  TaskOk' /\ NextOk'
<1>1. PICK i \in Fulfilments(from, last) :
        /\ settledOrder' = [settledOrder EXCEPT ![v] = Remember(@, log[i].req)]
        /\ HandOver(v, i + 1, last)
  BY DEF OnFulfilled
<1>2. next \in [Live -> Nat] /\ settledOrder \in [Live -> Seq(Requests)] /\ 1 <= next[v]
  BY DEF NextOk
<1>3. /\ i \in Nat /\ 1 <= i /\ next[v] <= i /\ i <= last /\ log[i].event = "fulfilled"
      /\ Len(log) \in Nat
  BY <1>2, LenProperties DEF Fulfilments, ChainOk
<1> DEFINE id == log[i].req
           new == Remember(settledOrder[v], id)
<1>4. id \in Requests /\ status[id] = "fulfilled"
  <2>1. i \in 1..Len(log)
    BY <1>3
  <2>2. log[i] \in [event : {"requested", "fulfilled"}, req : Requests]
    BY <2>1, ElementOfSeq DEF ChainOk
  <2> QED
    BY <1>3, <2>1, <2>2 DEF ChainOk
<1>5. /\ new \in Seq(Requests) /\ MemoryOk(new)
      /\ Range1(new) \subseteq Range1(settledOrder[v]) \cup {id}
  <2>1. settledOrder[v] \in Seq(Requests) /\ MemoryOk(settledOrder[v])
    BY DEF NextOk
  <2> HIDE DEF id
  <2> QED
    BY <1>4, <2>1, RememberOk
<1>6. settledOrder' = [settledOrder EXCEPT ![v] = new]
  BY <1>1, <1>2
<1> HIDE DEF id, new
<1>7. /\ TaskOk'
      /\ next' \in [Live -> Nat] /\ head' \in [Live -> Nat] /\ cursor' \in [Live -> Nat]
      /\ \A u \in Live : 1 <= next'[u] /\ next'[u] <= cursor'[u] /\ head'[u] <= Len(log')
  <2>1. i + 1 \in Nat /\ next[v] <= i + 1 /\ next[v] <= last
    BY <1>2, <1>3
  <2> QED
    BY <1>1, <2>1, HandOverOk
<1>8. settledOrder' \in [Live -> Seq(Requests)]
  BY <1>2, <1>5, <1>6
<1>9. ASSUME NEW u \in Live
      PROVE  MemoryOk(settledOrder'[u]) /\ \A q \in settled(u)' : status'[q] = "fulfilled"
  <2>1. MemoryOk(settledOrder[u]) /\ \A q \in Range1(settledOrder[u]) : status[q] = "fulfilled"
    BY DEF NextOk, settled
  <2>2. CASE u = v
    <3>1. settledOrder'[u] = new
      BY <1>2, <1>6, <2>2
    <3> QED
      BY <1>4, <1>5, <2>1, <2>2, <3>1 DEF settled
  <2>3. CASE u # v
    <3>1. settledOrder'[u] = settledOrder[u]
      BY <1>2, <1>6, <2>3
    <3> QED
      BY <2>1, <3>1 DEF settled
  <2> QED
    BY <2>2, <2>3
<1> QED
  BY <1>7, <1>8, <1>9 DEF NextOk

(* A poll reads a part of the log. *)
LEMMA PollKeeps ==
  ASSUME NodeInv, NEW v \in Live, Poll(v)
  PROVE  NodeInv'
<1>0. ChainOk /\ TaskOk /\ SessOk /\ PubOk /\ ParkOk /\ NextOk /\ PostOk /\ BudgetOk
  BY DEF NodeInv
<1>1. UNCHANGED <<chainVars, held, attempt, pubVars, sessVars, parkVars, posts, faultVars>>
      /\ UNCHANGED <<log, status>>
  BY DEF Poll, chainVars
<1>2. PICK last \in next[v]..Len(log) :
        \/ OnFulfilled(v, next[v], last)
        \/ HandOver(v, next[v], last) /\ UNCHANGED settledOrder
  BY DEF Poll
<1>3. next[v] \in Nat /\ last \in Nat /\ next[v] <= last /\ last <= Len(log)
  <2>1. next[v] \in Nat /\ Len(log) \in Nat
    BY <1>0, LenProperties DEF NextOk, ChainOk
  <2> QED
    BY <2>1
<1>4. TaskOk' /\ NextOk'
  <2>1. CASE OnFulfilled(v, next[v], last)
    BY <1>0, <1>1, <1>3, <2>1, OnFulfilledOk
  <2>2. CASE HandOver(v, next[v], last) /\ UNCHANGED settledOrder
    <3>1. /\ TaskOk'
          /\ next' \in [Live -> Nat] /\ head' \in [Live -> Nat] /\ cursor' \in [Live -> Nat]
          /\ \A u \in Live : 1 <= next'[u] /\ next'[u] <= cursor'[u] /\ head'[u] <= Len(log')
      BY <1>0, <1>1, <1>3, <2>2, HandOverOk
    <3> QED
      BY <1>0, <1>1, <2>2, <3>1 DEF NextOk, settled
  <2> QED
    BY <1>2, <2>1, <2>2
<1> QED
  BY <1>0, <1>1, <1>4, ChainSame, SessSame, PubSame, ParkSame, PostSame, BudgetSame DEF NodeInv

(* So does each further report of the same scan. *)
LEMMA ReportKeeps ==
  ASSUME NodeInv, NEW v \in Live, Report(v)
  PROVE  NodeInv'
<1>0. ChainOk /\ TaskOk /\ SessOk /\ PubOk /\ ParkOk /\ NextOk /\ PostOk /\ BudgetOk
  BY DEF NodeInv
<1>1. UNCHANGED <<chainVars, held, attempt, pubVars, sessVars, parkVars, posts, faultVars>>
      /\ UNCHANGED <<log, status>>
  BY DEF Report, chainVars
<1>2. TaskOk' /\ NextOk'
  <2>1. cursor[v] \in Nat /\ head[v] \in Nat /\ next[v] <= cursor[v] /\ head[v] <= Len(log)
    BY <1>0 DEF NextOk
  <2> QED
    BY <1>0, <1>1, <2>1, OnFulfilledOk DEF Report
<1> QED
  BY <1>0, <1>1, <1>2, ChainSame, SessSame, PubSame, ParkSame, PostSame, BudgetSame DEF NodeInv

-----------------------------------------------------------------------------
(* OnRequest. *)

(* A publisher starts with the quorum the session has. *)
LEMMA MaybePublishOk ==
  ASSUME PubOk, NEW v \in Live, NEW q \in Requests, NEW s, SessionOk(s),
         maybePublish(v, q, s)
  PROVE  PubOk'
<1>1. CASE Ready(s) /\ q \notin published[v]
  <2>1. IsQuorum(Signature(s)) /\ Signature(s) \in SUBSET Share
    BY <1>1, ReadyIsQuorum
  <2>2. /\ published' = [published EXCEPT ![v] = @ \cup {q}]
        /\ pub' = [pub EXCEPT ![v][q] = "turn"]
        /\ signers' = [signers EXCEPT ![v][q] = Signature(s)]
        /\ sends' = sends /\ sent' = sent
    BY <1>1 DEF maybePublish
  <2>3. /\ published' \in [Live -> SUBSET Requests]
        /\ pub' \in [Live -> [Requests -> {"none", "turn", "send", "retry", "done"}]]
        /\ signers' \in [Live -> [Requests -> SUBSET Share]]
    BY <2>1, <2>2 DEF PubOk
  <2>4. ASSUME NEW u \in Live, NEW r \in Requests PROVE PublisherOk(u, r)'
    <3>1. CASE u = v /\ r = q
      BY <1>1, <2>1, <2>2, <3>1 DEF PubOk, PublisherOk
    <3>2. CASE ~(u = v /\ r = q)
      BY <2>2, <3>2 DEF PubOk, PublisherOk
    <3> QED
      BY <3>1, <3>2
  <2> QED
    BY <2>2, <2>3, <2>4 DEF PubOk
<1>2. CASE ~(Ready(s) /\ q \notin published[v])
  BY <1>2, PubSame DEF maybePublish
<1> QED
  BY <1>1, <1>2

(* Own shares are shares. *)
LEMMA OwnShareType ==
  ASSUME NEW v \in Live
  PROVE  OwnShare(v) \in Share
BY NodeAssumption DEF OwnShare, Share

(* Posting one's share to the peers posts shares. *)
LEMMA PostsOfType ==
  ASSUME NEW v \in Live, NEW q \in Requests
  PROVE  PostsOf(v, q) \subseteq Post
BY OwnShareType DEF PostsOf, Post

(* Filing a share in one session keeps all sessions. *)
LEMMA FileOk ==
  ASSUME SessOk, NEW v \in Live, NEW q \in Requests, NEW p \in Share,
         sess' = [sess EXCEPT ![v][q] = Add(@, p)], UNCHANGED sessions
  PROVE  SessOk'
<1>1. SessionOk(Add(sess[v][q], p)) /\ Add(sess[v][q], p) \in Sessions
  BY AddOk DEF SessOk, SessionOk
<1>2. sess' = [sess EXCEPT ![v][q] = Add(sess[v][q], p)]
  BY DEF SessOk
<1>3. sess' \in [Live -> [Requests -> Sessions]]
  BY <1>1, <1>2 DEF SessOk
<1>4. \A u \in Live, r \in Requests : SessionOk(sess'[u][r])
  BY <1>1, <1>2 DEF SessOk
<1> QED
  BY <1>3, <1>4 DEF SessOk

(* A task moves to another of its steps. *)
LEMMA TaskMoves ==
  ASSUME TaskOk, NEW v \in Live, NEW q \in Requests, NEW step \in Steps,
         task' = [task EXCEPT ![v][q] = step], UNCHANGED <<held, attempt>>
  PROVE  TaskOk'
BY DEF TaskOk

(* Opening a session and signing. *)
LEMMA SignKeeps ==
  ASSUME NodeInv, NEW v \in Live, NEW q \in Requests, sessionFor(v, q) \/ Sign(v, q)
  PROVE  NodeInv'
<1>0. ChainOk /\ TaskOk /\ SessOk /\ PubOk /\ ParkOk /\ NextOk /\ PostOk /\ BudgetOk
  BY DEF NodeInv
<1>1. TaskOk'
  <2>1. \E step \in Steps : task' = [task EXCEPT ![v][q] = step]
    <3>1. CASE sessionFor(v, q)
      BY <3>1 DEF sessionFor, Steps
    <3>2. CASE Sign(v, q)
      BY <3>2 DEF Sign, Steps
    <3> QED
      BY <3>1, <3>2
  <2>2. UNCHANGED <<held, attempt>>
    BY DEF sessionFor, Sign
  <2> QED
    BY <1>0, <2>1, <2>2, TaskMoves
<1>2. SessOk'
  <2>1. CASE sessionFor(v, q)
    BY <1>0, <2>1 DEF sessionFor, SessOk
  <2>2. CASE Sign(v, q)
    BY <1>0, <2>2, FileOk, OwnShareType DEF Sign
  <2> QED
    BY <2>1, <2>2
<1>3. UNCHANGED <<chainVars, pubVars, parkVars, watchVars, posts, faultVars>>
  BY DEF sessionFor, Sign
<1> QED
  BY <1>0, <1>1, <1>2, <1>3, ChainSame, PubSame, ParkSame, NextSteady, PostSame, BudgetSame
  DEF NodeInv

(* A held share is filed like any other. *)
LEMMA FileHeldKeeps ==
  ASSUME NodeInv, NEW v \in Live, NEW q \in Requests, FileHeld(v, q)
  PROVE  NodeInv'
<1>0. ChainOk /\ TaskOk /\ SessOk /\ PubOk /\ ParkOk /\ NextOk /\ PostOk /\ BudgetOk
  BY DEF NodeInv
<1>1. /\ held[v][q] \in Seq(Share) /\ held[v][q] # <<>>
      /\ Head(held[v][q]) \in Share /\ Tail(held[v][q]) \in Seq(Share)
  BY <1>0, HeadTailProperties DEF TaskOk, FileHeld
<1>2. TaskOk'
  <2>1. held' = [held EXCEPT ![v][q] = Tail(held[v][q])]
    BY <1>0 DEF FileHeld, TaskOk
  <2>2. held' \in [Live -> [Requests -> Seq(Share)]]
    BY <1>0, <1>1, <2>1 DEF TaskOk
  <2> QED
    BY <1>0, <2>2 DEF FileHeld, TaskOk
<1>3. SessOk'
  <2>1. CASE Head(held[v][q]).sig = "other"
    BY <1>0, <2>1, SessSame DEF FileHeld, sessVars
  <2>2. CASE Head(held[v][q]).sig # "other"
    BY <1>0, <1>1, <2>2, FileOk DEF FileHeld
  <2> QED
    BY <2>1, <2>2
<1>4. UNCHANGED <<chainVars, pubVars, parkVars, watchVars, posts, faultVars>>
  BY DEF FileHeld
<1> QED
  BY <1>0, <1>2, <1>3, <1>4, ChainSame, PubSame, ParkSame, NextSteady, PostSame, BudgetSame
  DEF NodeInv

(* Broadcasting, again and again, until the session is ready or its         *)
(* attempts are used up. *)
LEMMA BroadcastKeeps ==
  ASSUME NodeInv, NEW v \in Live, NEW q \in Requests, Broadcast(v, q) \/ chaseQuorum(v, q)
  PROVE  NodeInv'
<1>0. ChainOk /\ TaskOk /\ SessOk /\ PubOk /\ ParkOk /\ NextOk /\ PostOk /\ BudgetOk
  BY DEF NodeInv
<1>1. TaskOk'
  <2>1. CASE Broadcast(v, q)
    BY <1>0, <2>1 DEF Broadcast, TaskOk, Steps
  <2>2. CASE chaseQuorum(v, q) /\ StillShort(v, q)
    <3>1. attempt[v][q] + 1 \in 0..RebroadcastAttempts
      BY <1>0, <2>2, NodeAssumption DEF StillShort, TaskOk
    <3>2. attempt' = [attempt EXCEPT ![v][q] = attempt[v][q] + 1]
      BY <1>0, <2>2 DEF chaseQuorum, TaskOk
    <3> QED
      BY <1>0, <2>2, <3>1, <3>2 DEF chaseQuorum, TaskOk
  <2>3. CASE chaseQuorum(v, q) /\ ~StillShort(v, q)
    <3>1. task' = [task EXCEPT ![v][q] = "done"] /\ "done" \in Steps
      BY <2>3 DEF chaseQuorum, Steps
    <3>2. held' = held /\ attempt' = [attempt EXCEPT ![v][q] = 0]
      BY <2>3 DEF chaseQuorum
    <3>3. 0 \in 0..RebroadcastAttempts
      BY NodeAssumption
    <3> QED
      BY <1>0, <3>1, <3>2, <3>3 DEF TaskOk
  <2> QED
    BY <2>1, <2>2, <2>3
<1>2. PubOk'
  <2>1. CASE Broadcast(v, q) \/ StillShort(v, q)
    BY <1>0, <2>1, PubSame DEF Broadcast, chaseQuorum
  <2>2. CASE chaseQuorum(v, q) /\ ~StillShort(v, q)
    <3>1. maybePublish(v, q, sess[v][q]) /\ SessionOk(sess[v][q])
      BY <1>0, <2>2 DEF chaseQuorum, SessOk
    <3> QED
      BY <1>0, <3>1, MaybePublishOk
  <2> QED
    BY <2>1, <2>2
<1>3. PostOk'
  BY <1>0, PostsOfType DEF Broadcast, chaseQuorum, PostOk
<1>4. UNCHANGED <<chainVars, sessVars, parkVars, watchVars, faultVars>>
  BY DEF Broadcast, chaseQuorum
<1> QED
  BY <1>0, <1>1, <1>2, <1>3, <1>4, ChainSame, SessSame, ParkSame, NextSteady, BudgetSame
  DEF NodeInv

-----------------------------------------------------------------------------
(* Parked shares. *)

(* Removing the one entry of q leaves the others, each once. *)
LEMMA WithoutExact ==
  ASSUME NEW order \in Seq(Requests), NEW q \in Range1(order),
         \A i, j \in 1..Len(order) : order[i] = order[j] => i = j
  PROVE  /\ Without(order, q) \in Seq(Requests)
         /\ Range1(Without(order, q)) = Range1(order) \ {q}
         /\ \A i, j \in 1..Len(Without(order, q)) :
              Without(order, q)[i] = Without(order, q)[j] => i = j
         /\ Len(Without(order, q)) = Len(order) - 1
<1> DEFINE at == {i \in 1..Len(order) : order[i] = q}
           first == CHOOSE i \in at : \A j \in at : i <= j
           rest == [i \in 1..(Len(order) - 1) |->
                      IF i < first THEN order[i] ELSE order[i + 1]]
<1>1. PICK k \in 1..Len(order) : order[k] = q
  BY DEF Range1
<1>2. at = {k}
  BY <1>1
<1>3. first = k
  BY <1>2
<1>4. Without(order, q) = rest
  BY <1>2 DEF Without
<1> HIDE DEF at, first
<1>5. Len(order) - 1 \in Nat
  BY <1>1
<1>6. rest \in [1..(Len(order) - 1) -> Requests]
  BY <1>1, <1>3, <1>5
<1>7. rest \in Seq(Requests) /\ Len(rest) = Len(order) - 1
  BY <1>5, <1>6
<1>8. \A i \in 1..(Len(order) - 1) : rest[i] = IF i < k THEN order[i] ELSE order[i + 1]
  BY <1>3
<1> HIDE DEF rest
<1>9. \A i, j \in 1..(Len(order) - 1) : rest[i] = rest[j] => i = j
  BY <1>1, <1>5, <1>8
<1>10. Range1(rest) = Range1(order) \ {q}
  <2>1. ASSUME NEW i \in 1..Len(rest) PROVE rest[i] \in Range1(order) \ {q}
    BY <1>1, <1>5, <1>7, <1>8 DEF Range1
  <2>2. ASSUME NEW j \in 1..Len(order), order[j] # q
        PROVE  \E i \in 1..Len(rest) : rest[i] = order[j]
    <3>1. CASE j < k
      <4>1. j \in 1..Len(rest) /\ rest[j] = order[j]
        BY <1>1, <1>5, <1>7, <1>8, <3>1
      <4> QED
        BY <4>1
    <3>2. CASE j > k
      <4>1. j - 1 \in 1..Len(rest) /\ rest[j - 1] = order[j]
        BY <1>1, <1>5, <1>7, <1>8, <3>2
      <4> QED
        BY <4>1
    <3> QED
      BY <1>1, <2>2, <3>1, <3>2
  <2>3. Range1(rest) \subseteq Range1(order) \ {q}
    BY <2>1 DEF Range1
  <2>4. ASSUME NEW x \in Range1(order) \ {q} PROVE x \in Range1(rest)
    <3>1. PICK j \in 1..Len(order) : x = order[j]
      BY DEF Range1
    <3>2. PICK i \in 1..Len(rest) : rest[i] = order[j]
      BY <2>2, <3>1
    <3> QED
      BY <3>1, <3>2 DEF Range1
  <2> QED
    BY <2>3, <2>4
<1> QED
  BY <1>4, <1>7, <1>9, <1>10

(* What was parked for a request is taken, and its entry with it. *)
LEMMA TakeParkedKeeps ==
  ASSUME NodeInv, NEW v \in Live, NEW q \in Requests, takeParked(v, q)
  PROVE  NodeInv'
<1>0. ChainOk /\ TaskOk /\ SessOk /\ PubOk /\ ParkOk /\ NextOk /\ PostOk /\ BudgetOk
  BY DEF NodeInv
<1>1. /\ parked[v][q] \in Seq(Share) /\ parkedOrder[v] \in Seq(Requests)
      /\ Exact(parkedOrder[v], parked[v])
  BY <1>0 DEF ParkOk
<1>2. TaskOk'
  <2>1. task' \in [Live -> [Requests -> Steps]]
    BY <1>0 DEF takeParked, TaskOk, Steps
  <2>2. held' \in [Live -> [Requests -> Seq(Share)]]
    BY <1>0, <1>1 DEF takeParked, TaskOk
  <2> QED
    BY <1>0, <2>1, <2>2 DEF takeParked, TaskOk
<1>3. ParkOk'
  <2>1. <<>> \in Seq(Share) /\ Len(<<>>) = 0
    BY EmptySeq
  <2>2. parked' = [parked EXCEPT ![v][q] = <<>>]
    BY DEF takeParked
  <2>3. parked' \in [Live -> [Requests -> Seq(Share)]]
    BY <1>0, <2>1, <2>2 DEF ParkOk
  <2>4. CASE parked[v][q] = <<>>
    <3>1. parked' = parked
      BY <1>0, <2>2, <2>4 DEF ParkOk
    <3>2. parkedOrder' = parkedOrder
      BY <2>4 DEF takeParked
    <3> QED
      BY <1>0, <3>1, <3>2, ParkSame DEF parkVars
  <2>5. CASE parked[v][q] # <<>>
    <3> DEFINE rest == Without(parkedOrder[v], q)
    <3>1. q \in Range1(parkedOrder[v])
      BY <1>1, <2>5 DEF Exact
    <3>2. /\ rest \in Seq(Requests)
          /\ Range1(rest) = Range1(parkedOrder[v]) \ {q}
          /\ \A i, j \in 1..Len(rest) : rest[i] = rest[j] => i = j
          /\ Len(rest) = Len(parkedOrder[v]) - 1
      BY <1>1, <3>1, WithoutExact DEF Exact
    <3>3. parkedOrder' = [parkedOrder EXCEPT ![v] = rest]
      BY <1>0, <2>5 DEF takeParked, ParkOk
    <3> HIDE DEF rest
    <3>4. parkedOrder' \in [Live -> Seq(Requests)]
      BY <1>0, <3>2, <3>3 DEF ParkOk
    <3>5. Exact(rest, parked'[v])
      <4>1. \A r \in Requests : parked'[v][r] = IF r = q THEN <<>> ELSE parked[v][r]
        BY <1>0, <2>2 DEF ParkOk
      <4>2. Len(rest) <= MaxParkedRequests
        BY <1>1, <3>2, NodeAssumption DEF Exact
      <4>3. \A r \in Requests : Len(parked'[v][r]) <= Operators
        BY <1>1, <2>1, <4>1, GroupAssumption DEF Exact
      <4>4. Range1(rest) = {r \in Requests : parked'[v][r] # <<>>}
        BY <1>1, <3>2, <4>1 DEF Exact
      <4> QED
        BY <3>2, <4>2, <4>3, <4>4 DEF Exact
    <3>6. \A u \in Live : Exact(parkedOrder'[u], parked'[u])
      <4>1. \A u \in Live \ {v} : parkedOrder'[u] = parkedOrder[u] /\ parked'[u] = parked[u]
        BY <1>0, <2>2, <3>3 DEF ParkOk
      <4>2. parkedOrder'[v] = rest
        BY <1>0, <3>3 DEF ParkOk
      <4> QED
        BY <1>0, <3>5, <4>1, <4>2 DEF ParkOk
    <3> QED
      BY <2>3, <3>4, <3>6 DEF ParkOk
  <2> QED
    BY <2>4, <2>5
<1>4. UNCHANGED <<chainVars, pubVars, sessVars, watchVars, posts, faultVars>>
  BY DEF takeParked
<1> QED
  BY <1>0, <1>2, <1>3, <1>4, ChainSame, PubSame, SessSame, NextSteady, PostSame, BudgetSame
  DEF NodeInv

(* Pushing out the oldest request of a full table leaves an exact one with  *)
(* room. *)
LEMMA EvictExact ==
  ASSUME NEW order \in Seq(Requests), NEW table \in [Requests -> Seq(Share)],
         Exact(order, table), order # <<>>
  PROVE  LET evicted == [table EXCEPT ![Head(order)] = <<>>] IN
         /\ Tail(order) \in Seq(Requests)
         /\ evicted \in [Requests -> Seq(Share)]
         /\ Exact(Tail(order), evicted)
         /\ Len(Tail(order)) = Len(order) - 1
         /\ Head(order) \in Range1(order)
<1> DEFINE evicted == [table EXCEPT ![Head(order)] = <<>>]
           rest == Tail(order)
<1>1. /\ rest \in Seq(Requests) /\ Len(rest) = Len(order) - 1
      /\ \A i \in 1..Len(rest) : rest[i] = order[i + 1]
      /\ Head(order) \in Requests /\ Head(order) = order[1]
      /\ Len(order) \in Nat /\ Len(order) >= 1
  BY HeadTailProperties, LenProperties, EmptySeq
<1>2. evicted \in [Requests -> Seq(Share)]
  BY <1>1, EmptySeq
<1>3. \A r \in Requests : evicted[r] = IF r = order[1] THEN <<>> ELSE table[r]
  BY <1>1
<1> HIDE DEF evicted, rest
<1>4. ASSUME NEW i \in 1..Len(rest)
      PROVE  i \in Nat /\ i + 1 \in 1..Len(order) /\ i + 1 # 1 /\ rest[i] = order[i + 1]
  <2>1. rest[i] = order[i + 1]
    BY <1>1
  <2>2. i \in Nat /\ i + 1 \in 1..Len(order) /\ i + 1 # 1
    BY <1>1
  <2> QED
    BY <2>1, <2>2
<1>5. 1 \in 1..Len(order) /\ \A i, j \in 1..Len(order) : order[i] = order[j] => i = j
  BY <1>1 DEF Exact
<1>6. Range1(rest) = Range1(order) \ {order[1]}
  <2>1. ASSUME NEW i \in 1..Len(rest) PROVE rest[i] \in Range1(order) \ {order[1]}
    <3>1. i + 1 \in 1..Len(order) /\ i + 1 # 1 /\ rest[i] = order[i + 1]
      BY <1>4
    <3>2. order[i + 1] # order[1]
      BY <1>5, <3>1
    <3> QED
      BY <3>1, <3>2 DEF Range1
  <2>2. ASSUME NEW j \in 1..Len(order), order[j] # order[1]
        PROVE  \E i \in 1..Len(rest) : rest[i] = order[j]
    <3>1. j - 1 \in 1..Len(rest) /\ rest[j - 1] = order[j]
      BY <1>1, <2>2
    <3> QED
      BY <3>1
  <2>3. Range1(rest) \subseteq Range1(order) \ {order[1]}
    BY <2>1 DEF Range1
  <2>4. ASSUME NEW x \in Range1(order) \ {order[1]} PROVE x \in Range1(rest)
    <3>1. PICK j \in 1..Len(order) : x = order[j]
      BY DEF Range1
    <3>2. PICK i \in 1..Len(rest) : rest[i] = order[j]
      BY <2>2, <3>1
    <3> QED
      BY <3>1, <3>2 DEF Range1
  <2> QED
    BY <2>3, <2>4
<1>7. Range1(rest) = {r \in Requests : evicted[r] # <<>>}
  BY <1>3, <1>6 DEF Exact
<1>8. ASSUME NEW i \in 1..Len(rest), NEW j \in 1..Len(rest), rest[i] = rest[j]
      PROVE  i = j
  <2>1. i + 1 \in 1..Len(order) /\ j + 1 \in 1..Len(order) /\ order[i + 1] = order[j + 1]
    BY <1>8, <1>4
  <2>2. i + 1 = j + 1
    BY <1>5, <2>1
  <2> QED
    BY <1>4, <2>2
<1>9. \A r \in Requests : Len(evicted[r]) <= Operators
  BY <1>3, EmptySeq, GroupAssumption DEF Exact
<1>10. Len(rest) <= MaxParkedRequests
  BY <1>1, NodeAssumption DEF Exact
<1>11. Exact(rest, evicted)
  BY <1>7, <1>8, <1>9, <1>10 DEF Exact
<1>12. Head(order) \in Range1(order)
  BY <1>1 DEF Range1
<1> QED
  BY <1>1, <1>2, <1>11, <1>12 DEF evicted, rest

(* A share that fits is added to its request's, which is listed if it was   *)
(* not. *)
LEMMA AppendExact ==
  ASSUME NEW order \in Seq(Requests), NEW table \in [Requests -> Seq(Share)],
         Exact(order, table), NEW q \in Requests, NEW p \in Share,
         Len(table[q]) < Operators,
         table[q] = <<>> => Len(order) < MaxParkedRequests
  PROVE  LET listed == IF table[q] # <<>> THEN order ELSE Append(order, q)
             filed == [table EXCEPT ![q] = Append(@, p)]
         IN /\ listed \in Seq(Requests)
            /\ filed \in [Requests -> Seq(Share)]
            /\ Exact(listed, filed)
<1> DEFINE listed == IF table[q] # <<>> THEN order ELSE Append(order, q)
           filed == [table EXCEPT ![q] = Append(@, p)]
<1>1. /\ Append(table[q], p) \in Seq(Share) /\ Append(table[q], p) # <<>>
      /\ Len(Append(table[q], p)) = Len(table[q]) + 1
  BY AppendProperties
<1>2. filed \in [Requests -> Seq(Share)]
  BY <1>1
<1>3. \A r \in Requests : filed[r] = IF r = q THEN Append(table[q], p) ELSE table[r]
  OBVIOUS
<1> HIDE DEF filed
<1>4. ASSUME NEW r \in Requests PROVE Len(filed[r]) <= Operators
  <2>1. CASE r = q
    <3>1. Len(table[q]) \in Nat
      BY LenProperties
    <3>2. Len(filed[r]) = Len(table[q]) + 1
      BY <1>1, <1>3, <2>1
    <3>3. Operators \in Nat
      BY GroupAssumption
    <3> QED
      BY <3>1, <3>2, <3>3
  <2>2. CASE r # q
    BY <1>3, <2>2 DEF Exact
  <2> QED
    BY <2>1, <2>2
<1>5. CASE table[q] # <<>>
  <2>1. listed = order
    BY <1>5
  <2>2. Range1(order) = {r \in Requests : filed[r] # <<>>}
    BY <1>1, <1>3, <1>5 DEF Exact
  <2>3. Exact(order, filed)
    BY <1>4, <2>2 DEF Exact
  <2> QED
    BY <1>2, <2>1, <2>3 DEF filed
<1>6. CASE table[q] = <<>>
  <2>1. listed = Append(order, q)
    BY <1>6
  <2>2. /\ listed \in Seq(Requests) /\ Len(listed) = Len(order) + 1
        /\ \A i \in 1..Len(order) : listed[i] = order[i]
        /\ listed[Len(order) + 1] = q
        /\ Len(order) \in Nat
    BY <2>1, AppendProperties, LenProperties
  <2> HIDE DEF listed
  <2>3. q \notin Range1(order)
    BY <1>6 DEF Exact
  <2>4. Range1(listed) = Range1(order) \cup {q}
    <3>1. ASSUME NEW i \in 1..Len(listed) PROVE listed[i] \in Range1(order) \cup {q}
      <4>1. i \in 1..Len(order) \/ i = Len(order) + 1
        BY <2>2
      <4>2. CASE i \in 1..Len(order)
        BY <2>2, <4>2 DEF Range1
      <4>3. CASE i = Len(order) + 1
        BY <2>2, <4>3
      <4> QED
        BY <4>1, <4>2, <4>3
    <3>2. \A j \in 1..Len(order) : j \in 1..Len(listed) /\ listed[j] = order[j]
      BY <2>2
    <3>3. Len(order) + 1 \in 1..Len(listed)
      BY <2>2
    <3> QED
      BY <2>2, <3>1, <3>2, <3>3 DEF Range1
  <2>5. Range1(listed) = {r \in Requests : filed[r] # <<>>}
    BY <1>1, <1>3, <2>4 DEF Exact
  <2>6. ASSUME NEW i \in 1..Len(listed), NEW j \in 1..Len(listed), listed[i] = listed[j]
        PROVE  i = j
    <3>1. \A n \in 1..Len(order) : order[n] # q
      BY <2>3 DEF Range1
    <3>2. \A n \in 1..Len(listed) : n \in 1..Len(order) \/ n = Len(order) + 1
      BY <2>2
    <3>3. CASE i \in 1..Len(order) /\ j \in 1..Len(order)
      BY <2>2, <2>6, <3>3 DEF Exact
    <3>4. CASE i = Len(order) + 1 \/ j = Len(order) + 1
      BY <2>2, <2>6, <3>1, <3>2, <3>4
    <3> QED
      BY <3>2, <3>3, <3>4
  <2>7. Len(listed) <= MaxParkedRequests
    BY <1>6, <2>2, NodeAssumption
  <2>8. Exact(listed, filed)
    BY <1>4, <2>5, <2>6, <2>7 DEF Exact
  <2> QED
    BY <1>2, <2>2, <2>8 DEF listed, filed
<1> QED
  BY <1>5, <1>6

(* park, eviction and all, keeps the list and the table together. *)
LEMMA ParkKeeps ==
  ASSUME NodeInv, NEW m \in posts, park(m)
  PROVE  NodeInv'
<1>0. ChainOk /\ TaskOk /\ SessOk /\ PubOk /\ ParkOk /\ NextOk /\ PostOk /\ BudgetOk
  BY DEF NodeInv
<1> DEFINE v == m.to
           q == m.req
           p == m.share
           known == parked[v][q] # <<>>
           full == ~known /\ Len(parkedOrder[v]) >= MaxParkedRequests
           order == IF full THEN Tail(parkedOrder[v]) ELSE parkedOrder[v]
           kept == IF full THEN [parked[v] EXCEPT ![Head(parkedOrder[v])] = <<>>] ELSE parked[v]
           listed == IF known THEN parkedOrder[v] ELSE Append(order, q)
           filed == IF Len(parked[v][q]) >= Operators THEN kept
                    ELSE [kept EXCEPT ![q] = Append(@, p)]
<1>1. v \in Live /\ q \in Requests /\ p \in Share
  BY <1>0 DEF PostOk, Post
<1>2. /\ parkedOrder[v] \in Seq(Requests) /\ parked[v] \in [Requests -> Seq(Share)]
      /\ Exact(parkedOrder[v], parked[v])
  BY <1>0, <1>1 DEF ParkOk
<1>3. /\ parkedOrder' = [parkedOrder EXCEPT ![v] = listed]
      /\ parked' = [parked EXCEPT ![v] = filed]
  BY <1>0, <1>1 DEF park, ParkOk
<1>4. /\ order \in Seq(Requests) /\ kept \in [Requests -> Seq(Share)]
      /\ Exact(order, kept) /\ kept[q] = parked[v][q]
      /\ ~known => Len(order) < MaxParkedRequests
      /\ known => order = parkedOrder[v]
  <2>1. CASE full
    <3>1. parkedOrder[v] # <<>>
      BY <2>1, NodeAssumption, EmptySeq
    <3>2. /\ order \in Seq(Requests) /\ kept \in [Requests -> Seq(Share)]
          /\ Exact(order, kept) /\ Len(order) = Len(parkedOrder[v]) - 1
          /\ Head(parkedOrder[v]) \in Range1(parkedOrder[v])
      BY <1>2, <2>1, <3>1, EvictExact
    <3>3. Head(parkedOrder[v]) # q
      BY <1>2, <2>1, <3>2 DEF Exact
    <3>4. kept[q] = parked[v][q]
      BY <1>1, <1>2, <2>1, <3>3
    <3>5. Len(order) < MaxParkedRequests
      BY <1>2, <3>2, NodeAssumption, LenProperties DEF Exact
    <3> QED
      BY <2>1, <3>2, <3>4, <3>5
  <2>2. CASE ~full
    BY <1>2, <2>2, NodeAssumption, LenProperties
  <2> QED
    BY <2>1, <2>2
<1> HIDE DEF order, kept
<1>5. /\ listed \in Seq(Requests) /\ filed \in [Requests -> Seq(Share)]
      /\ Exact(listed, filed)
  <2>1. CASE Len(parked[v][q]) >= Operators
    <3>1. known
      BY <2>1, GroupAssumption, EmptySeq
    <3> QED
      BY <1>4, <2>1, <3>1
  <2>2. CASE ~(Len(parked[v][q]) >= Operators)
    <3>1. Len(kept[q]) < Operators
      BY <1>1, <1>4, <2>2, GroupAssumption, LenProperties
    <3>2. kept[q] = <<>> => Len(order) < MaxParkedRequests
      BY <1>4
    <3>3. LET l == IF kept[q] # <<>> THEN order ELSE Append(order, q)
              f == [kept EXCEPT ![q] = Append(@, p)]
          IN l \in Seq(Requests) /\ f \in [Requests -> Seq(Share)] /\ Exact(l, f)
      BY <1>1, <1>4, <3>1, <3>2, AppendExact
    <3>4. filed = [kept EXCEPT ![q] = Append(@, p)]
      BY <2>2
    <3>5. listed = IF kept[q] # <<>> THEN order ELSE Append(order, q)
      BY <1>4
    <3> QED
      BY <3>3, <3>4, <3>5
  <2> QED
    BY <2>1, <2>2
<1> HIDE DEF listed, filed
<1>6. ParkOk'
  <2>1. /\ parked' \in [Live -> [Requests -> Seq(Share)]]
        /\ parkedOrder' \in [Live -> Seq(Requests)]
    BY <1>0, <1>1, <1>3, <1>5 DEF ParkOk
  <2>2. parkedOrder'[v] = listed /\ parked'[v] = filed
    BY <1>0, <1>1, <1>3 DEF ParkOk
  <2>3. \A u \in Live \ {v} : parkedOrder'[u] = parkedOrder[u] /\ parked'[u] = parked[u]
    BY <1>0, <1>1, <1>3 DEF ParkOk
  <2> QED
    BY <1>0, <1>5, <2>1, <2>2, <2>3 DEF ParkOk
<1>7. PostOk'
  BY <1>0 DEF park, PostOk
<1>8. UNCHANGED <<chainVars, taskVars, pubVars, sessVars, watchVars, faultVars>>
  BY DEF park
<1> QED
  BY <1>0, <1>6, <1>7, <1>8, ChainSame, TaskSame, PubSame, SessSame, NextSteady, BudgetSame
  DEF NodeInv

-----------------------------------------------------------------------------
(* The mesh. *)

(* A peer's share is filed, and may complete the quorum, or is put aside. *)
LEMMA PeerShareKeeps ==
  ASSUME NodeInv, NEW m \in posts, OnPeerShare(m)
  PROVE  NodeInv'
<1>0. ChainOk /\ TaskOk /\ SessOk /\ PubOk /\ ParkOk /\ NextOk /\ PostOk /\ BudgetOk
  BY DEF NodeInv
<1>1. m \in Post /\ m.to \in Live /\ m.req \in Requests /\ m.share \in Share
  BY <1>0 DEF PostOk, Post
<1> DEFINE v == m.to
           q == m.req
           s == Add(sess[v][q], m.share)
<1>2. SessionOk(s)
  BY <1>0, <1>1, AddOk DEF SessOk
<1>3. PostOk'
  <2>1. [m EXCEPT !.at = "park"] \in Post
    BY <1>1 DEF Post
  <2> QED
    BY <1>0, <2>1 DEF OnPeerShare, PostOk
<1>4. SessOk' /\ PubOk'
  <2>1. CASE ~existingSession(v, q) \/ m.share.sig = "other"
    <3>1. UNCHANGED <<sess, sessions, pubVars>>
      BY <2>1 DEF OnPeerShare
    <3> QED
      BY <1>0, <3>1, SessSame, PubSame DEF sessVars
  <2>2. CASE existingSession(v, q) /\ m.share.sig # "other"
    <3>1. sess' = [sess EXCEPT ![v][q] = s] /\ UNCHANGED sessions
      BY <2>2 DEF OnPeerShare
    <3>2. sess' = [sess EXCEPT ![v][q] = Add(@, m.share)]
      BY <1>0, <1>1, <3>1 DEF SessOk
    <3>3. SessOk'
      BY <1>0, <1>1, <3>1, <3>2, FileOk
    <3>4. maybePublish(v, q, s) \/ UNCHANGED pubVars
      BY <2>2 DEF OnPeerShare
    <3>5. PubOk'
      BY <1>0, <1>1, <1>2, <3>4, MaybePublishOk, PubSame
    <3> QED
      BY <3>3, <3>5
  <2> QED
    BY <2>1, <2>2
<1>5. UNCHANGED <<chainVars, taskVars, parkVars, watchVars, faultVars>>
  BY DEF OnPeerShare
<1> QED
  BY <1>0, <1>3, <1>4, <1>5, ChainSame, TaskSame, ParkSame, NextSteady, BudgetSame DEF NodeInv

(* Posts that are lost, and posts of others. *)
LEMMA WireKeeps ==
  ASSUME NodeInv,
         \/ \E m \in posts : Lost(m)
         \/ \E p \in Share, v \in Live, q \in Requests : FaultyPost(p, v, q)
  PROVE  NodeInv'
<1>0. ChainOk /\ TaskOk /\ SessOk /\ PubOk /\ ParkOk /\ NextOk /\ PostOk /\ BudgetOk
  BY DEF NodeInv
<1>1. PostOk' /\ BudgetOk'
  <2>1. ASSUME NEW m \in posts, Lost(m) PROVE PostOk' /\ BudgetOk'
    BY <1>0, <2>1, SpendOk DEF Lost, PostOk
  <2>2. ASSUME NEW p \in Share, NEW v \in Live, NEW q \in Requests, FaultyPost(p, v, q)
        PROVE  PostOk' /\ BudgetOk'
    <3>1. [from |-> NoIndex, to |-> v, req |-> q, share |-> p, at |-> "wire"] \in Post
      BY DEF Post
    <3>2. PostOk'
      BY <1>0, <2>2, <3>1 DEF FaultyPost, PostOk
    <3>3. forged' \subseteq Indices
      BY <1>0, <2>2 DEF FaultyPost, BudgetOk, Share
    <3>4. budget' \in [{"losses", "refusals", "restarts", "faulty"} -> Nat]
      BY <1>0, <2>2 DEF FaultyPost, BudgetOk
    <3> QED
      BY <3>2, <3>3, <3>4 DEF BudgetOk
  <2> QED
    BY <2>1, <2>2
<1>2. UNCHANGED <<chainVars, taskVars, pubVars, sessVars, parkVars, watchVars>>
  BY DEF Lost, FaultyPost
<1> QED
  BY <1>0, <1>1, <1>2, ChainSame, TaskSame, SessSame, PubSame, ParkSame, NextSteady DEF NodeInv

-----------------------------------------------------------------------------
(* The publisher. *)

(* It moves on without sending. *)
LEMMA PubMoves ==
  ASSUME PubOk, NEW v \in Live, NEW q \in Requests,
         NEW to \in {"send", "retry", "done"},
         pub[v][q] \in {"turn", "send", "retry"},
         pub' = [pub EXCEPT ![v][q] = to],
         to = "send" => pub[v][q] = "turn",
         to = "retry" => sends[v][q] < SendRetries,
         UNCHANGED <<published, sends, signers, sent>>
  PROVE  PubOk'
<1>1. pub' \in [Live -> [Requests -> {"none", "turn", "send", "retry", "done"}]]
  BY DEF PubOk
<1>2. ASSUME NEW u \in Live, NEW r \in Requests PROVE PublisherOk(u, r)'
  <2>1. CASE u = v /\ r = q
    <3>1. pub'[u][r] = to
      BY <2>1 DEF PubOk
    <3>2. sends[u][r] \in Nat /\ sent[u][r] \in Nat
      BY NodeAssumption DEF PubOk
    <3>3. PublisherOk(u, r)
      BY DEF PubOk
    <3> QED
      BY <2>1, <3>1, <3>2, <3>3 DEF PublisherOk
  <2>2. CASE ~(u = v /\ r = q)
    <3>1. pub'[u][r] = pub[u][r]
      BY <2>2 DEF PubOk
    <3> QED
      BY <3>1 DEF PubOk, PublisherOk
  <2> QED
    BY <2>1, <2>2
<1> QED
  BY <1>1, <1>2 DEF PubOk

(* Its next attempt stays within the retries. *)
LEMMA PubRetries ==
  ASSUME PubOk, NEW v \in Live, NEW q \in Requests,
         pub[v][q] = "retry",
         pub' = [pub EXCEPT ![v][q] = "send"],
         sends' = [sends EXCEPT ![v][q] = @ + 1],
         UNCHANGED <<published, signers, sent>>
  PROVE  PubOk'
<1>1. pub' \in [Live -> [Requests -> {"none", "turn", "send", "retry", "done"}]]
  BY DEF PubOk
<1>2. sends' \in [Live -> [Requests -> 0..SendRetries]]
  <2>1. sends[v][q] \in 0..SendRetries /\ sends[v][q] < SendRetries
    BY DEF PubOk, PublisherOk
  <2>2. sends[v][q] + 1 \in 0..SendRetries
    BY <2>1, NodeAssumption
  <2>3. sends' = [sends EXCEPT ![v][q] = sends[v][q] + 1]
    BY DEF PubOk
  <2> QED
    BY <2>2, <2>3 DEF PubOk
<1>3. ASSUME NEW u \in Live, NEW r \in Requests PROVE PublisherOk(u, r)'
  <2>1. CASE u = v /\ r = q
    <3>1. pub'[u][r] = "send" /\ sends'[u][r] = sends[u][r] + 1
      BY <2>1 DEF PubOk
    <3>2. sends[u][r] \in Nat /\ sent[u][r] \in Nat
      BY NodeAssumption DEF PubOk
    <3>3. PublisherOk(u, r)
      BY DEF PubOk
    <3> QED
      BY <2>1, <3>1, <3>2, <3>3 DEF PublisherOk
  <2>2. CASE ~(u = v /\ r = q)
    <3>1. pub'[u][r] = pub[u][r] /\ sends'[u][r] = sends[u][r]
      BY <2>2 DEF PubOk
    <3> QED
      BY <3>1 DEF PubOk, PublisherOk
  <2> QED
    BY <2>1, <2>2
<1> QED
  BY <1>1, <1>2, <1>3 DEF PubOk

(* Forgetting a session leaves the others. *)
LEMMA ForgetOk ==
  ASSUME SessOk, NEW v \in Live, NEW q \in Requests, forget(v, q)
  PROVE  SessOk'
BY DEF SessOk, forget

(* Its turn, and another attempt after one that failed. *)
LEMMA TurnKeeps ==
  ASSUME NodeInv, NEW v \in Live, NEW q \in Requests, TakeTurn(v, q) \/ RetrySend(v, q)
  PROVE  NodeInv'
<1>0. ChainOk /\ TaskOk /\ SessOk /\ PubOk /\ ParkOk /\ NextOk /\ PostOk /\ BudgetOk
  BY DEF NodeInv
<1>1. BudgetOk'
  <2>1. UNCHANGED faultVars \/ Spend("refusals")
    BY DEF TakeTurn, RetrySend
  <2> QED
    BY <1>0, <2>1, SpendOk, BudgetSame
<1>2. SessOk'
  BY <1>0, ForgetOk, SessSame DEF TakeTurn, RetrySend
<1>3. PubOk'
  <2>1. CASE TakeTurn(v, q)
    <3>1. PICK to \in {"send", "done"} : pub' = [pub EXCEPT ![v][q] = to]
      BY <2>1 DEF TakeTurn, forget
    <3>2. pub[v][q] = "turn" /\ UNCHANGED <<published, sends, signers, sent>>
      BY <2>1 DEF TakeTurn
    <3> QED
      BY <1>0, <3>1, <3>2, PubMoves
  <2>2. CASE RetrySend(v, q)
    <3>0. pub[v][q] = "retry" /\ UNCHANGED <<published, signers, sent>>
      BY <2>2 DEF RetrySend
    <3>1. CASE forget(v, q) /\ UNCHANGED sends
      <4>1. pub' = [pub EXCEPT ![v][q] = "done"] /\ sends' = sends
        BY <3>1 DEF forget
      <4>2. "done" \in {"send", "retry", "done"} /\ ~("done" = "retry") /\ ~("done" = "send")
        OBVIOUS
      <4> QED
        BY <1>0, <3>0, <4>1, <4>2, PubMoves
    <3>2. CASE pub' = [pub EXCEPT ![v][q] = "send"] /\ sends' = [sends EXCEPT ![v][q] = @ + 1]
      BY <1>0, <3>0, <3>2, PubRetries
    <3> QED
      BY <2>2, <3>1, <3>2 DEF RetrySend
  <2> QED
    BY <2>1, <2>2
<1>4. UNCHANGED <<chainVars, taskVars, parkVars, watchVars, posts>>
  BY DEF TakeTurn, RetrySend
<1> QED
  BY <1>0, <1>1, <1>2, <1>3, <1>4, ChainSame, TaskSame, ParkSame, NextSteady, PostSame
  DEF NodeInv

(* A transaction the endpoint took leaves the publisher's state in order,   *)
(* whether or not the publisher learns of it. *)
LEMMA PubSends ==
  ASSUME PubOk, NEW v \in Live, NEW q \in Requests, NEW to \in {"retry", "done"},
         pub[v][q] = "send",
         pub' = [pub EXCEPT ![v][q] = to],
         to = "retry" => sends[v][q] < SendRetries,
         sent' = [sent EXCEPT ![v][q] = @ + 1],
         UNCHANGED <<published, sends, signers>>
  PROVE  PubOk'
<1>1. sent' = [sent EXCEPT ![v][q] = sent[v][q] + 1] /\ sent[v][q] \in Nat
  BY DEF PubOk
<1>2. /\ pub' \in [Live -> [Requests -> {"none", "turn", "send", "retry", "done"}]]
      /\ sent' \in [Live -> [Requests -> Nat]]
  BY <1>1 DEF PubOk
<1>3. ASSUME NEW u \in Live, NEW r \in Requests PROVE PublisherOk(u, r)'
  <2>1. PublisherOk(u, r) /\ sends[u][r] \in Nat /\ sent[u][r] \in Nat
    BY NodeAssumption DEF PubOk
  <2>2. CASE u = v /\ r = q
    <3>1. pub'[u][r] = to /\ sent'[u][r] = sent[u][r] + 1
      BY <1>1, <2>2 DEF PubOk
    <3> QED
      BY <2>1, <2>2, <3>1 DEF PublisherOk
  <2>3. CASE ~(u = v /\ r = q)
    <3>1. pub'[u][r] = pub[u][r] /\ sent'[u][r] = sent[u][r]
      BY <1>1, <2>3 DEF PubOk
    <3> QED
      BY <2>1, <3>1 DEF PublisherOk
  <2> QED
    BY <2>2, <2>3
<1> QED
  BY <1>2, <1>3 DEF PubOk

(* A transaction the endpoint took carries its publisher's quorum. *)
LEMMA TakenOk ==
  ASSUME ChainOk, PubOk, NEW v \in Live, NEW q \in Requests, pub[v][q] = "send",
         Taken(v, q), UNCHANGED <<log, status>>
  PROVE  ChainOk'
<1> DEFINE tx == [from |-> v, req |-> q, signers |-> signers[v][q]]
<1>1. IsQuorum(tx.signers) /\ tx \in [from : Live, req : Requests, signers : SUBSET Share]
  BY DEF PubOk, PublisherOk
<1>2. txs' = txs \cup {tx}
  BY DEF Taken
<1> HIDE DEF tx
<1> QED
  BY <1>1, <1>2 DEF ChainOk

(* An attempt to send ends the publisher, or has it try again. *)
LEMMA FulfillKeeps ==
  ASSUME NodeInv, NEW v \in Live, NEW q \in Requests, Fulfill(v, q) \/ FulfillRefused(v, q)
  PROVE  NodeInv'
<1>0. ChainOk /\ TaskOk /\ SessOk /\ PubOk /\ ParkOk /\ NextOk /\ PostOk /\ BudgetOk
  BY DEF NodeInv
<1>1. /\ pub[v][q] = "send" /\ UNCHANGED <<log, status>>
      /\ Taken(v, q) \/ UNCHANGED <<txs, sent>>
      /\ UNCHANGED <<published, sends, signers, taskVars, parkVars, watchVars, posts>>
  BY DEF Fulfill, FulfillRefused
<1>2. ChainOk'
  BY <1>0, <1>1, TakenOk, ChainSame DEF chainVars
<1>3. SessOk'
  BY <1>0, ForgetOk, SessSame DEF Fulfill, FulfillRefused
<1>4. BudgetOk'
  BY <1>0, BudgetSame, SpendOk DEF Fulfill, FulfillRefused
<1>5. PICK to \in {"retry", "done"} :
        pub' = [pub EXCEPT ![v][q] = to] /\ (to = "retry" => sends[v][q] < SendRetries)
  <2>1. CASE forget(v, q)
    BY <2>1 DEF forget
  <2>2. CASE pub' = [pub EXCEPT ![v][q] = "retry"] /\ ~exhausted(v, q)
    <3>1. sends[v][q] < SendRetries
      BY <1>0, <2>2, NodeAssumption DEF PubOk, exhausted
    <3> QED
      BY <2>2, <3>1
  <2> QED
    BY <2>1, <2>2 DEF Fulfill, FulfillRefused
<1>6. PubOk'
  <2>1. CASE Taken(v, q)
    <3>1. sent' = [sent EXCEPT ![v][q] = @ + 1]
      BY <2>1 DEF Taken
    <3> QED
      BY <1>0, <1>1, <1>5, <3>1, PubSends
  <2>2. CASE UNCHANGED <<txs, sent>>
    <3>1. to \in {"send", "retry", "done"} /\ ~(to = "send")
      OBVIOUS
    <3> QED
      BY <1>0, <1>1, <1>5, <2>2, <3>1, PubMoves
  <2> QED
    BY <1>1, <2>1, <2>2
<1> QED
  BY <1>0, <1>1, <1>2, <1>3, <1>4, <1>6, TaskSame, ParkSame, NextSame, PostSame DEF NodeInv

-----------------------------------------------------------------------------
(* A crash, and the whole. *)

(* A node that starts again has nothing, and what the others have is their  *)
(* own. *)
LEMMA RestartKeeps ==
  ASSUME NodeInv, NEW v \in Live, Restart(v)
  PROVE  NodeInv'
<1>0. ChainOk /\ TaskOk /\ SessOk /\ PubOk /\ ParkOk /\ NextOk /\ PostOk /\ BudgetOk
  BY DEF NodeInv
<1>1. ChainOk'
  BY <1>0, ChainSame DEF Restart
<1>2. TaskOk'
  <2>1. <<>> \in Seq(Share) /\ 0 \in 0..RebroadcastAttempts /\ "none" \in Steps
    BY EmptySeq, NodeAssumption DEF Steps
  <2>2. task' = Fresh(task, v, "none") /\ held' = Fresh(held, v, <<>>)
        /\ attempt' = Fresh(attempt, v, 0)
    BY DEF Restart
  <2> QED
    BY <1>0, <2>1, <2>2 DEF TaskOk, Fresh
<1>3. SessOk'
  <2>1. SessionOk(NewSession) /\ NewSession \in Sessions
    BY NewSessionOk DEF SessionOk
  <2>2. sessions' = [sessions EXCEPT ![v] = {}] /\ sess' = Fresh(sess, v, NewSession)
    BY DEF Restart
  <2> QED
    BY <1>0, <2>1, <2>2 DEF SessOk, Fresh
<1>4. PubOk'
  <2>1. /\ published' = [published EXCEPT ![v] = {}]
        /\ pub' = Fresh(pub, v, "none") /\ sends' = Fresh(sends, v, 0)
        /\ signers' = Fresh(signers, v, {}) /\ sent' = Fresh(sent, v, 0)
    BY DEF Restart
  <2>2. /\ published' \in [Live -> SUBSET Requests]
        /\ pub' \in [Live -> [Requests -> {"none", "turn", "send", "retry", "done"}]]
        /\ sends' \in [Live -> [Requests -> 0..SendRetries]]
        /\ signers' \in [Live -> [Requests -> SUBSET Share]]
        /\ sent' \in [Live -> [Requests -> Nat]]
    BY <1>0, <2>1, NodeAssumption DEF PubOk, Fresh
  <2>3. ASSUME NEW u \in Live, NEW r \in Requests PROVE PublisherOk(u, r)'
    <3>1. CASE u = v
      <4>1. published'[u] = {} /\ pub'[u][r] = "none" /\ sent'[u][r] = 0 /\ sends'[u][r] = 0
        BY <1>0, <2>1, <3>1 DEF PubOk, Fresh
      <4> QED
        BY <4>1 DEF PublisherOk
    <3>2. CASE u # v
      <4>1. /\ published'[u] = published[u] /\ pub'[u][r] = pub[u][r]
            /\ sent'[u][r] = sent[u][r] /\ signers'[u][r] = signers[u][r]
            /\ sends'[u][r] = sends[u][r]
        BY <1>0, <2>1, <3>2 DEF PubOk, Fresh
      <4>2. PublisherOk(u, r)
        BY <1>0 DEF PubOk
      <4> QED
        BY <4>1, <4>2 DEF PublisherOk
    <3> QED
      BY <3>1, <3>2
  <2> QED
    BY <2>2, <2>3 DEF PubOk
<1>5. ParkOk'
  <2>1. parked' = Fresh(parked, v, <<>>) /\ parkedOrder' = [parkedOrder EXCEPT ![v] = <<>>]
    BY DEF Restart
  <2>2. <<>> \in Seq(Share) /\ <<>> \in Seq(Requests)
    BY EmptySeq
  <2>3. /\ parked' \in [Live -> [Requests -> Seq(Share)]]
        /\ parkedOrder' \in [Live -> Seq(Requests)]
    BY <1>0, <2>1, <2>2 DEF ParkOk, Fresh
  <2>4. ASSUME NEW u \in Live PROVE Exact(parkedOrder'[u], parked'[u])
    <3>1. CASE u = v
      <4>1. parkedOrder'[u] = <<>> /\ parked'[u] = [q \in Requests |-> <<>>]
        BY <1>0, <2>1, <3>1 DEF ParkOk, Fresh
      <4> QED
        BY <4>1, NodeAssumption, GroupAssumption DEF Exact, Range1
    <3>2. CASE u # v
      <4>1. parkedOrder'[u] = parkedOrder[u] /\ parked'[u] = parked[u]
        BY <1>0, <2>1, <3>2 DEF ParkOk, Fresh
      <4> QED
        BY <1>0, <4>1 DEF ParkOk
    <3> QED
      BY <3>1, <3>2
  <2> QED
    BY <2>3, <2>4 DEF ParkOk
<1>6. NextOk'
  <2> DEFINE first == IF Len(log) > Lookback THEN Len(log) - Lookback ELSE 1
  <2>1. Len(log) \in Nat /\ Lookback \in Nat
    BY <1>0, LenProperties, NodeAssumption DEF ChainOk
  <2>2. first \in Nat /\ 1 <= first /\ first - 1 \in Nat /\ first - 1 <= Len(log)
    BY <2>1
  <2>3. /\ next' = [next EXCEPT ![v] = first] /\ head' = [head EXCEPT ![v] = first - 1]
        /\ cursor' = [cursor EXCEPT ![v] = first]
        /\ settledOrder' = [settledOrder EXCEPT ![v] = <<>>]
        /\ UNCHANGED <<log, status>>
    BY DEF Restart, chainVars
  <2> HIDE DEF first
  <2>4. /\ next' \in [Live -> Nat] /\ head' \in [Live -> Nat] /\ cursor' \in [Live -> Nat]
        /\ \A u \in Live : 1 <= next'[u] /\ next'[u] <= cursor'[u] /\ head'[u] <= Len(log')
    BY <1>0, <2>2, <2>3 DEF NextOk
  <2>5. <<>> \in Seq(Requests) /\ MemoryOk(<<>>) /\ Range1(<<>>) = {}
    BY EmptySeq, NodeAssumption DEF MemoryOk, Range1
  <2>6. settledOrder' \in [Live -> Seq(Requests)]
    BY <1>0, <2>3, <2>5 DEF NextOk
  <2>7. ASSUME NEW u \in Live
        PROVE  MemoryOk(settledOrder'[u]) /\ \A q \in settled(u)' : status'[q] = "fulfilled"
    <3>1. CASE u = v
      BY <1>0, <2>3, <2>5, <3>1 DEF NextOk, settled
    <3>2. CASE u # v
      <4>1. settledOrder'[u] = settledOrder[u] /\ settled(u)' = settled(u)
        BY <1>0, <2>3, <3>2 DEF NextOk, settled
      <4> QED
        BY <1>0, <2>3, <4>1 DEF NextOk
    <3> QED
      BY <3>1, <3>2
  <2> QED
    BY <2>4, <2>6, <2>7 DEF NextOk
<1>7. PostOk' /\ BudgetOk'
  BY <1>0, SpendOk DEF Restart, PostOk
<1> QED
  BY <1>1, <1>2, <1>3, <1>4, <1>5, <1>6, <1>7 DEF NodeInv

(* Every step of the daemons and of their surroundings. *)
LEMMA NodeStep == NodeInv /\ [NodeNext]_nodeVars => NodeInv'
<1> SUFFICES ASSUME NodeInv, [NodeNext]_nodeVars PROVE NodeInv'
  OBVIOUS
<1>1. CASE \/ \E q \in Requests : RequestMade(q) \/ Refunded(q)
           \/ \E tx \in txs : Mined(tx)
  BY <1>1, ChainKeeps
<1>2. ASSUME NEW v \in Live, Watch(v) \/ Restart(v) PROVE NodeInv'
  BY <1>2, PollKeeps, ReportKeeps, RestartKeeps DEF Watch
<1>3. ASSUME NEW v \in Live, NEW q \in Requests, OnRequest(v, q) PROVE NodeInv'
  BY <1>3, SignKeeps, TakeParkedKeeps, FileHeldKeeps, BroadcastKeeps DEF OnRequest
<1>4. ASSUME NEW v \in Live, NEW q \in Requests,
             Publisher(v, q) \/ FulfillRefused(v, q)
      PROVE  NodeInv'
  BY <1>4, TurnKeeps, FulfillKeeps DEF Publisher
<1>5. ASSUME NEW m \in posts, Handler(m) \/ Lost(m) PROVE NodeInv'
  BY <1>5, PeerShareKeeps, ParkKeeps, WireKeeps DEF Handler
<1>6. ASSUME NEW p \in Share, NEW v \in Live, NEW q \in Requests, FaultyPost(p, v, q)
      PROVE  NodeInv'
  BY <1>6, WireKeeps
<1>7. CASE UNCHANGED nodeVars
  <2>1. UNCHANGED <<chainVars, taskVars, pubVars, sessVars, parkVars, watchVars, posts, faultVars>>
    BY <1>7 DEF nodeVars
  <2> QED
    BY <2>1, ChainSame, TaskSame, SessSame, PubSame, ParkSame, NextSteady, PostSame, BudgetSame
    DEF NodeInv
<1> QED
  BY <1>1, <1>2, <1>3, <1>4, <1>5, <1>6, <1>7 DEF NodeNext

(* The invariant holds of every behaviour. *)
LEMMA NodeInvariant == NodeSpec => []NodeInv
<1> QED
  BY NodeInitInv, NodeStep, PTL DEF NodeSpec

(* The daemons' state keeps its shape: no session, publisher or parking     *)
(* table of node.go ever holds a value outside its type, for any number of  *)
(* operators and requests and any faults. *)
THEOREM NodeTypes == NodeSpec => []NodeTypeOK
<1>1. NodeInv => NodeTypeOK
  BY DEF NodeInv, ChainOk, TaskOk, SessOk, PubOk, ParkOk, NextOk, PostOk, BudgetOk, NodeTypeOK
<1> QED
  BY <1>1, NodeInvariant, PTL

(* Fulfill is never called with a signature the coordinator would refuse:   *)
(* every transaction aggregates a threshold of verified shares of different *)
(* operators. *)
THEOREM QuorumBehindEveryTxAlways == NodeSpec => []QuorumBehindEveryTx
<1>1. NodeInv => QuorumBehindEveryTx
  BY DEF NodeInv, ChainOk, IsQuorum, QuorumBehindEveryTx
<1> QED
  BY <1>1, NodeInvariant, PTL

(* However many goroutines find its quorum complete, a node that does not   *)
(* crash sends a request's transaction again only after an attempt of       *)
(* maybePublish's loop failed, although such an attempt may have left its   *)
(* transaction with the endpoint. *)
THEOREM ResentOnlyAfterErrorAlways == NodeSpec => []ResentOnlyAfterError
<1>1. NodeInv => ResentOnlyAfterError
  BY DEF NodeInv, PubOk, PublisherOk, ResentOnlyAfterError
<1> QED
  BY <1>1, NodeInvariant, PTL

(* What a daemon remembers as settled was fulfilled on chain, without       *)
(* repeats and within its bound, however scans, reports and restarts        *)
(* interleave with the chain. *)
THEOREM SettledExactAlways == NodeSpec => []SettledExact
<1>1. NodeInv => SettledExact
  BY DEF NodeInv, NextOk, MemoryOk, SettledExact
<1> QED
  BY <1>1, NodeInvariant, PTL

(* The eviction order and the table of parked shares agree, and both stay   *)
(* within their bounds. *)
THEOREM ParkedExactAlways == NodeSpec => []ParkedExact
<1>1. NodeInv => ParkedExact
  BY DEF NodeInv, ParkOk, Exact, ParkedExact
<1> QED
  BY <1>1, NodeInvariant, PTL

(* A session pays for at most one pairing per operator, whatever is posted  *)
(* to it. *)
THEOREM OneVerificationEachAlways == NodeSpec => []OneVerificationEach
<1>1. NodeInv => OneVerificationEach
  BY DEF NodeInv, SessOk, SessionOk, OneVerificationEach
<1> QED
  BY <1>1, NodeInvariant, PTL

-----------------------------------------------------------------------------
(* Whom a session accuses. *)

(* The shares that exist when those indices are forged: an operator's own,  *)
(* those of another seed, and false ones in the name of a forged index. *)
Harmless(names) == {p \in Share : p.sig = "bad" => p.index \in names}

(* Every share in flight, parked or held is one of these, and only forged   *)
(* indices are accused. *)
Traced ==
  /\ \A m \in posts : m.share \in Harmless(forged)
  /\ \A v \in Live, q \in Requests : held[v][q] \in Seq(Harmless(forged))
  /\ \A v \in Live, q \in Requests : parked[v][q] \in Seq(Harmless(forged))
  /\ \A v \in Live, q \in Requests : sess[v][q].equivocation \in forged \cup {NoIndex}

(* A share that is filed and is not of another seed accuses the operator it *)
(* names, if anybody, and only when it is false. *)
LEMMA AccusesForged ==
  ASSUME NEW names, NEW s, SessionOk(s), s.equivocation \in names \cup {NoIndex},
         NEW p \in Harmless(names), p.sig # "other"
  PROVE  Add(s, p).equivocation \in names \cup {NoIndex}
<1>1. s \in Sessions /\ s.partials \subseteq Share /\ p \in Share
  BY DEF SessionOk, Sessions, Harmless
<1>2. CASE Known(s, p) /\ ~SameShare(s, p)
  <2>1. PICK e \in s.partials : e.index = p.index
    BY <1>2 DEF Known
  <2>2. e.sig = "good" /\ e # p
    BY <1>2, <2>1 DEF SessionOk, SameShare
  <2>3. p.sig # "good"
    BY <1>1, <2>1, <2>2 DEF Share
  <2>4. p.index \in names
    BY <1>1, <2>3 DEF Harmless, Share
  <2>5. Add(s, p) = recordEquivocation(s, p)
    BY <1>2 DEF Add
  <2> QED
    BY <1>1, <2>4, <2>5 DEF recordEquivocation, Sessions
<1>3. CASE ~(Known(s, p) /\ ~SameShare(s, p))
  BY <1>1, <1>3 DEF Add, Sessions
<1> QED
  BY <1>2, <1>3

(* So filing one accuses nobody else. *)
LEMMA FiledTraced ==
  ASSUME SessOk, Traced, NEW v \in Live, NEW q \in Requests, NEW p \in Harmless(forged),
         p.sig # "other",
         sess' = [sess EXCEPT ![v][q] = Add(sess[v][q], p)]
  PROVE  \A u \in Live, r \in Requests : sess'[u][r].equivocation \in forged \cup {NoIndex}
<1>1. Add(sess[v][q], p).equivocation \in forged \cup {NoIndex}
  BY AccusesForged DEF SessOk, Traced
<1> QED
  BY <1>1 DEF SessOk, Traced

(* A node's own share verifies, so its posts do. *)
LEMMA OwnShareGood ==
  ASSUME NEW v \in Live, NEW q \in Requests
  PROVE  /\ OwnShare(v) \in Harmless(forged) /\ OwnShare(v).sig # "other"
         /\ \A m \in PostsOf(v, q) : m.share \in Harmless(forged)
<1>1. OwnShare(v) \in Share /\ OwnShare(v).sig = "good"
  BY OwnShareType DEF OwnShare
<1>2. OwnShare(v) \in Harmless(forged)
  BY <1>1 DEF Harmless
<1>3. \A m \in PostsOf(v, q) : m.share = OwnShare(v)
  BY DEF PostsOf
<1> QED
  BY <1>1, <1>2, <1>3

(* The operators start without a share. *)
LEMMA TracedInit == NodeInit => Traced
<1> SUFFICES ASSUME NodeInit PROVE Traced
  OBVIOUS
<1>1. <<>> \in Seq(Harmless(forged))
  BY EmptySeq
<1> QED
  BY <1>1 DEF NodeInit, Traced, PerRequest, NewSession

(* What leaves all shares and conflicts where they are. *)
LEMMA TracedSame ==
  ASSUME Traced, UNCHANGED <<held, parked, sess, forged>>, posts' \subseteq posts
  PROVE  Traced'
BY DEF Traced

(* The steps of OnRequest post, hold and file what the node itself signed   *)
(* and what was parked. *)
LEMMA OnRequestTraced ==
  ASSUME NodeInv, Traced, NEW v \in Live, NEW q \in Requests, OnRequest(v, q)
  PROVE  Traced'
<1>0. TaskOk /\ SessOk /\ ParkOk
  BY DEF NodeInv
<1>1. forged' = forged
  BY DEF OnRequest, sessionFor, Sign, takeParked, FileHeld, Broadcast, chaseQuorum, faultVars
<1> DEFINE H == Harmless(forged)
<1>2. CASE sessionFor(v, q)
  BY <1>1, <1>2, TracedSame DEF sessionFor, parkVars
<1>3. CASE Sign(v, q)
  <2>1. sess' = [sess EXCEPT ![v][q] = Add(sess[v][q], OwnShare(v))]
    BY <1>0, <1>3 DEF Sign, SessOk
  <2>2. \A u \in Live, r \in Requests : sess'[u][r].equivocation \in forged \cup {NoIndex}
    BY <1>0, <2>1, OwnShareGood, FiledTraced
  <2> QED
    BY <1>1, <1>3, <2>2 DEF Sign, Traced, parkVars
<1>4. CASE takeParked(v, q)
  <2>1. <<>> \in Seq(H)
    BY EmptySeq
  <2>2. /\ held' = [held EXCEPT ![v][q] = parked[v][q]]
        /\ parked' = [parked EXCEPT ![v][q] = <<>>]
        /\ UNCHANGED <<posts, sess>>
    BY <1>4 DEF takeParked, sessVars
  <2>3. \A u \in Live, r \in Requests :
          held[u][r] \in Seq(H) /\ parked[u][r] \in Seq(H)
    BY DEF Traced
  <2> HIDE DEF H
  <2>4. \A u \in Live, r \in Requests :
          held'[u][r] \in Seq(H) /\ parked'[u][r] \in Seq(H)
    BY <1>0, <2>1, <2>2, <2>3 DEF TaskOk, ParkOk
  <2> QED
    BY <1>1, <2>2, <2>4 DEF Traced, H
<1>5. CASE FileHeld(v, q)
  <2>1. held[v][q] \in Seq(H) /\ held[v][q] # <<>>
    BY <1>5 DEF FileHeld, Traced
  <2>2. Head(held[v][q]) \in H /\ Tail(held[v][q]) \in Seq(H)
    BY <2>1, HeadTailProperties
  <2>3. held' = [held EXCEPT ![v][q] = Tail(held[v][q])] /\ UNCHANGED <<posts, parked>>
    BY <1>0, <1>5 DEF FileHeld, TaskOk, parkVars
  <2>4. \A u \in Live, r \in Requests : sess'[u][r].equivocation \in forged \cup {NoIndex}
    <3>1. CASE Head(held[v][q]).sig = "other"
      BY <1>5, <3>1 DEF FileHeld, Traced
    <3>2. CASE Head(held[v][q]).sig # "other"
      <4>1. sess' = [sess EXCEPT ![v][q] = Add(sess[v][q], Head(held[v][q]))]
        BY <1>0, <1>5, <3>2 DEF FileHeld, SessOk
      <4> QED
        BY <1>0, <2>2, <3>2, <4>1, FiledTraced
    <3> QED
      BY <3>1, <3>2
  <2>5. \A u \in Live, r \in Requests : held[u][r] \in Seq(H)
    BY DEF Traced
  <2> HIDE DEF H
  <2>6. \A u \in Live, r \in Requests : held'[u][r] \in Seq(H)
    BY <1>0, <2>2, <2>3, <2>5 DEF TaskOk
  <2> QED
    BY <1>1, <2>3, <2>4, <2>6 DEF Traced, H
<1>6. CASE Broadcast(v, q) \/ chaseQuorum(v, q)
  <2>1. UNCHANGED <<held, parked, sess>>
    BY <1>6 DEF Broadcast, chaseQuorum, parkVars, sessVars
  <2>2. posts' = posts \/ posts' = posts \cup PostsOf(v, q)
    BY <1>6 DEF Broadcast, chaseQuorum
  <2> QED
    BY <1>1, <2>1, <2>2, OwnShareGood DEF Traced
<1> QED
  BY <1>2, <1>3, <1>4, <1>5, <1>6 DEF OnRequest

(* A handler files or parks the share it was sent. *)
LEMMA HandlerTraced ==
  ASSUME NodeInv, Traced, NEW m \in posts, Handler(m)
  PROVE  Traced'
<1>0. SessOk /\ ParkOk /\ PostOk
  BY DEF NodeInv
<1> DEFINE v == m.to
           q == m.req
           H == Harmless(forged)
<1>1. m \in Post /\ v \in Live /\ q \in Requests
  BY <1>0 DEF PostOk, Post
<1>2. forged' = forged
  BY DEF Handler, OnPeerShare, park, faultVars
<1>3. m.share \in H
  BY DEF Traced
<1>4. CASE OnPeerShare(m)
  <2>1. UNCHANGED <<held, parked>>
    BY <1>4 DEF OnPeerShare, taskVars, parkVars
  <2>2. \A n \in posts' : n.share \in H
    <3>1. [m EXCEPT !.at = "park"].share = m.share
      BY <1>1 DEF Post
    <3>2. posts' \subseteq posts \cup {[m EXCEPT !.at = "park"]}
      BY <1>4 DEF OnPeerShare
    <3> QED
      BY <1>3, <3>1, <3>2 DEF Traced
  <2>3. \/ sess' = sess
        \/ m.share.sig # "other" /\ sess' = [sess EXCEPT ![v][q] = Add(sess[v][q], m.share)]
    BY <1>4 DEF OnPeerShare
  <2>4. \A u \in Live, r \in Requests : sess'[u][r].equivocation \in forged \cup {NoIndex}
    <3>1. CASE sess' = sess
      BY <3>1 DEF Traced
    <3>2. CASE m.share.sig # "other" /\ sess' = [sess EXCEPT ![v][q] = Add(sess[v][q], m.share)]
      <4> HIDE DEF v, q
      <4> QED
        BY <1>0, <1>1, <1>3, <3>2, FiledTraced
    <3> QED
      BY <2>3, <3>1, <3>2
  <2> QED
    BY <1>2, <2>1, <2>2, <2>4 DEF Traced
<1>5. CASE park(m)
  <2>1. UNCHANGED <<held, sess>> /\ posts' \subseteq posts
    BY <1>5 DEF park, taskVars, sessVars
  <2> DEFINE known == parked[v][q] # <<>>
             full == ~known /\ Len(parkedOrder[v]) >= MaxParkedRequests
             kept == IF full THEN [parked[v] EXCEPT ![Head(parkedOrder[v])] = <<>>] ELSE parked[v]
             filed == IF Len(parked[v][q]) >= Operators THEN kept
                      ELSE [kept EXCEPT ![q] = Append(kept[q], m.share)]
  <2>2. parked \in [Live -> [Requests -> Seq(Share)]] /\ parked[v] \in [Requests -> Seq(Share)]
    BY <1>0, <1>1 DEF ParkOk
  <2>3. \A u \in Live, r \in Requests : parked[u][r] \in Seq(H)
    BY DEF Traced
  <2> HIDE DEF H
  <2>4. DOMAIN kept = Requests /\ \A r \in Requests : kept[r] \in Seq(H)
    <3>1. <<>> \in Seq(H)
      BY EmptySeq
    <3> QED
      BY <1>1, <2>2, <2>3, <3>1
  <2>5. parked' = [parked EXCEPT ![v] = filed]
    BY <1>5, <2>2, <2>4 DEF park
  <2> HIDE DEF kept
  <2>6. \A r \in Requests : filed[r] \in Seq(H)
    <3>1. Append(kept[q], m.share) \in Seq(H)
      BY <1>1, <1>3, <2>4, AppendProperties
    <3> QED
      BY <1>1, <2>4, <3>1
  <2> HIDE DEF filed
  <2>7. \A u \in Live, r \in Requests : parked'[u][r] \in Seq(H)
    BY <1>1, <2>2, <2>3, <2>5, <2>6
  <2> QED
    BY <1>2, <2>1, <2>7 DEF Traced, H
<1> QED
  BY <1>4, <1>5 DEF Handler

(* A crash empties one node. *)
LEMMA RestartTraced ==
  ASSUME NodeInv, Traced, NEW v \in Live, Restart(v)
  PROVE  Traced'
<1>0. TaskOk /\ SessOk /\ ParkOk
  BY DEF NodeInv
<1>1. forged' = forged
  BY DEF Restart, Spend
<1> DEFINE H == Harmless(forged)
<1>2. <<>> \in Seq(H) /\ NewSession.equivocation = NoIndex
  BY EmptySeq DEF NewSession
<1>3. /\ held' = Fresh(held, v, <<>>) /\ parked' = Fresh(parked, v, <<>>)
      /\ sess' = Fresh(sess, v, NewSession) /\ posts' \subseteq posts
  BY DEF Restart
<1>4. \A u \in Live, r \in Requests : held[u][r] \in Seq(H) /\ parked[u][r] \in Seq(H)
  BY DEF Traced
<1>5. \A m \in posts' : m.share \in H
  BY <1>3 DEF Traced
<1>6. \A u \in Live, r \in Requests : sess'[u][r].equivocation \in forged \cup {NoIndex}
  BY <1>0, <1>2, <1>3 DEF Fresh, Traced, SessOk
<1> HIDE DEF H
<1>7. \A u \in Live, r \in Requests : held'[u][r] \in Seq(H) /\ parked'[u][r] \in Seq(H)
  BY <1>0, <1>2, <1>3, <1>4 DEF Fresh, TaskOk, ParkOk
<1> QED
  BY <1>1, <1>5, <1>6, <1>7 DEF Traced, H

(* A post from outside may add an index to the forged ones; what was        *)
(* harmless before is so still. *)
LEMMA FaultyTraced ==
  ASSUME Traced, NEW p \in Share, NEW v \in Live, NEW q \in Requests, FaultyPost(p, v, q)
  PROVE  Traced'
<1> DEFINE H == Harmless(forged)
           G == Harmless(forged')
           post == [from |-> NoIndex, to |-> v, req |-> q, share |-> p, at |-> "wire"]
<1>1. forged \subseteq forged' /\ (p.sig = "bad" => p.index \in forged')
  BY DEF FaultyPost
<1>2. H \subseteq G /\ p \in G
  BY <1>1 DEF Harmless
<1>3. posts' = posts \cup {post} /\ post.share = p
  BY DEF FaultyPost
<1>4. \A m \in posts' : m.share \in G
  BY <1>2, <1>3 DEF Traced
<1>5. UNCHANGED <<held, parked, sess>>
  BY DEF FaultyPost, taskVars, parkVars, sessVars
<1>6. \A u \in Live, r \in Requests : held[u][r] \in Seq(H) /\ parked[u][r] \in Seq(H)
  BY DEF Traced
<1>7. \A u \in Live, r \in Requests : sess'[u][r].equivocation \in forged' \cup {NoIndex}
  BY <1>1, <1>5 DEF Traced
<1> HIDE DEF H, G
<1>8. \A z \in Seq(H) : z \in Seq(G)
  BY <1>2
<1>9. \A u \in Live, r \in Requests : held'[u][r] \in Seq(G) /\ parked'[u][r] \in Seq(G)
  BY <1>5, <1>6, <1>8
<1> QED
  BY <1>4, <1>7, <1>9 DEF Traced, G

(* Every step. *)
LEMMA TracedStep == NodeInv /\ Traced /\ [NodeNext]_nodeVars => Traced'
<1> SUFFICES ASSUME NodeInv, Traced, [NodeNext]_nodeVars PROVE Traced'
  OBVIOUS
<1>1. CASE \/ \E q \in Requests : RequestMade(q) \/ Refunded(q)
           \/ \E tx \in txs : Mined(tx)
           \/ \E v \in Live : Watch(v)
  <2>1. UNCHANGED <<posts, held, parked, sess, forged>>
    BY <1>1 DEF RequestMade, Refunded, Mined, Watch, Poll, Report, taskVars, parkVars,
                sessVars, faultVars
  <2> QED
    BY <2>1, TracedSame
<1>2. ASSUME NEW v \in Live, Restart(v) PROVE Traced'
  BY <1>2, RestartTraced
<1>3. ASSUME NEW v \in Live, NEW q \in Requests, OnRequest(v, q) PROVE Traced'
  BY <1>3, OnRequestTraced
<1>4. ASSUME NEW v \in Live, NEW q \in Requests,
             Publisher(v, q) \/ FulfillRefused(v, q)
      PROVE  Traced'
  <2>1. UNCHANGED <<posts, held, parked, sess>>
    BY <1>4 DEF Publisher, TakeTurn, Fulfill, RetrySend, FulfillRefused, forget,
                taskVars, parkVars, sessVars
  <2>2. forged' = forged
    BY <1>4 DEF Publisher, TakeTurn, Fulfill, RetrySend, FulfillRefused, Spend, faultVars
  <2> QED
    BY <2>1, <2>2, TracedSame
<1>5. ASSUME NEW m \in posts, Handler(m) PROVE Traced'
  BY <1>5, HandlerTraced
<1>6. ASSUME NEW m \in posts, Lost(m) PROVE Traced'
  <2>1. UNCHANGED <<held, parked, sess, forged>> /\ posts' \subseteq posts
    BY <1>6 DEF Lost, Spend, taskVars, parkVars, sessVars
  <2> QED
    BY <2>1, TracedSame
<1>7. ASSUME NEW p \in Share, NEW v \in Live, NEW q \in Requests, FaultyPost(p, v, q)
      PROVE  Traced'
  BY <1>7, FaultyTraced
<1>8. CASE UNCHANGED nodeVars
  BY <1>8, TracedSame DEF nodeVars, taskVars, parkVars, sessVars, faultVars
<1> QED
  BY <1>1, <1>2, <1>3, <1>4, <1>5, <1>6, <1>7, <1>8 DEF NodeNext

(* session.Add accuses an operator only where somebody posted a false share *)
(* in its name, whatever is lost, repeated, parked, evicted, taken after a  *)
(* crash or signed for another seed, and however often anything is posted.  *)
(* That the operator itself posted it is what the code does not establish.  *)
THEOREM AccusedOnlyIfForgedAlways == NodeSpec => []AccusedOnlyIfForged
<1>1. Traced => AccusedOnlyIfForged
  BY DEF Traced, AccusedOnlyIfForged
<1> QED
  BY <1>1, TracedInit, TracedStep, NodeInvariant, PTL DEF NodeSpec
=============================================================================

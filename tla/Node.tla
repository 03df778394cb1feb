-------------------------------- MODULE Node --------------------------------
(***************************************************************************)
(* The operators' daemons: src/node/internal/node/node.go over the mesh     *)
(* (internal/mesh/mesh.go) and the chain client (internal/chain/chain.go).  *)
(* Every node watches the chain's log, signs each request it sees, posts    *)
(* its share to the others, collects theirs, and publishes once it holds a  *)
(* quorum.                                                                  *)
(*                                                                         *)
(* A node runs many goroutines: the watch loop, one OnRequest per request,  *)
(* a handler per share posted to it, and at most one publisher per request. *)
(* An action is what a goroutine does under one lock, or between two waits. *)
(* Waits end at any time: the stagger of PublishRank and all intervals only *)
(* make some of these interleavings more likely.                            *)
(*                                                                         *)
(* Restart is a crash at any point: a node keeps nothing, and scans again   *)
(* from Lookback blocks before the head.                                    *)
(***************************************************************************)
EXTENDS Session, Sequences

CONSTANTS
  Live,                 \* indices of the operators that run this code
  Faulty,               \* indices of operators that sign and post at will
  Requests,
  MaxParkedRequests,
  MaxSettledMemory,
  RebroadcastAttempts,
  SendRetries,
  Lookback,
  MaxLosses,            \* bound: posts that never arrive or are turned away
  MaxRefusals,          \* bound: calls the chain's endpoint refuses
  MaxRestarts,          \* bound: crashes
  MaxFaultyPosts        \* bound: posts of faulty operators

ASSUME NodeAssumption ==
  /\ Live \subseteq Indices
  /\ Faulty \subseteq Indices \ Live
  /\ MaxParkedRequests \in Nat \ {0}
  /\ MaxSettledMemory \in Nat \ {0}
  /\ RebroadcastAttempts \in Nat
  /\ SendRetries \in Nat
  /\ Lookback \in Nat
  /\ {MaxLosses, MaxRefusals, MaxRestarts, MaxFaultyPosts} \subseteq Nat

VARIABLES
  log,          \* the coordinator's events, one per block
  status,       \* of each request on chain
  txs,          \* fulfilments the endpoint took and not mined yet; copies are one
  next,         \* Watch's next block
  head,         \* the head of the scan under way, next - 1 when there is none
  cursor,       \* the first block it has not looked at for fulfilments
  task,         \* where OnRequest is
  held,         \* the parked shares OnRequest took and has still to file
  attempt,      \* broadcasts repeated by chaseQuorum
  sessions,     \* keys of the sessions map
  sess,         \* the session objects
  published,
  pub,          \* where the publisher is
  sends,        \* its failed attempts
  signers,      \* the shares aggregated into its signature
  parked,
  parkedOrder,
  settledOrder, \* settled is the set of its members
  posts,        \* shares being posted: on the wire, or in a handler
  budget,       \* faults the environment may still cause
  sent,         \* history: transactions taken since the node started
  forged        \* history: indices somebody else posted a false share for

chainVars == <<log, status, txs>>
taskVars == <<task, held, attempt>>
pubVars == <<published, pub, sends, signers, sent>>
sessVars == <<sessions, sess>>
parkVars == <<parked, parkedOrder>>
watchVars == <<next, head, cursor, settledOrder>>
faultVars == <<budget, forged>>
nodeVars == <<chainVars, taskVars, pubVars, sessVars, parkVars, watchVars, posts, faultVars>>

Range1(s) == {s[i] : i \in 1..Len(s)}

settled(v) == Range1(settledOrder[v])

PerRequest(x) == [v \in Live |-> [q \in Requests |-> x]]

-----------------------------------------------------------------------------
NodeInit ==
  /\ log = <<>>
  /\ status = [q \in Requests |-> "none"]
  /\ txs = {}
  /\ next = [v \in Live |-> 1]
  /\ head = [v \in Live |-> 0]
  /\ cursor = [v \in Live |-> 1]
  /\ task = PerRequest("none")
  /\ held = PerRequest(<<>>)
  /\ attempt = PerRequest(0)
  /\ sessions = [v \in Live |-> {}]
  /\ sess = PerRequest(NewSession)
  /\ published = [v \in Live |-> {}]
  /\ pub = PerRequest("none")
  /\ sends = PerRequest(0)
  /\ signers = PerRequest({})
  /\ parked = PerRequest(<<>>)
  /\ parkedOrder = [v \in Live |-> <<>>]
  /\ settledOrder = [v \in Live |-> <<>>]
  /\ posts = {}
  /\ budget = [losses |-> MaxLosses, refusals |-> MaxRefusals,
               restarts |-> MaxRestarts, faulty |-> MaxFaultyPosts]
  /\ sent = PerRequest(0)
  /\ forged = {}

Spend(kind) ==
  /\ budget[kind] > 0
  /\ budget' = [budget EXCEPT ![kind] = @ - 1]
  /\ UNCHANGED forged

-----------------------------------------------------------------------------
(* The chain, as the nodes see it. *)

RequestMade(q) ==
  /\ status[q] = "none"
  /\ status' = [status EXCEPT ![q] = "open"]
  /\ log' = Append(log, [event |-> "requested", req |-> q])
  /\ UNCHANGED <<txs, taskVars, pubVars, sessVars, parkVars, watchVars, posts, faultVars>>

(* A fulfilment of a request that is closed by then reverts. *)
Mined(tx) ==
  /\ txs' = txs \ {tx}
  /\ IF status[tx.req] = "open"
     THEN /\ status' = [status EXCEPT ![tx.req] = "fulfilled"]
          /\ log' = Append(log, [event |-> "fulfilled", req |-> tx.req])
     ELSE UNCHANGED <<status, log>>
  /\ UNCHANGED <<taskVars, pubVars, sessVars, parkVars, watchVars, posts, faultVars>>

(* The scan reads no refunds: a node learns of one only by asking. *)
Refunded(q) ==
  /\ status[q] = "open"
  /\ status' = [status EXCEPT ![q] = "refunded"]
  /\ UNCHANGED <<log, txs, taskVars, pubVars, sessVars, parkVars, watchVars, posts, faultVars>>

-----------------------------------------------------------------------------
(* The fulfilments and the requests in a range of blocks. *)
Fulfilments(first, last) == {i \in first..last : log[i].event = "fulfilled"}

Asked(first, last) == {log[i].req : i \in {j \in first..last : log[j].event = "requested"}}

(* A scan up to block last goes on at block from: when no fulfilment is left
   to report, each new request gets a goroutine, which waits for nothing, and
   the scan is done. *)
HandOver(v, from, last) ==
  /\ head' = [head EXCEPT ![v] = last]
  /\ IF Fulfilments(from, last) # {}
     THEN /\ cursor' = [cursor EXCEPT ![v] = from]
          /\ UNCHANGED <<next, task>>
     ELSE /\ cursor' = [cursor EXCEPT ![v] = last + 1]
          /\ next' = [next EXCEPT ![v] = last + 1]
          /\ task' = [task EXCEPT ![v] =
               [q \in Requests |-> IF q \in Asked(next[v], last) THEN "seen" ELSE @[q]]]

(* Mutant: the memory keeps one request more than it should. *)
RememberOneMore(order, id) ==
  IF id \in Range1(order) THEN order
  ELSE IF Len(order) <= MaxSettledMemory THEN Append(order, id)
  ELSE Append(Tail(order), id)

(* The oldest falls out of a full memory. *)
Remember(order, id) ==
  IF id \in Range1(order) THEN order
  ELSE IF Len(order) < MaxSettledMemory THEN Append(order, id)
  ELSE Append(Tail(order), id)

(* The oldest fulfilment of a range is remembered, under the node's lock. *)
OnFulfilled(v, from, last) ==
  \E i \in Fulfilments(from, last) :
    /\ \A j \in Fulfilments(from, last) : i <= j
    /\ settledOrder' = [settledOrder EXCEPT ![v] = Remember(@, log[i].req)]
    /\ HandOver(v, i + 1, last)

(* A successful poll, up to its first report.  The head it read may be older
   than the chain's by then. *)
Poll(v) ==
  /\ head[v] < next[v]
  /\ \E last \in next[v]..Len(log) :
       \/ OnFulfilled(v, next[v], last)
       \/ /\ Fulfilments(next[v], last) = {}
          /\ HandOver(v, next[v], last)
          /\ UNCHANGED settledOrder
  /\ UNCHANGED <<chainVars, held, attempt, pubVars, sessVars, parkVars, posts, faultVars>>

(* Its further reports, and whatever happens between them. *)
Report(v) ==
  /\ OnFulfilled(v, cursor[v], head[v])
  /\ UNCHANGED <<chainVars, held, attempt, pubVars, sessVars, parkVars, posts, faultVars>>

-----------------------------------------------------------------------------
(* Mutant: without the published map. *)
maybePublishAgain(v, q, s) ==
  IF Ready(s)
  THEN /\ published' = [published EXCEPT ![v] = @ \cup {q}]
       /\ pub' = [pub EXCEPT ![v][q] = "turn"]
       /\ signers' = [signers EXCEPT ![v][q] = Signature(s)]
       /\ UNCHANGED <<sends, sent>>
  ELSE UNCHANGED pubVars

(* maybePublish up to its first wait: one publisher per request, holding the
   signature aggregated from what the session has now. *)
maybePublish(v, q, s) ==
  IF Ready(s) /\ q \notin published[v]
  THEN /\ published' = [published EXCEPT ![v] = @ \cup {q}]
       /\ pub' = [pub EXCEPT ![v][q] = "turn"]
       /\ signers' = [signers EXCEPT ![v][q] = Signature(s)]
       /\ UNCHANGED <<sends, sent>>
  ELSE UNCHANGED pubVars

OwnShare(v) == [index |-> v, sig |-> "good"]

(* OnRequest: nothing to do for a request known to be settled; otherwise the
   session peers' shares are filed in from now on. *)
sessionFor(v, q) ==
  /\ task[v][q] = "seen"
  /\ IF q \in settled(v)
     THEN /\ task' = [task EXCEPT ![v][q] = "done"]
          /\ UNCHANGED sessions
     ELSE /\ task' = [task EXCEPT ![v][q] = "opened"]
          /\ sessions' = [sessions EXCEPT ![v] = @ \cup {q}]
  /\ UNCHANGED <<chainVars, held, attempt, pubVars, sess, parkVars, watchVars, posts, faultVars>>

(* The node's own share goes through the same Add as everybody's; when it is
   turned away OnRequest ends there. *)
Sign(v, q) ==
  /\ task[v][q] = "opened"
  /\ task' = [task EXCEPT ![v][q] = IF AddAccepts(sess[v][q], OwnShare(v))
                                   THEN "signed" ELSE "done"]
  /\ sess' = [sess EXCEPT ![v][q] = Add(@, OwnShare(v))]
  /\ UNCHANGED <<chainVars, held, attempt, pubVars, sessions, parkVars, watchVars, posts, faultVars>>

(* Mutant: leaves the request in the eviction order. *)
takeParkedOnly(v, q) ==
  /\ task[v][q] = "signed"
  /\ task' = [task EXCEPT ![v][q] = "filing"]
  /\ held' = [held EXCEPT ![v][q] = parked[v][q]]
  /\ parked' = [parked EXCEPT ![v][q] = <<>>]
  /\ UNCHANGED <<chainVars, attempt, pubVars, sessVars, watchVars, posts, faultVars,
                 parkedOrder>>

(* The list without its first entry for q. *)
Without(order, q) ==
  LET at == {i \in 1..Len(order) : order[i] = q}
      first == CHOOSE i \in at : \A j \in at : i <= j
  IN IF at = {} THEN order
     ELSE [i \in 1..(Len(order) - 1) |-> IF i < first THEN order[i] ELSE order[i + 1]]

(* OnRequest goes on to take what was parked for the request. *)
takeParked(v, q) ==
  /\ task[v][q] = "signed"
  /\ task' = [task EXCEPT ![v][q] = "filing"]
  /\ held' = [held EXCEPT ![v][q] = parked[v][q]]
  /\ parked' = [parked EXCEPT ![v][q] = <<>>]
  /\ parkedOrder' = IF parked[v][q] = <<>> THEN parkedOrder
                    ELSE [parkedOrder EXCEPT ![v] = Without(@, q)]
  /\ UNCHANGED <<chainVars, attempt, pubVars, sessVars, watchVars, posts, faultVars>>

(* A held share that names another seed is skipped. *)
FileHeld(v, q) ==
  /\ task[v][q] = "filing" /\ held[v][q] # <<>>
  /\ held' = [held EXCEPT ![v][q] = Tail(@)]
  /\ LET p == Head(held[v][q]) IN
     sess' = IF p.sig = "other" THEN sess ELSE [sess EXCEPT ![v][q] = Add(@, p)]
  /\ UNCHANGED <<chainVars, task, attempt, pubVars, sessions, parkVars, watchVars,
                 posts, faultVars>>

(* One post per peer; a peer that is down never answers and is left out. *)
PostsOf(v, q) == {[from |-> v, to |-> w, req |-> q, share |-> OwnShare(v), at |-> "wire"] :
                    w \in Live \ {v}}

Broadcast(v, q) ==
  /\ task[v][q] = "filing" /\ held[v][q] = <<>>
  /\ task' = [task EXCEPT ![v][q] = "chase"]
  /\ posts' = posts \cup PostsOf(v, q)
  /\ UNCHANGED <<chainVars, held, attempt, pubVars, sessVars, parkVars, watchVars, faultVars>>

(* Broadcast returns when every peer has answered or timed out. *)
Answered(v, q) == \A m \in posts : m.from = v => m.req # q

(* Mutant: a share is offered once. *)
NeverChase(v, q) == FALSE

StillShort(v, q) ==
  attempt[v][q] < RebroadcastAttempts /\ ~Ready(sess[v][q]) /\ q \notin published[v]

(* chaseQuorum, which OnRequest runs before its own maybePublish. *)
chaseQuorum(v, q) ==
  /\ task[v][q] = "chase" /\ Answered(v, q)
  /\ IF StillShort(v, q)
     THEN /\ attempt' = [attempt EXCEPT ![v][q] = @ + 1]
          /\ posts' = posts \cup PostsOf(v, q)
          /\ UNCHANGED <<task, pubVars>>
     ELSE /\ task' = [task EXCEPT ![v][q] = "done"]
          /\ maybePublish(v, q, sess[v][q])
          /\ attempt' = [attempt EXCEPT ![v][q] = 0]
          /\ UNCHANGED posts
  /\ UNCHANGED <<chainVars, held, sessVars, parkVars, watchVars, faultVars>>

-----------------------------------------------------------------------------
existingSession(v, q) == q \in sessions[v]

(* OnPeerShare up to its first decision: a share of a request without a
   session goes on to be parked, whatever happens before it is. *)
OnPeerShare(m) ==
  /\ m.at = "wire"
  /\ LET v == m.to
         q == m.req
         p == m.share
         s == Add(sess[v][q], p)
     IN
     IF ~existingSession(v, q)
     THEN /\ posts' = (posts \ {m}) \cup {[m EXCEPT !.at = "park"]}
          /\ UNCHANGED <<sess, pubVars>>
     ELSE /\ posts' = posts \ {m}
          /\ IF p.sig = "other"
             THEN UNCHANGED <<sess, pubVars>>
             ELSE /\ sess' = [sess EXCEPT ![v][q] = s]
                  /\ IF AddAccepts(sess[v][q], p)
                     THEN maybePublish(v, q, s)
                     ELSE UNCHANGED pubVars
  /\ UNCHANGED <<chainVars, taskVars, sessions, parkVars, watchVars, faultVars>>

(* A new request pushes out the oldest when the table is full; a request has
   room for as many shares as there are operators. *)
park(m) ==
  /\ m.at = "park"
  /\ posts' = posts \ {m}
  /\ LET v == m.to
         q == m.req
         p == m.share
         known == parked[v][q] # <<>>
         full == ~known /\ Len(parkedOrder[v]) >= MaxParkedRequests
         order == IF full THEN Tail(parkedOrder[v]) ELSE parkedOrder[v]
         kept == IF full THEN [parked[v] EXCEPT ![Head(parkedOrder[v])] = <<>>] ELSE parked[v]
     IN
     /\ parkedOrder' = [parkedOrder EXCEPT ![v] = IF known THEN @ ELSE Append(order, q)]
     /\ parked' = [parked EXCEPT ![v] =
          IF Len(parked[v][q]) >= Operators THEN kept
          ELSE [kept EXCEPT ![q] = Append(@, p)]]
  /\ UNCHANGED <<chainVars, taskVars, pubVars, sessVars, watchVars, faultVars>>

(* A post that times out on the way, or that the peer turns away. *)
Lost(m) ==
  /\ m.at = "wire"
  /\ Spend("losses")
  /\ posts' = posts \ {m}
  /\ UNCHANGED <<chainVars, taskVars, pubVars, sessVars, parkVars, watchVars>>

(* The index is read from the body, so a post from outside may carry any; but
   a share that verifies for an index takes the key of its operator. *)
FaultyPost(p, v, q) ==
  /\ status[q] # "none"
  /\ p.sig = "good" => p.index \in Faulty
  /\ budget["faulty"] > 0
  /\ budget' = [budget EXCEPT !["faulty"] = @ - 1]
  /\ forged' = IF p.sig = "bad" THEN forged \cup {p.index} ELSE forged
  /\ posts' = posts \cup {[from |-> NoIndex, to |-> v, req |-> q, share |-> p, at |-> "wire"]}
  /\ UNCHANGED <<chainVars, taskVars, pubVars, sessVars, parkVars, watchVars>>

-----------------------------------------------------------------------------
(* The publisher.  It ends by forgetting the session. *)
forget(v, q) ==
  /\ sessions' = [sessions EXCEPT ![v] = @ \ {q}]
  /\ pub' = [pub EXCEPT ![v][q] = "done"]
  /\ UNCHANGED sess

Open(q) == status[q] = "open"

(* Its turn has come: the log stream is consulted, then the chain.  A refused
   call is no answer, and the publisher goes on. *)
TakeTurn(v, q) ==
  /\ pub[v][q] = "turn"
  /\ \/ /\ q \in settled(v) \/ ~Open(q)
        /\ forget(v, q)
        /\ UNCHANGED faultVars
     \/ /\ q \notin settled(v)
        /\ Open(q)
        /\ pub' = [pub EXCEPT ![v][q] = "send"]
        /\ UNCHANGED <<sessVars, faultVars>>
     \/ /\ q \notin settled(v)
        /\ Spend("refusals")
        /\ pub' = [pub EXCEPT ![v][q] = "send"]
        /\ UNCHANGED sessVars
  /\ UNCHANGED <<chainVars, taskVars, published, sends, signers, sent, parkVars,
                 watchVars, posts>>

(* The endpoint takes the transaction. *)
Taken(v, q) ==
  /\ txs' = txs \cup {[from |-> v, req |-> q, signers |-> signers[v][q]]}
  /\ sent' = [sent EXCEPT ![v][q] = @ + 1]

Fulfill(v, q) ==
  /\ pub[v][q] = "send"
  /\ Taken(v, q)
  /\ forget(v, q)
  /\ UNCHANGED <<log, status, taskVars, published, sends, signers, parkVars,
                 watchVars, posts, faultVars>>

(* Mutant: one attempt too many. *)
exhaustedLate(v, q) == sends[v][q] > SendRetries

exhausted(v, q) == sends[v][q] >= SendRetries

(* Fulfill returned an error: the transaction was refused, or the endpoint
   took it and its answer was lost.  The node cannot tell the two apart. *)
FulfillRefused(v, q) ==
  /\ pub[v][q] = "send"
  /\ Spend("refusals")
  /\ Taken(v, q) \/ UNCHANGED <<txs, sent>>
  /\ IF exhausted(v, q)
     THEN forget(v, q)
     ELSE /\ pub' = [pub EXCEPT ![v][q] = "retry"]
          /\ UNCHANGED sessVars
  /\ UNCHANGED <<log, status, taskVars, published, sends, signers, parkVars, watchVars, posts>>

(* After the pause: closed by now, or another attempt. *)
RetrySend(v, q) ==
  /\ pub[v][q] = "retry"
  /\ \/ /\ ~Open(q)
        /\ forget(v, q)
        /\ UNCHANGED <<sends, faultVars>>
     \/ /\ \/ Open(q) /\ UNCHANGED faultVars
           \/ Spend("refusals")
        /\ pub' = [pub EXCEPT ![v][q] = "send"]
        /\ sends' = [sends EXCEPT ![v][q] = @ + 1]
        /\ UNCHANGED sessVars
  /\ UNCHANGED <<chainVars, taskVars, published, signers, sent, parkVars, watchVars,
                 posts>>

-----------------------------------------------------------------------------
Fresh(f, v, x) == [f EXCEPT ![v] = [q \in Requests |-> x]]

(* A crash and a restart.  Transactions already accepted and shares already
   on the wire are out of its hands; handlers die with the process. *)
Restart(v) ==
  /\ Spend("restarts")
  /\ LET first == IF Len(log) > Lookback THEN Len(log) - Lookback ELSE 1 IN
       /\ next' = [next EXCEPT ![v] = first]
       /\ head' = [head EXCEPT ![v] = first - 1]
       /\ cursor' = [cursor EXCEPT ![v] = first]
  /\ task' = Fresh(task, v, "none")
  /\ held' = Fresh(held, v, <<>>)
  /\ attempt' = Fresh(attempt, v, 0)
  /\ sessions' = [sessions EXCEPT ![v] = {}]
  /\ sess' = Fresh(sess, v, NewSession)
  /\ published' = [published EXCEPT ![v] = {}]
  /\ pub' = Fresh(pub, v, "none")
  /\ sends' = Fresh(sends, v, 0)
  /\ signers' = Fresh(signers, v, {})
  /\ parked' = Fresh(parked, v, <<>>)
  /\ parkedOrder' = [parkedOrder EXCEPT ![v] = <<>>]
  /\ settledOrder' = [settledOrder EXCEPT ![v] = <<>>]
  /\ posts' = {m \in posts : m.to = v => m.at = "wire"}
  /\ sent' = Fresh(sent, v, 0)
  /\ UNCHANGED chainVars

-----------------------------------------------------------------------------
OnRequest(v, q) ==
  sessionFor(v, q) \/ Sign(v, q) \/ takeParked(v, q) \/ FileHeld(v, q)
    \/ Broadcast(v, q) \/ chaseQuorum(v, q)

Watch(v) == Poll(v) \/ Report(v)

Publisher(v, q) == TakeTurn(v, q) \/ Fulfill(v, q) \/ RetrySend(v, q)

Handler(m) == OnPeerShare(m) \/ park(m)

NodeNext ==
  \/ \E q \in Requests : RequestMade(q) \/ Refunded(q)
  \/ \E tx \in txs : Mined(tx)
  \/ \E v \in Live : Watch(v) \/ Restart(v)
  \/ \E v \in Live, q \in Requests :
       OnRequest(v, q) \/ Publisher(v, q) \/ FulfillRefused(v, q)
  \/ \E m \in posts : Handler(m) \/ Lost(m)
  \/ \E p \in Share, v \in Live, q \in Requests : FaultyPost(p, v, q)

(* Every goroutine that can run does, every post is answered, every accepted
   transaction is mined and the watch loop keeps polling.  Nothing obliges a
   request to be made or refunded, or a fault to happen. *)
Fairness ==
  /\ \A v \in Live : WF_nodeVars(Watch(v))
  /\ \A v \in Live, q \in Requests :
       WF_nodeVars(OnRequest(v, q)) /\ WF_nodeVars(Publisher(v, q))
  /\ WF_nodeVars(\E m \in posts : Handler(m))
  /\ WF_nodeVars(\E tx \in txs : Mined(tx))

NodeSpec == NodeInit /\ [][NodeNext]_nodeVars /\ Fairness

-----------------------------------------------------------------------------
Steps == {"none", "seen", "opened", "signed", "filing", "chase", "done"}

Post == [from : Live \cup {NoIndex}, to : Live, req : Requests, share : Share,
         at : {"wire", "park"}]

(* Types, and no more than the code's retries. *)
NodeTypeOK ==
  /\ log \in Seq([event : {"requested", "fulfilled"}, req : Requests])
  /\ status \in [Requests -> {"none", "open", "fulfilled", "refunded"}]
  /\ txs \subseteq [from : Live, req : Requests, signers : SUBSET Share]
  /\ {next, head, cursor} \subseteq [Live -> Nat]
  /\ task \in [Live -> [Requests -> Steps]]
  /\ held \in [Live -> [Requests -> Seq(Share)]]
  /\ attempt \in [Live -> [Requests -> 0..RebroadcastAttempts]]
  /\ sessions \in [Live -> SUBSET Requests]
  /\ sess \in [Live -> [Requests -> Sessions]]
  /\ published \in [Live -> SUBSET Requests]
  /\ pub \in [Live -> [Requests -> {"none", "turn", "send", "retry", "done"}]]
  /\ sends \in [Live -> [Requests -> 0..SendRetries]]
  /\ signers \in [Live -> [Requests -> SUBSET Share]]
  /\ parked \in [Live -> [Requests -> Seq(Share)]]
  /\ parkedOrder \in [Live -> Seq(Requests)]
  /\ settledOrder \in [Live -> Seq(Requests)]
  /\ posts \subseteq Post
  /\ budget \in [{"losses", "refusals", "restarts", "faulty"} -> Nat]
  /\ sent \in [Live -> [Requests -> Nat]]
  /\ forged \subseteq Indices

(* A node never pays for a signature the coordinator would refuse: whatever
   mixture of good, bad, conflicting, repeated, parked and late shares it was
   sent, what it publishes aggregates a threshold of verified shares of
   different operators. *)
QuorumBehindEveryTx ==
  \A tx \in txs :
    /\ \A p \in tx.signers : p.sig = "good"
    /\ Cardinality({p.index : p \in tx.signers}) >= Threshold

(* However many handlers and loops find the quorum complete, a node that does
   not crash sends a request's transaction again only after its last attempt
   failed, so at most once more than it retried.  A second one is possible: the
   attempt may have failed after the endpoint took the first. *)
ResentOnlyAfterError ==
  \A v \in Live, q \in Requests : sent[v][q] <= 1 + sends[v][q]

(* The eviction order lists exactly the requests that have parked shares, each
   once, and both bounds hold after any interleaving of parking, eviction and
   taking. *)
ParkedExact ==
  \A v \in Live :
    /\ Range1(parkedOrder[v]) = {q \in Requests : parked[v][q] # <<>>}
    /\ \A i, j \in 1..Len(parkedOrder[v]) : parkedOrder[v][i] = parkedOrder[v][j] => i = j
    /\ Len(parkedOrder[v]) <= MaxParkedRequests
    /\ \A q \in Requests : Len(parked[v][q]) <= Operators

(* What a node remembers as settled was fulfilled on chain, so it never leaves
   an open request unsigned or unpublished; the memory has no repeats and
   keeps its bound through rescans and restarts. *)
SettledExact ==
  \A v \in Live :
    /\ \A q \in settled(v) : status[q] = "fulfilled"
    /\ \A i, j \in 1..Len(settledOrder[v]) : settledOrder[v][i] = settledOrder[v][j] => i = j
    /\ Len(settledOrder[v]) <= MaxSettledMemory

(* Nobody is recorded as having signed two things because a share of his was
   posted again, parked, taken after a crash or named another seed: it takes a
   share in his name that does not verify. *)
AccusedOnlyIfForged ==
  \A v \in Live, q \in Requests : sess[v][q].equivocation \in forged \cup {NoIndex}

(* An Equivocation is evidence by itself, so an operator that runs this code
   is never recorded as having signed two things, whoever posts what. *)
NeverAccused ==
  \A v \in Live, q \in Requests : sess[v][q].equivocation \notin Live

(* A session pays for at most one pairing per operator. *)
OneVerificationEach ==
  \A v \in Live, q \in Requests :
    /\ sess[v][q].verifications = Cardinality(sess[v][q].spent)
    /\ {p.index : p \in sess[v][q].partials} \subseteq sess[v][q].spent

(* With a quorum of operators up, every request made is closed in the end,
   although posts are lost, the endpoint refuses calls, a node crashes in the
   middle, and a share may be parked just after its request was announced. *)
EveryRequestCloses == \A q \in Requests : status[q] = "open" ~> status[q] # "open"
=============================================================================

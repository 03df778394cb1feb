------------------------------ MODULE Ceremony ------------------------------
(***************************************************************************)
(* A key ceremony: src/node/cmd/vrfceremony/main.go around the bulletin     *)
(* board (internal/dkgnet/board.go), one run of the protocol                *)
(* (internal/dkgnet/run.go), its session nonce (internal/dkg/nonce.go) and  *)
(* the write of the resulting share (internal/keystore/keystore.go).        *)
(*                                                                         *)
(* The rounds belong to the kyber library.  They are modelled from how Run  *)
(* configures them and what the board's comments expect of them: dealers    *)
(* deal at once, a participant complains a phase later about deals it has   *)
(* not seen, a dealer justifies itself a phase after that.                  *)
(*                                                                         *)
(* Time is a clock of ticks: a post, a callback or a phase that is due is   *)
(* done before the clock moves.  A tick stands for the longest pause        *)
(* between two attempts at a post.                                          *)
(***************************************************************************)
EXTENDS Integers, FiniteSets, SequencesExt

CONSTANTS
  Members,      \* indices of the group to be
  OldMembers,   \* of the group a resharing starts from
  Listed,       \* the members and old members, as each participant's file lists them
  Threshold, OldThreshold,
  Phase,        \* -phase, in ticks
  DefaultRetryWindow,
  MinBuffer, BufferPerMember, BufferSlack,
  MaxLate,      \* bound: ticks by which a participant may start late
  MaxFaults     \* bound: posts lost, answers lost, crashes, interrupts

Operators == Members \cup OldMembers

ASSUME CeremonyAssumption ==
  /\ Operators \subseteq Nat
  /\ IsFiniteSet(Operators)
  /\ \A p \in Operators :
       /\ Listed[p].members \in Seq(Members) /\ ToSet(Listed[p].members) = Members
       /\ Listed[p].oldMembers \in Seq(OldMembers) /\ ToSet(Listed[p].oldMembers) = OldMembers
  /\ {Threshold, OldThreshold, Phase, DefaultRetryWindow, MinBuffer, BufferPerMember,
      BufferSlack, MaxLate, MaxFaults} \subseteq Nat
  /\ OldMembers \subseteq Members
  /\ Threshold \in 1..Cardinality(Members)

Kinds == {"deals", "responses", "justifications"}

Never == -1     \* a participant that stays away, or whose files are refused

VARIABLES
  now,
  resharing,    \* whether the configuration names an old group
  begin,        \* when each participant starts
  stage,        \* where its process is
  out,          \* its bundles being delivered, one record for each peer
  chans,        \* the board's three channels
  mu,           \* the bundle in whose push the board's lock is held, if any
  closed,
  heard,        \* bundles the protocol has taken
  missing,      \* dealers it complained about
  result,       \* of Run
  disk,         \* the keystore's file and its .tmp
  faults

boardVars == <<out, chans, mu, closed>>
kyberVars == <<heard, missing, result>>
ceremonyVars == <<now, resharing, begin, stage, boardVars, kyberVars, disk, faults>>

Free == <<>>    \* nobody holds the lock

Fault == faults > 0 /\ faults' = faults - 1

-----------------------------------------------------------------------------
(* Configuration. *)

AddNew(list, q) == IF Contains(list, q) THEN list ELSE Append(list, q)

(* The new members behind the old, each once. *)
union(old, new) ==
  LET Out[n \in 0..Len(new)] == IF n = 0 THEN old ELSE AddNew(Out[n - 1], new[n])
  IN Out[Len(new)]

(* Mutant: members are hashed in the order in which they are listed. *)
UnsortedNonce(list) == list

Ascending(set) == CHOOSE s \in SetToSeqs(set) : IsSorted(s, <)

(* The hash of the list as sorted; no index is listed twice. *)
SessionNonce(list) == Ascending(ToSet(list))

NonceOf(p) ==
  SessionNonce(IF resharing THEN union(Listed[p].oldMembers, Listed[p].members)
               ELSE Listed[p].members)

(* In a resharing only those who name their old keystore hold a share to    *)
(* deal out. *)
Dealers == IF resharing THEN OldMembers ELSE Members
Needed == IF resharing THEN OldThreshold ELSE Threshold

peerURLs(p) == (IF resharing THEN Operators ELSE Members) \ {p}

(* Mutant: a long phase does not lengthen the retries. *)
DefaultOnly == DefaultRetryWindow

RetryWindow == IF Phase > DefaultRetryWindow THEN Phase ELSE DefaultRetryWindow

(* Mutant: the size asked for is ignored. *)
SmallestBuffer == MinBuffer

Buffer ==
  LET asked == BufferPerMember * Cardinality(Members) + BufferSlack
  IN IF asked < MinBuffer THEN MinBuffer ELSE asked

-----------------------------------------------------------------------------
(* The board. *)

Bundle(p, kind, about) == [kind |-> kind, from |-> p, nonce |-> NonceOf(p), about |-> about]

Running == {"deal", "respond", "justify"}

(* The server is up until the process ends. *)
Listening(p) == stage[p] \in Running \cup {"over", "closing", "saving", "writing", "written"}

(* push takes the lock and keeps it while the channel has no room. *)
push(p, b) ==
  /\ mu[p] = Free
  /\ ~closed[p]
  /\ IF Len(chans[p][b.kind]) < Buffer
     THEN chans' = [chans EXCEPT ![p][b.kind] = Append(@, b)] /\ UNCHANGED mu
     ELSE mu' = [mu EXCEPT ![p] = <<b>>] /\ UNCHANGED chans

Outgoing(p, b) ==
  {[from |-> p, to |-> q, bundle |-> b, due |-> now, deadline |-> now + RetryWindow] :
     q \in peerURLs(p)}

(* PushDeals, PushResponses, PushJustifications: to itself, then to all. *)
Push(p, b) == push(p, b) /\ out' = out \cup Outgoing(p, b)

Retry(d, pause) ==
  /\ mu[d.from] = Free
  /\ out' = (out \ {d}) \cup
       (IF now + pause > d.deadline \/ closed[d.from] THEN {}
        ELSE {[d EXCEPT !.due = now + pause]})

(* One attempt to deliver: it is taken, though the answer may be lost; it   *)
(* finds nobody, or a board that is closed or stuck; or it is lost. *)
deliver(d) ==
  /\ d \in out
  /\ d.due <= now
  /\ \/ /\ Listening(d.to)
        /\ push(d.to, d.bundle)
        /\ \/ out' = out \ {d} /\ UNCHANGED faults
           \/ Fault /\ \E pause \in 0..1 : Retry(d, pause)
     \/ /\ ~Listening(d.to) \/ closed[d.to] \/ mu[d.to] # Free
        /\ Retry(d, 1)
        /\ UNCHANGED <<chans, mu, faults>>
     \/ /\ Listening(d.to)
        /\ Fault
        /\ \E pause \in 0..1 : Retry(d, pause)
        /\ UNCHANGED <<chans, mu>>
  /\ UNCHANGED <<now, resharing, begin, stage, closed, kyberVars, disk>>

-----------------------------------------------------------------------------
(* The protocol.  A bundle with another nonce is a replay from another run. *)

(* The loop that reads the channels is also the one that pushes its own     *)
(* bundles.  A push that waits for room in the channel gets the place.      *)
OwnPush(p) == mu[p] # Free /\ mu[p][1].from = p

Take(p, kind) ==
  /\ stage[p] \in Running
  /\ chans[p][kind] # <<>>
  /\ ~OwnPush(p)
  /\ LET b == chans[p][kind][1]
         waiting == mu[p] # Free /\ mu[p][1].kind = kind
     IN /\ heard' = IF b.nonce = NonceOf(p) THEN [heard EXCEPT ![p] = @ \cup {b}] ELSE heard
        /\ chans' = [chans EXCEPT ![p][kind] = IF waiting THEN Tail(@) \o mu[p] ELSE Tail(@)]
        /\ mu' = IF waiting THEN [mu EXCEPT ![p] = Free] ELSE mu
  /\ UNCHANGED <<now, resharing, begin, stage, out, closed, missing, result, disk, faults>>

From(p, kind) == {b.from : b \in {x \in heard[p] : x.kind = kind}}

Accused(p) == missing[p] \cup
  UNION {b.about : b \in {x \in heard[p] : x.kind = "responses"}}

Due(p, round) == now >= begin[p] + round * Phase

Start(p) ==
  /\ stage[p] = "off"
  /\ begin[p] # Never
  /\ Due(p, 0)
  /\ stage' = [stage EXCEPT ![p] = "deal"]
  /\ IF p \in Dealers THEN Push(p, Bundle(p, "deals", {})) ELSE UNCHANGED <<out, chans, mu>>
  /\ UNCHANGED <<now, resharing, begin, closed, kyberVars, disk, faults>>

Respond(p) ==
  /\ stage[p] = "deal"
  /\ Due(p, 1)
  /\ stage' = [stage EXCEPT ![p] = "respond"]
  /\ LET none == Dealers \ From(p, "deals") IN
       /\ missing' = [missing EXCEPT ![p] = none]
       /\ IF none # {} THEN Push(p, Bundle(p, "responses", none))
          ELSE UNCHANGED <<out, chans, mu>>
  /\ UNCHANGED <<now, resharing, begin, closed, heard, result, disk, faults>>

(* Without complaints the protocol ends a round early. *)
Justify(p) ==
  /\ stage[p] = "respond"
  /\ Due(p, 2)
  /\ IF Accused(p) = {}
     THEN /\ stage' = [stage EXCEPT ![p] = "over"]
          /\ result' = [result EXCEPT ![p] = "share"]
          /\ UNCHANGED <<out, chans, mu>>
     ELSE /\ stage' = [stage EXCEPT ![p] = "justify"]
          /\ IF p \in Accused(p) THEN Push(p, Bundle(p, "justifications", {}))
             ELSE UNCHANGED <<out, chans, mu>>
          /\ UNCHANGED result
  /\ UNCHANGED <<now, resharing, begin, closed, heard, missing, disk, faults>>

Finish(p) ==
  /\ stage[p] = "justify"
  /\ Due(p, 3)
  /\ stage' = [stage EXCEPT ![p] = "over"]
  /\ LET evicted == Accused(p) \ From(p, "justifications") IN
       result' = [result EXCEPT ![p] =
         IF Cardinality(Dealers \ evicted) >= Needed /\ p \notin evicted
         THEN "share" ELSE "error"]
  /\ UNCHANGED <<now, resharing, begin, boardVars, heard, missing, disk, faults>>

(* A signal, or -timeout: Run returns the context's error.  (Kyber's own     *)
(* goroutine, which nothing stops and nobody reads any more, is left out.)  *)
Interrupt(p) ==
  /\ stage[p] \in Running
  /\ Fault
  /\ stage' = [stage EXCEPT ![p] = "over"]
  /\ result' = [result EXCEPT ![p] = "error"]
  /\ UNCHANGED <<now, resharing, begin, boardVars, heard, missing, disk>>

-----------------------------------------------------------------------------
(* main, after Run. *)

Close(p) ==
  /\ stage[p] = "over"
  /\ mu[p] = Free
  /\ closed' = [closed EXCEPT ![p] = TRUE]
  /\ stage' = [stage EXCEPT ![p] = "closing"]
  /\ UNCHANGED <<now, resharing, begin, out, chans, mu, kyberVars, disk, faults>>

Fail(p) == stage' = [stage EXCEPT ![p] = "failed"]

(* Close has waited for the deliveries; a failed ceremony ends here. *)
Waited(p) ==
  /\ stage[p] = "closing"
  /\ {d \in out : d.from = p} = {}
  /\ IF result[p] = "share" THEN stage' = [stage EXCEPT ![p] = "saving"] ELSE Fail(p)
  /\ UNCHANGED <<now, resharing, begin, boardVars, kyberVars, disk, faults>>

(* Mutant: the share is written over the keystore. *)
WriteInPlace(p) ==
  \/ /\ stage[p] = "saving"
     /\ disk' = [disk EXCEPT ![p].path = "half"]
     /\ stage' = [stage EXCEPT ![p] = "writing"]
     /\ UNCHANGED <<now, resharing, begin, boardVars, kyberVars, faults>>
  \/ /\ stage[p] = "writing"
     /\ disk' = [disk EXCEPT ![p].tmp = "new"]
     /\ stage' = [stage EXCEPT ![p] = "written"]
     /\ UNCHANGED <<now, resharing, begin, boardVars, kyberVars, faults>>

(* Save encrypts the share and writes it to a temporary file, which may     *)
(* fail before there is one or with half of it. *)
WriteTmp(p) ==
  /\ \/ /\ stage[p] = "saving"
        /\ disk' = [disk EXCEPT ![p].tmp = "half"]
        /\ stage' = [stage EXCEPT ![p] = "writing"]
        /\ UNCHANGED faults
     \/ /\ stage[p] = "writing"
        /\ disk' = [disk EXCEPT ![p].tmp = "new"]
        /\ stage' = [stage EXCEPT ![p] = "written"]
        /\ UNCHANGED faults
     \/ /\ stage[p] \in {"saving", "writing"}
        /\ Fault
        /\ Fail(p)
        /\ UNCHANGED disk
  /\ UNCHANGED <<now, resharing, begin, boardVars, kyberVars>>

(* The rename is atomic, and may fail. *)
Rename(p) ==
  /\ stage[p] = "written"
  /\ \/ /\ disk' = [disk EXCEPT ![p] = [path |-> disk[p].tmp, tmp |-> "none"]]
        /\ stage' = [stage EXCEPT ![p] = "done"]
        /\ UNCHANGED faults
     \/ /\ Fault
        /\ Fail(p)
        /\ UNCHANGED disk
  /\ UNCHANGED <<now, resharing, begin, boardVars, kyberVars>>

Crash(p) ==
  /\ Listening(p)
  /\ Fault
  /\ stage' = [stage EXCEPT ![p] = "crashed"]
  /\ out' = {d \in out : d.from # p}
  /\ UNCHANGED <<now, resharing, begin, chans, mu, closed, kyberVars, disk>>

-----------------------------------------------------------------------------
Exited == {"done", "failed", "crashed"}

(* What is to be done before the clock moves. *)
Urgent ==
  \/ \E d \in out : d.due <= now /\ (mu[d.from] = Free \/ mu[d.to] = Free)
  \/ \E p \in Operators :
       \/ stage[p] = "off" /\ begin[p] # Never /\ Due(p, 0)
       \/ stage[p] \in Running /\ ~OwnPush(p)
            /\ \E k \in Kinds : chans[p][k] # <<>>
       \/ stage[p] = "deal" /\ Due(p, 1)
       \/ stage[p] = "respond" /\ Due(p, 2)
       \/ stage[p] = "justify" /\ Due(p, 3)
       \/ stage[p] = "over" /\ mu[p] = Free
       \/ stage[p] \in {"saving", "writing", "written"}

Tick ==
  /\ ~Urgent
  /\ \E p \in Operators : stage[p] \notin Exited /\ begin[p] # Never
  /\ now < MaxLate + 3 * Phase + RetryWindow + 1
  /\ now' = now + 1
  /\ UNCHANGED <<resharing, begin, stage, boardVars, kyberVars, disk, faults>>

CeremonyInit ==
  /\ now = 0
  /\ resharing \in BOOLEAN
  /\ begin \in [Operators -> 0..MaxLate \cup {Never}]
  /\ stage = [p \in Operators |-> "off"]
  /\ out = {}
  /\ chans = [p \in Operators |-> [k \in Kinds |-> <<>>]]
  /\ mu = [p \in Operators |-> Free]
  /\ closed = [p \in Operators |-> FALSE]
  /\ heard = [p \in Operators |-> {}]
  /\ missing = [p \in Operators |-> {}]
  /\ result = [p \in Operators |-> "none"]
  /\ disk = [p \in Operators |->
       [path |-> IF resharing /\ p \in OldMembers THEN "old" ELSE "none", tmp |-> "none"]]
  /\ faults = MaxFaults

Work ==
  \/ \E d \in out : deliver(d)
  \/ \E p \in Operators :
       \/ \E k \in Kinds : Take(p, k)
       \/ Start(p) \/ Respond(p) \/ Justify(p) \/ Finish(p)
       \/ Close(p) \/ Waited(p) \/ WriteTmp(p) \/ Rename(p)

CeremonyNext ==
  \/ Work \/ Tick
  \/ \E p \in Operators : Interrupt(p) \/ Crash(p)

(* Processes run and time passes. *)
CeremonySpec ==
  /\ CeremonyInit
  /\ [][CeremonyNext]_ceremonyVars
  /\ WF_ceremonyVars(Work \/ Tick)

-----------------------------------------------------------------------------
(* PROPERTIES *)

Sound(p) == begin[p] # Never /\ stage[p] # "crashed" /\ result[p] # "error"

(* No participant complains about a dealer whose deal had a phase to come   *)
(* in and as long to find it listening, a tick being lost to each fault and *)
(* to a post that comes just before a start: retries reach a peer that was  *)
(* not up yet, a bundle taken twice does no harm, and all compute the same  *)
(* nonce whatever order their files list the members in. *)
HeardInTime ==
  \A p, q \in Operators :
    LET lost == 1 + MaxFaults - faults
        late == IF begin[q] > begin[p] THEN begin[q] - begin[p] ELSE 0
        wait == IF begin[p] > begin[q] THEN begin[p] - begin[q] ELSE 0
    IN (Sound(p) /\ Sound(q) /\ late + lost < Phase /\ wait + lost <= Phase)
         => q \notin missing[p]

(* Whatever moment a crash, a full disk or a failed ceremony chooses, the   *)
(* keystore is a whole share, an old one stays until a new one replaces it, *)
(* and only a ceremony that succeeded replaces it. *)
KeystoreWhole ==
  \A p \in Operators :
    /\ disk[p].path # "half"
    /\ resharing /\ p \in OldMembers => disk[p].path # "none"
    /\ disk[p].path = "new" => result[p] = "share"

(* The channels have room for every bundle of every participant and for one *)
(* more copy for each answer that is lost, so as long as only participants  *)
(* post, push never waits while it holds the board's lock, on which Close   *)
(* and every other delivery depend. *)
PushNeverWaits == \A p \in Operators : mu[p] = Free

(* Every participant's process ends: nobody waits for ever in push, Close   *)
(* or a delivery, and those who finish early leave no one hanging. *)
CeremonyEnds ==
  <>(\A p \in Operators : begin[p] # Never => stage[p] \in Exited)
=============================================================================

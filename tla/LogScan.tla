------------------------------ MODULE LogScan ------------------------------
(***************************************************************************)
(* The chain client's poll loop: Watch, eventsBetween and chunkRange of     *)
(* src/node/internal/chain/chain.go, the websocket hints that wake it       *)
(* (subscribe.go) and the choice of the first block (cmd/vrfnode/main.go).  *)
(*                                                                         *)
(* An action is one call to the endpoint or one callback; the chain grows,  *)
(* and the subscription comes and goes, between any two.  A wait ends at    *)
(* any time, so jitter and the pause between chunks are left out.           *)
(***************************************************************************)
EXTENDS Integers, SequencesExt

CONSTANTS
  FromBlock,    \* -from-block, 0 when not given
  Lookback,     \* -lookback
  MaxLogRange,  \* -max-log-range, 0 for no limit
  MaxInterval,  \* the longest wait, in poll intervals
  MaxBlocks,    \* bound: blocks the chain grows to
  MaxRequests,  \* bound: requests made
  MaxRefusals   \* bound: calls the endpoint refuses

ASSUME LogScanAssumption ==
  /\ {FromBlock, Lookback, MaxLogRange, MaxBlocks, MaxRequests, MaxRefusals} \subseteq Nat
  /\ MaxInterval \in Nat \ {0}

VARIABLES
  emitted,      \* the ids in the coordinator's events of each kind, in order
  count,        \* how many events of each kind the chain had after each block
  start,        \* WatchOptions.From
  next,         \* Watch's next
  at,           \* where the loop is
  head,         \* the head it read
  chunks,       \* ranges it has still to read
  logs,         \* logs read so far in this poll
  settling,     \* fulfilments it has still to report
  asking,       \* requests it has still to announce
  wait,         \* in poll intervals
  nudge,        \* the hint channel, of depth one
  subscribed,   \* whether the websocket is up
  settled,      \* ids OnFulfilled was called with
  announced,    \* requests OnRequest was called with
  refusals

chainVars == <<emitted, count, start>>
pollVars == <<next, head, chunks, logs>>
handVars == <<settling, asking, settled, announced>>
hintVars == <<nudge, subscribed>>
logScanVars == <<chainVars, pollVars, handVars, hintVars, at, wait, refusals>>

BlockNumber == Len(count)

Kinds == {"requested", "fulfilled"}

-----------------------------------------------------------------------------
(* The blocks a chain may add hold nothing, a request, a fulfilment of an   *)
(* open request, or both. *)
Asks == {<<>>} \cup {<<id>> : id \in 1..MaxRequests \cap {Len(emitted["requested"]) + 1}}

Fills == {<<>>} \cup {<<id>> : id \in ToSet(emitted["requested"]) \ ToSet(emitted["fulfilled"])}

Mine ==
  /\ Len(count) < MaxBlocks
  /\ \E ask \in Asks, fill \in Fills :
       emitted' = [k \in Kinds |-> emitted[k] \o (IF k = "requested" THEN ask ELSE fill)]
  /\ count' = Append(count, [k \in Kinds |-> Len(emitted'[k])])
  /\ UNCHANGED <<start, pollVars, handVars, hintVars, at, wait, refusals>>

(* Any log of the coordinator is a hint, one that no scan reads too; a full *)
(* channel drops it.  A dropped subscription is opened again later. *)
Hint ==
  /\ subscribed
  /\ nudge' = TRUE
  /\ UNCHANGED <<chainVars, pollVars, handVars, subscribed, at, wait, refusals>>

Subscribe ==
  /\ subscribed' = ~subscribed
  /\ UNCHANGED <<chainVars, pollVars, handVars, nudge, at, wait, refusals>>

-----------------------------------------------------------------------------
(* main's choice of the first block. *)
StartAt(h) ==
  CASE FromBlock # 0 -> FromBlock
    [] FromBlock = 0 /\ h > Lookback -> h - Lookback
    [] OTHER -> 0

(* Mutant: the last block of a range belongs to the next range too. *)
OverlappingChunks(from, to, max) ==
  IF max = 0 \/ to < from \/ to - from + 1 <= max
  THEN << <<from, to>> >>
  ELSE [i \in 1..((to - from) \div max + 1) |->
          LET first == from + (i - 1) * max IN
          <<first, IF first + max > to THEN to ELSE first + max>>]

chunkRange(from, to, max) ==
  IF max = 0 \/ to < from \/ to - from + 1 <= max
  THEN << <<from, to>> >>
  ELSE [i \in 1..((to - from) \div max + 1) |->
          LET first == from + (i - 1) * max IN
          <<first, IF first + max - 1 > to THEN to ELSE first + max - 1>>]

(* How many events there were before block b; genesis, block 0, has none. *)
Before(kind, b) == IF b - 1 \in DOMAIN count THEN count[b - 1][kind] ELSE 0

EventsBetween(kind, from, to) ==
  SubSeq(emitted[kind], Before(kind, from) + 1, Before(kind, to + 1))

(* eth_getLogs; only the order among events of a kind is ever looked at. *)
FilterLogs(range) == [k \in Kinds |-> EventsBetween(k, range[1], range[2])]

NoLogs == [k \in Kinds |-> <<>>]

Joined(first, second) == [k \in Kinds |-> first[k] \o second[k]]

Failed ==
  /\ refusals > 0
  /\ refusals' = refusals - 1
  /\ wait' = IF 2 * wait > MaxInterval THEN MaxInterval ELSE 2 * wait
  /\ at' = "waiting"

ReadHead ==
  /\ at = "head"
  /\ \/ /\ BlockNumber >= next
        /\ head' = BlockNumber
        /\ chunks' = chunkRange(next, BlockNumber, MaxLogRange)
        /\ logs' = NoLogs
        /\ at' = "logs"
        /\ UNCHANGED <<wait, refusals>>
     \/ /\ BlockNumber < next
        /\ wait' = 1
        /\ at' = "waiting"
        /\ UNCHANGED <<head, chunks, logs, refusals>>
     \/ Failed /\ UNCHANGED <<head, chunks, logs>>
  /\ UNCHANGED <<chainVars, next, handVars, hintVars>>

(* One eth_getLogs; a refusal throws away what earlier ranges brought.  The *)
(* logs are the coordinator's own, so they decode. *)
ReadChunk ==
  /\ at = "logs"
  /\ \/ /\ Len(chunks) > 1
        /\ logs' = Joined(logs, FilterLogs(chunks[1]))
        /\ chunks' = Tail(chunks)
        /\ UNCHANGED <<at, wait, settling, asking, refusals>>
     \/ /\ Len(chunks) = 1
        /\ LET all == Joined(logs, FilterLogs(chunks[1])) IN
             /\ settling' = all["fulfilled"]
             /\ asking' = all["requested"]
        /\ logs' = NoLogs
        /\ chunks' = <<>>
        /\ at' = "handing"
        /\ UNCHANGED <<wait, refusals>>
     \/ /\ Failed
        /\ logs' = NoLogs
        /\ chunks' = <<>>
        /\ UNCHANGED <<settling, asking>>
  /\ UNCHANGED <<chainVars, next, head, settled, announced, hintVars>>

OnFulfilled ==
  /\ at = "handing"
  /\ settling # <<>>
  /\ settled' = settled \cup {settling[1]}
  /\ settling' = Tail(settling)
  /\ UNCHANGED <<chainVars, pollVars, asking, announced, hintVars, at, wait, refusals>>

(* Mutant: requests are handed over while fulfilments are outstanding. *)
AnnounceFirst ==
  /\ at = "handing"
  /\ asking # <<>>
  /\ announced' = Append(announced, asking[1])
  /\ asking' = Tail(asking)
  /\ UNCHANGED <<chainVars, pollVars, settling, settled, hintVars, at, wait, refusals>>

OnRequest ==
  /\ at = "handing"
  /\ settling = <<>>
  /\ asking # <<>>
  /\ announced' = Append(announced, asking[1])
  /\ asking' = Tail(asking)
  /\ UNCHANGED <<chainVars, pollVars, settling, settled, hintVars, at, wait, refusals>>

Scanned ==
  /\ at = "handing"
  /\ settling = <<>> /\ asking = <<>>
  /\ next' = head + 1
  /\ wait' = 1
  /\ at' = "waiting"
  /\ UNCHANGED <<chainVars, head, chunks, logs, handVars, hintVars, refusals>>

(* Mutant: only a hint ends the wait. *)
NudgeOnly ==
  /\ at = "waiting"
  /\ nudge
  /\ at' = "head"
  /\ nudge' = FALSE
  /\ UNCHANGED <<chainVars, pollVars, handVars, subscribed, wait, refusals>>

(* The timer, or a hint taken off the channel. *)
waitOrNudge ==
  /\ at = "waiting"
  /\ at' = "head"
  /\ \/ UNCHANGED nudge
     \/ nudge /\ nudge' = FALSE
  /\ UNCHANGED <<chainVars, pollVars, handVars, subscribed, wait, refusals>>

-----------------------------------------------------------------------------
(* The daemon starts on a chain that has some history. *)
LogScanInit ==
  /\ LET asked == [k \in Kinds |-> IF k = "requested" THEN 1 ELSE 0]
         filled == [k \in Kinds |-> 1]
     IN count \in {<<>>, <<asked>>, <<asked, asked>>, <<asked, filled>>}
  /\ emitted = [k \in Kinds |-> IF Before(k, BlockNumber + 1) = 1 THEN <<1>> ELSE <<>>]
  /\ start = StartAt(BlockNumber)
  /\ next = start
  /\ at = "head"
  /\ head = 0
  /\ chunks = <<>> /\ logs = NoLogs
  /\ settling = <<>> /\ asking = <<>>
  /\ wait = 1
  /\ nudge = FALSE
  /\ subscribed = FALSE
  /\ settled = {}
  /\ announced = <<>>
  /\ refusals = MaxRefusals

Watch ==
  ReadHead \/ ReadChunk \/ OnFulfilled \/ OnRequest \/ Scanned \/ waitOrNudge

LogScanNext == Mine \/ Hint \/ Subscribe \/ Watch

(* The loop is a goroutine that is never descheduled for good, and refusals *)
(* are bounded: an endpoint that never answers again excuses everything.   *)
(* Hints and the subscription are owed nothing. *)
LogScanSpec ==
  /\ LogScanInit
  /\ [][LogScanNext]_logScanVars
  /\ WF_logScanVars(Watch)

-----------------------------------------------------------------------------
(* PROPERTIES *)

(* chunkRange covers every block of the range to scan once and in order,    *)
(* in pieces the endpoint accepts, whatever the limit ("a gap here loses    *)
(* requests silently; an overlap makes the node sign the same seed twice"). *)
ChunksCover ==
  BlockNumber >= next =>
    \A max \in 0..(MaxBlocks + 1) :
      LET c == chunkRange(next, BlockNumber, max) IN
      /\ \A b \in next..BlockNumber : \E i \in DOMAIN c : c[i][1] <= b /\ b <= c[i][2]
      /\ \A i, j \in DOMAIN c : i < j => c[i][2] < c[j][1]
      /\ \A i \in DOMAIN c :
           /\ next <= c[i][1] /\ c[i][1] <= c[i][2] /\ c[i][2] <= BlockNumber
           /\ max # 0 => c[i][2] - c[i][1] < max

(* The poll loop implements BlockScan: across refused calls, split scans,   *)
(* a growing chain and hints that are lost or false, each request from the  *)
(* first block on is announced exactly once, in order, after the fulfil-    *)
(* ments seen with it. *)
Abstract ==
  INSTANCE BlockScan WITH upto <- IF at = "handing" THEN head + 1 ELSE next

ScanImplements == Abstract!BlockScanSpec

(* Every event from the first block on is handed over in the end, without   *)
(* a hint ever coming ("a nudge that never comes costs latency and nothing  *)
(* else"). *)
ScanKeepsUp ==
  \A id \in 1..MaxRequests :
    /\ Contains(EventsBetween("requested", start, BlockNumber), id) ~> Contains(announced, id)
    /\ Contains(EventsBetween("fulfilled", start, BlockNumber), id) ~> id \in settled
=============================================================================

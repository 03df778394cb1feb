----------------------------- MODULE BlockScan -----------------------------
(***************************************************************************)
(* What the daemon needs from the chain client, whatever the endpoint does  *)
(* (WatchOptions in src/node/internal/chain/chain.go): every request made   *)
(* from block Start on is announced once, in the chain's order, and by the  *)
(* time one is announced every fulfilment in the blocks looked at so far    *)
(* has been reported, so that a request already settled needs no work.      *)
(***************************************************************************)
EXTENDS Integers, SequencesExt

Kinds == {"requested", "fulfilled"}

VARIABLES
  emitted,      \* the ids in the coordinator's events of each kind, in order
  count,        \* how many events of each kind the chain had after each block
  start,        \* the first block to look at
  upto,         \* the first block not looked at
  settled,      \* requests reported as fulfilled
  announced     \* requests handed over, in order

scanVars == <<emitted, count, start, upto, settled, announced>>

(* How many events there were before block b; genesis, block 0, has none. *)
Before(kind, b) == IF b - 1 \in DOMAIN count THEN count[b - 1][kind] ELSE 0

Looked(kind) == SubSeq(emitted[kind], Before(kind, start) + 1, Before(kind, upto))

(* Every event is in a block. *)
Complete == \A k \in Kinds : Before(k, Len(count) + 1) = Len(emitted[k])

-----------------------------------------------------------------------------
BlockScanInit ==
  /\ emitted \in [Kinds -> Seq(Nat)]
  /\ count \in Seq([Kinds -> Nat])
  /\ Complete
  /\ start \in Nat
  /\ upto = start
  /\ settled = {}
  /\ announced = <<>>

Grow ==
  /\ Len(count') = Len(count) + 1
  /\ IsPrefix(count, count')
  /\ \A k \in Kinds : IsPrefix(emitted[k], emitted'[k])
  /\ Complete'
  /\ UNCHANGED <<start, upto, settled, announced>>

(* Looks further once all that was seen is handed over. *)
Look ==
  /\ announced = Looked("requested")
  /\ settled = ToSet(Looked("fulfilled"))
  /\ upto <= Len(count)
  /\ upto' \in (upto + 1)..(Len(count) + 1)
  /\ UNCHANGED <<emitted, count, start, settled, announced>>

Report ==
  /\ \E id \in ToSet(Looked("fulfilled")) \ settled : settled' = settled \cup {id}
  /\ UNCHANGED <<emitted, count, start, upto, announced>>

Announce ==
  /\ ToSet(Looked("fulfilled")) \subseteq settled
  /\ IsStrictPrefix(announced, Looked("requested"))
  /\ announced' = SubSeq(Looked("requested"), 1, Len(announced) + 1)
  /\ UNCHANGED <<emitted, count, start, upto, settled>>

BlockScanNext == Grow \/ Look \/ Report \/ Announce

BlockScanSpec == BlockScanInit /\ [][BlockScanNext]_scanVars
=============================================================================

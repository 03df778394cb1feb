# A TLA+ development for threshold-vrf-bn254

The repository is a verifiable random function run by a group of operators. A consumer
contract asks for random words; any *t* of *n* operators together produce one BLS
signature over the request's seed; the words are hashed from that signature, which the
coordinator contract verifies on chain. This directory models the parts that carry its
logic, checks them with TLC on small instances, and proves the central invariants with
TLAPS for every value of the constants.

## The system and its parts

| part | state | operations | what makes it correct |
|---|---|---|---|
| accounts (`src/src/Subscription.sol`) | accounts, consumers (mapping and list), pending owners, counters, active ids, what payees may withdraw | owner API; `reserve`, `release`, `settle` for the coordinator; `withdraw` | reserved money is there; claims add up to the coin held; lists are exact; a cancelled id stays cancelled |
| coordinator (`src/src/VRFCoordinator.sol`) | requests, nonces | `requestRandomWords`, `fulfillRandomWords`, `fulfillBatch`, `retryCallback`, `refund` | a request is closed once and delivered once, at its quote, whatever consumers call while they are delivered to |
| fees and owner (same contract) | fees, pending fees, owner, pending owner | propose, apply, cancel, transfer, accept, renounce | notice before every change; nothing moves after renouncing |
| gas of a fulfilment (same contract, `internal/chain/chain.go`) | `gasleft()` | check, verify, settle, call, record | the consumer gets the whole budget its request paid for, where the transaction's limit covers what comes before it |
| signing session (`internal/session/session.go`) | verified shares, spent indices, evidence | `Add`, `Ready`, `Signature` | only verified shares count, one pairing per index; nobody is accused without a false share posted in his name (by whom, the code does not establish) |
| daemon (`internal/node/node.go`, `cmd/vrfnode`) | sessions, published, parked shares, settled memory | `OnRequest`, `OnPeerShare`, `chaseQuorum`, `maybePublish`, `OnFulfilled` | a quorum behind every transaction, a second transaction for a request only after an attempt that failed, every request closes |
| mesh (`internal/mesh/mesh.go`) | limiters | fan-out, share endpoint | (delivers, loses or refuses) |
| chain client: scanning (`internal/chain/chain.go`, `subscribe.go`) | next block, back-off, pending hint | `Watch`, `eventsBetween`, `chunkRange`, `Nudges` | every request from the first block on is announced once, in order, behind the fulfilments seen with it |
| publishing account (`chain.go`, `balance.go`, `earnings.go`, `checkBalance` in `cmd/vrfnode`) | nonce counter, balance cache, cached subscription address | `send`, `Refresh`, `Invalidate`, `Claim` | nonces without gaps or repeats; a fresh value is recent; claims pay; a poor operator can still collect |
| key ceremony (`cmd/vrfceremony`, `internal/dkgnet`, `internal/dkg/nonce.go`, `keystore.Save`) | the board's three bounded channels and lock, deliveries in flight, the keystore file | push, deliver with retries, `Close`, `Run`, `Save` | nobody in time is complained about; every process ends; no share is lost |
| the rest: encodings, encryption, metrics, status page, verifier contract, command-line tools | | | see *Not modelled* |

How they interact. The coordinator calls the accounts; consumers are called by the
coordinator with a bounded amount of gas and may call anything back. Daemons read the
coordinator's events by polling, post shares to each other over HTTP, and publish by
sending transactions; several may publish the same request, and the losers revert.

What is hard here: re-entrancy during deliveries, and a batch that keeps going after it
has handed out control; the free tier, where the money that otherwise forbids things is
zero; many goroutines of a daemon that all find the quorum complete; shares that arrive
before the request they belong to; lost posts, refused calls, crashes; rounding at 63/64;
a poll loop that must not lose a block when one of several calls fails; two goroutines
that share a nonce, a cache and a claim; operators who start a ceremony by hand, minutes
apart; a channel that fills while a lock is held.
`PROJECT.json` lists the hazards line by line with the properties aimed at them.

## Modules

`ChainAddresses` holds the addresses. `VRFCoordinator` EXTENDS `Subscription` and
`FeeSchedule`, so the three contracts' state machines run on one chain, and `Node` EXTENDS
`Session`. The `MC...` modules give the constants of the instances; a component's
properties are in its own module and its theorems in a `...Proofs` module. Definitions keep
the source's names;
`PROJECT.json` maps each to its lines. Definitions marked *Mutant* are plausible bugs;
each is put in the place of the definition below it to see that a property notices.

**Subscription.** A transaction is atomic, so a function is one action, and the
conditions under which it reverts (checked arithmetic included) are the negation of its
guard. Every payout is the last thing its function does, so a recipient that calls back
sees the final state. `held` is the coin the contract owns. In this module any
coordinator may reserve, release and settle any amount; `VRFCoordinator` says which calls
the real one makes. An id above `type(uint64).max` is refused by `_narrow`; `SubIds` are
the ids that are not.

**FeeSchedule.** `noticeAt` is a history variable for the block of the pending proposal's
announcement; no action reads it.

**VRFCoordinator.** `stack` is the call stack, a frame per delivery in progress. While it
is not empty only the frame on top moves: the consumer calls something (`CallbackOps`
says which kinds an instance allows), returns, or a batch goes on to its next member. A
consumer that fails undoes everything it did, so a failed delivery is one that never took
control. A batch that cannot be settled any more reverts as a whole: such an execution
has no further step, and properties about what the chain commits are stated for an empty
stack. `gasleft()` in a call made from a delivery is at most the delivery's
`callbackGasLimit`; a transaction of its own brings any amount. The group's signature
over a list of seeds is unique, so it is the list, and so is the randomness hashed from
it. Request ids are hashes: `IdOf` is any injective function, in the instances one whose
order is unlike that of the calls.

**CallbackGas.** One fulfilment as a sequence of steps that cost gas, ending fulfilled or
reverted. The costs are constants. The instances use the cold figures of
`docs/benchmark.md` (Phase 5; the warm ones of Phase 2 "were measured wrongly"): 200,000 for
one word, 157,295 of it cryptography, and 36,500 more right after the publisher withdrew
(`credit`), plus 410 for each further word and 23,000 for the transaction itself, which the
measurements inside a test leave out (21,000, and about 2,000 for the calldata). `TxGas` is the
limit: the request's, or an explicit one.

**Session.** The shares one node holds for one seed, as a value: `Add` returns the next
one. For one seed and index exactly one point verifies ("good").

**Node.** An action is what a goroutine does under one lock or between two waits, so
`OnRequest` is six actions, `OnPeerShare` two (look up, then park), the publisher three.
Waits end at any time, which covers every value of the stagger and of the intervals.
`posts` are the shares on the wire or in a handler. Shares from outside may carry any
index; one that verifies takes the key of its operator, so only those of `Faulty` do.
`forged` records the indices somebody posted a false share for; it is history, as is `sent`.
An attempt to send that fails (`FulfillRefused`) may have left its transaction with the
endpoint, which the node cannot know.
The poll loop is `Watch`: up to its first report a poll is one step, which may have read a
head older than the chain's; each further report is a step of its own, and the goroutines of
the new requests start with the last one. `Restart` is a crash at any point followed by a
scan from `Lookback` blocks back; posts that arrive while the process is down are lost posts. The seed announced in an event is
the contract's formula, so OnRequest's comparison of the two always passes here.

**LogScan** is `Watch`: an action per call to the endpoint and per callback, with the
chain growing and the websocket coming and going between any two. A wait ends at any
time, so jitter, the pause between ranges and the floor after a hint are left out; the
back-off is kept. The chain is the ids of the events of each kind in order (`emitted`) and
how many there were after each block (`count`), so the logs of a range of blocks are a
slice of `emitted`. **BlockScan** is what the daemon needs of it, and what `Node`'s `Poll` and
`Report` do: look at some further blocks, report the fulfilments, announce the requests in
order. `LogScan` is shown to implement it (`ScanImplements`) under the mapping in which a
scan looks at its blocks when its last range arrives. That it does get to every block is a
property of its own (`ScanKeepsUp`). Block 0 has no events, the chain is not reorganised, and the
endpoint answers from a consistent chain.

**Wallet** has the poll loop and publishing goroutines as threads, each at a place in
`send` or `checkBalance`; an action is one lock or one call. `AfterPublish` starts a
goroutine of its own, so a thread is a publication followed by that goroutine. Time is
what the cache can tell: a stamp is zero, fresh or expired, and `Minute` lets a refresh
interval pass. `recent` and `overlapped` are history, read by no guard. The endpoint takes
a transaction with the next number once the wallet covers it and those before it; a failed
call may have been taken all the same. The address cache is written without a lock, so a
reader may find it half written ("torn"). Prices are constants; a claim is charged its
whole limit, the worst case for `ClaimsPay`.

**Ceremony** follows each participant's process from its configuration to its keystore.
The rounds of the protocol are kyber's and *external*: dealers deal at once, a participant
complains a phase later about deals it has not seen, a dealer justifies itself a phase
after that, and a bundle of another session is ignored. The board is modelled as it is:
`push` holds the lock while it waits for room, the protocol's loop is both the reader and
the one that pushes its own bundles, `deliver` retries until the window ends or the board
is closed, and `Close` waits for the deliveries. The session nonce is the list of members
as sorted; `Listed` lets every participant's files list the members and the old members in an
order of their own, which `union` then joins. Time is a clock of
ticks, one tick being the longest pause between two attempts; whatever is due happens
before the clock moves (`Urgent`). `disk` is the keystore and its temporary file.

## Runs

| run | shows | states |
|---|---|---|
| `subscription` | the inductive invariant (reserved money is there, among others), exact lists, solvency and `ClosedForGood` under any coordinator | 337,851 |
| `coordinator_reentrant` | consumers that call anything from a delivery, two budgets, fees that change; notice, ceilings and renunciation | 1,567,894 |
| `coordinator_batch` | batches of two among four requests, consumers that request and retry: `BatchStillOpen`, from which `BooksTheorem` derives the ledgers, and `DeliveredOnce` | 1,215,886 |
| `callback_gas` | at cold costs, for 1 to 500 words, before and after a withdrawal: where the overhead covers the costs, the daemon's limit, or a generous explicit one, is enough | 45,606 |
| `node_safe` | one daemon against two operators that post anything, with a crash and a failed call: quorums, tables, memory, and accusations | 1,435,956 (up to the symmetry of requests) |
| `node_live` | two of three operators close every request despite a lost post, a failed call and a crash, and send again only after a failure | 609,820 |
| `scan` | `LogScan` implements `BlockScan` and keeps up with the chain; `chunkRange` against its definition for every limit | 363,616 |
| `wallet` | nonces, cache and claims under interleaved publications, polls and a failing call | 740,676 |
| `ceremony` | a first ceremony or a resharing with late starts, lost and repeated posts, interrupts, crashes and failed writes: deals, channels, keystores | 678,259 |
| `batch_reentry`, `batch_words`, `false_accusation` | disagreements between the code and what its comments, tests or docs say, below | |

Bounds and why they are enough. Two addresses play every part at once (owner, payee,
consumer, publisher), which is where authorisation mistakes show; two accounts are the
least for which a swap-removal moves something, and amounts of 0..2 with a ceiling of 2
reach every overflow check. In `coordinator_reentrant` two requests with budgets 10 and
100 and 30 kept back give both a nested delivery that fits and one that does not; blocks
run to 3 with timeouts of 1, so refunds and fee changes happen before, during and after
deliveries. In `coordinator_batch` two consumers have two requests each and one hash order
that disagrees with the order of the calls. The owner in `coordinator_reentrant` proposes the
ceiling or a price above it, and offers ownership only to itself, which is enough for an offer
to outlive a renunciation; three blocks and a timelock of one have room for a proposal, its
replacement late in the timelock and an application. In `node_safe` the table of parked
shares has room for one of two requests, so every new one evicts; two posts from outside are
enough for a bad share followed by a good or a conflicting one. In `node_live` each fault
happens once, with one re-offer and one retry to recover by; nobody outside the group posts,
since a false share can silence an index for a session and with it a group that has no operator
to spare. In `callback_gas` the budgets have every remainder by 63, small and large, and the words lie on both sides of what the
daemon's overhead has room for (40 are covered, 45 are not).
In `scan` five blocks and a limit of two give a first, an inner and a short last range, the
daemon starts on a chain of zero to two blocks, at genesis or one block back, and two
refusals can hit the same scan. In
`wallet` two fulfilments take the wallet from above its floor to below what a fulfilment
needs, so that the claim is sent by an account that could not publish; the one failing
call may be any of them. In `ceremony` the phase is longer than the default retry window,
participants start up to a phase apart or never, the buffer has the room `main` asks for
with its factors scaled down, and two faults may fall on any posts, processes or writes.
With three operators and no faults the same properties hold (200,000 states, not kept as a
run). Every `MaxX` constant is such a bound and is named in its module. Deadlock is not
checked where a chain, a group or a ceremony with nothing left to do may stop.

Fairness (`node_live`). Weak fairness of each goroutine's next step, of the poll loop, of
handling posts and of mining accepted transactions: the Go scheduler runs what can run,
HTTP clients have timeouts, `Watch` never stops polling. Nothing is assumed of requests,
refunds, losses, refusals or crashes; the number of faults is bounded, and no more than
the code's own retries (`RebroadcastAttempts`, `SendRetries`) can absorb. Beyond them
`EveryRequestCloses` is false: where one operator alone has the quorum, because the only post
of its own share was lost, and gives up after its last retry, the request stays open until
somebody restarts; `node.go:484-485` says so ("giving up there strands it for good"). A request made
more than `Lookback` blocks before a crash is outside what the code promises.
In `scan` only the loop's own next step is fair, and refusals are finite: hints and the
subscription are owed nothing, which is why `ScanKeepsUp` shows that they are an
accelerator only. In `wallet` mining, the passing of time, scans and each thread's steps are fair,
publications are not: an operator that is never asked again still collects through the
poll. In `ceremony` processes run and time passes; faults, interrupts and starts that
never come are owed nothing.

### Where code and text disagree

- `batch_reentry`: `fulfillBatch` checks its members before the first delivery and
  `_settle` does not look again. On the free tier a consumer of the first member can have
  a timed-out second one refunded; the batch then fulfils it too. With a price the
  account's reservation normally makes the batch revert instead.
- `batch_words`: words delivered by a batch come from the aggregate signature, so they
  depend on which requests were settled together, and a retry delivers others.
- `false_accusation`: `Add` compares a share for an index it has on file with the stored one
  and records a difference without verifying the new share (`session.go:84-93`), and the index
  comes from the body of the post. One post from outside has an operator that follows the
  protocol recorded, where `session.go:21-24` and `docs/operator.md:302-304` speak of
  cryptographic, self-contained evidence. What does hold is `AccusedOnlyIfForged`.
- The gas a daemon adds (no run expects a violation; `OverheadCovers` is the hypothesis of
  `WholeBudget` and `NeverShort`): `FulfilGasLimit` adds 240,000 to every budget
  (`chain.go:82-103`), "rounded up" from about 200,000. With the 23,000 of the transaction itself a fulfilment runs out of gas
  for a small budget and 43 or more of the 500 words a request may ask for, and for one word
  right after a withdrawal (of the 36,500 measured for it, `docs/benchmark.md` explains 17,100
  by the credit slot; that part alone already exceeds the overhead). Larger budgets bring a
  63rd of themselves as slack. Without the hypothesis TLC finds a fulfilment of one word with
  59,706 gas left before a settlement of 76,299. `NodeBudgetSuffices` and `NodeNeverShort` say
  when the overhead is enough.
- The gas the coordinator checks (also without a run; `NoTightLimit` is the hypothesis of the
  theorems): the check (`VRFCoordinator.sol:371-377`) asks for the whole budget
  and 30,000 more, before the pairing, the words and the settlement are paid for. A
  transaction whose limit just passes it closes the request with a consumer that received a
  part of its budget (88,502 of 250,000, in the trace TLC gives for limits around the check),
  which is what the comment at the check says it prevents.

Other observations, made while modelling, that no run turns into a property:

- No command calls `SetGasLimit` (`chain.go:588`): the `-gas-limit` flag that the comment at
  `chain.go:473` speaks of does not exist. An explicit limit of exactly 750,000 would be taken
  for the default (`TxGas`).
- A send that failed may have been taken. The retry then sends a second transaction for the
  same request (`ResentOnlyAfterError` allows it); one of the two reverts, at the operator's
  cost. `IsOpen`, which is asked in between, sees only what is mined.
- The session nonce covers the epoch and the members, not the threshold, although
  `run.go:16-19` says that a different threshold changes it and `vrfceremony/main.go:41-43` that
  any difference in the file does. Two participants with different thresholds share a session.
- The ceremony's board takes any bundle it can decode, from anybody who reaches the port,
  before kyber verifies who signed it (`board.go:87-134`); the room counted in `PushNeverWaits`
  is for the participants' bundles only.
- A handler that found no session may park its share after `OnRequest` has collected the
  parked ones. The request still closes when the share is offered again
  (`EveryRequestCloses`).
- `cancelSubscription` leaves the consumers mapping, so on the free tier consumers of a
  closed account can still make requests against it. `OpenHasAccount` is therefore
  checked with a positive base fee.
- `balance.go:59-61` says a failed read "must not be retried every poll". The old
  timestamp is kept, and it is the one that made the value stale, so every later poll does
  try again until one succeeds. `EarningsReachWallet` relies on it.
- An `Invalidate` that runs while another thread is reading is lost when that thread
  stores its older stamp. The value is at most an interval old (`FreshIsRecent`) and the
  claim only late (`EarningsReachWallet`).
- Two threads may claim the same earnings; the second claim pays its gas for nothing.
  `ClaimsPay` excludes these, and only these.
- That a poor operator can still afford its claim (`EarningsReachWallet`) rests on prices: a
  fulfilment is accepted only if the balance covers its whole limit, and what it then leaves
  unspent must pay for the claim (`FulfilCover - FulfilCost >= ClaimCost` in the instance).
- The subscription address is written without a lock by every thread that finds it unset.
  A torn read makes `WithdrawableOf` fail and nothing else, since `Claim` is only reached
  behind a read that found the contract (`WalletTypeOK`).
- After an equivocation is recorded in a session, every later refused share of that
  session, whoever sent it, increments `vrf_equivocations_total` for the recorded operator
  once more (`node.go:285`). Metrics are not modelled.

## Proofs

All proofs are in modules of their own, from the assumptions named in the modules they
extend. Amounts and bounds are natural numbers; addresses and request ids are finitely many,
as they are on a chain; nothing else is assumed finite. A theorem about a run's property
holds for every instance that satisfies these assumptions and the hypotheses named below.

Two techniques recur. A sum over accounts or requests is the cardinality of a set of coins,
`Coins(f)`, the pairs of an `x` and a number up to `f[x]`, so that a transfer adds or
removes coins and the library's facts about cardinality apply; no induction over data is needed. Where a recursive
function cannot be avoided (`BatchGasNeeded`, `union`), induction is stated with a set instead of a
predicate: lemma `SetInduction`, which follows from the well-foundedness of `<`.

**SubscriptionProofs.** `SubInvariant`: `SubSpec => []SubInv`. `SubInv` joins the types to
`ReservedWithinBalance`, `ActiveIdsExact` and `ConsumerListExact` and two parts they need to
be inductive: a closed account is empty and on offer to nobody (else accepting an offer
would give an owner to an id that is not in the list of live ids), and an id not issued
yet is fresh (else creating it would revive old consumers). All functions that move money
share the frame `MoneyStep`, so their preservation is proved once; swap-removal is lemma
`DeactivateExact`. `ClosedForGoodTheorem` follows from the invariant and the same case
split. `SolventTheorem` says that the coin held is the sum of all balances and of all that
may be withdrawn: each function moves coins between at most one account and at most one
payee, by the lemmas about `Total` of a function changed at one point.

**FeeScheduleProofs.** `FeeInvariant` says that a pending change's block is its
announcement plus the timelock and that a coordinator without an owner has nothing
pending; `NoticeTheorem` and `RenouncedTheorem` are action properties that follow.

**VRFCoordinatorProofs** extends the two above and proves the coordinator with its whole
call stack: any depth, any mixture of nested calls, any number of requests and accounts.

- `CoordInv` is inductive without hypotheses: types of the requests and of every frame, the
  invariants of the accounts and the fees, the link between a request's id and the nonce
  it took, and that each delivery on the stack fits into the budget of the one around it.
  `TypesTheorem`, `BudgetsTheorem` and `QuoteTheorem` follow; `CoordSolvent` reuses the
  account's own lemmas for the calls the coordinator makes.
  `BudgetsShrink` rests on lemma `NeedsMore` (a delivery needs more gas than its consumer
  is given) and, for batches, on `BatchNeedsEach`.
- `Books` relates the three ledgers: a request is not both fulfilled and refunded, what was
  delivered for it agrees with its flags and with the frames that are delivering it, the
  account's reservation is the sum of the quotes of its open requests and its pending count
  their number. `BooksTheorem` shows it for every behaviour in which `BatchStillOpen` holds.
  That hypothesis is exactly what `batch_reentry` shows the code does not guarantee:
  `_settle` relies on a check made before control was handed out.
- `BatchTheorem` shows when it is guaranteed (`QuietBatches`): batches have at most one
  member, or consumers call neither `fulfillRandomWords`, `fulfillBatch` nor `refund` from
  a delivery. With one member nothing is left to settle once a consumer runs (`Lone`);
  without those calls nobody but the batch closes a request, and requests made meanwhile
  are not among its members (`Outer`). `ClosedOnceTheorem`, `DeliveredOnceTheorem`,
  `ReservedBacksTheorem` and `PendingCountsTheorem` hold under it. Both passing coordinator
  runs satisfy it, `batch_reentry` does not.
- `AccountTheorem` also needs that there is no free tier (`PaidTier`: every base fee the
  owner may set is positive). Then an open request holds a positive reservation, an account
  with a reservation cannot be cancelled, and a closed account cannot pay for a new
  request. On the free tier the last part is false: `cancelSubscription` leaves the mapping
  of consumers in place.

**CallbackGasProofs.** When no explicit limit is below the daemon's own (`NoTightLimit`), then
for every request whose words and whose publisher's credit `FulfilOverhead` covers
(`OverheadCovers`) a transaction hands over the whole budget, for every budget
(`NodeBudgetSuffices`), and never reverts for want of gas (`NodeNeverShort`). The arithmetic is lemma `SixtyFour`; the invariant says at each step
that what is left covers what is still to pay.

**NodeProofs.** One inductive invariant, `NodeInv`, with a part for each group of variables,
so that an action is proved only for the groups it writes. Sessions: filed shares are
verified and their indices spent, and as many verifications were paid for as indices are
spent (`OneVerificationEach`). Publishers: whoever holds a set of signers holds a quorum,
taken when the session was ready (`QuorumBehindEveryTx`), and a node has a publisher only for
what is in `published`; each transaction it has sent, but the last, has cost it an attempt, and
one that is about to send has sent no more than it has failed (`ResentOnlyAfterError`, with
attempts that fail after the endpoint took them). Parking: the
order lists the requests that have parked shares, once each, within the limit
(`ParkedExact`); eviction and collection are lemmas about `Tail` and `Without`. The loop:
what is still to be reported and what is remembered as settled are fulfilments of the chain,
remembered once each and within the bound (`SettledExactAlways`), whichever scan or restart
they come from; `NodeTypes` gives the types of all the variables.
`AccusedOnlyIfForgedAlways` has an invariant of its own, `Traced`: every share in flight, held
or parked verifies, names another seed, or is a false one in the name of an index in `forged`,
and only those are accused. The one step that can accuse is `Add` of a share that differs from
a verified one on file, and two that verify are equal (`AccusesForged`). More cannot be proved:
that the accused posted the false share itself is what `false_accusation` refutes.

**WalletProofs.** `NonceTheorem` and `FreshTheorem` share one inductive invariant,
`WalletInv`. `NonceIsNext` is inductive once the types are known: the lock is held by the
thread that is about to send, so whoever takes a number is alone, and a transaction that
is accepted moves the chain's count and the counter together. `FreshIsRecent` needs
`StoredIsRecent`, the same implication for a stamp a thread has yet to store. Every step
outside `send` satisfies `NonceFrame` and every step outside a refresh `CacheFrame`, so
these steps are proved once (`NonceKept`, `CacheKept`). A second invariant, `MoneyInv`, is
about money: the wallet covers what the pool may spend (`Owed`, by the number of waiting
transactions of each kind), a thread that asks for its earnings has the whole address, and
the earnings a thread saw are still there unless a claim was mined since. `WalletTypes`
(the balance never goes below zero, no claim goes astray) and the action property
`ClaimsPayTheorem` follow. It uses that a fulfilment spends no more than the endpoint asked
the balance to cover (`FulfilCost <= FulfilCover`), which a gas limit and a fee cap ensure.

**LogScanProofs.** `ChunksTheorem` is the arithmetic of `chunkRange` for every start, head
and limit: range *i* begins where range *i - 1* ends plus one, the last ends at the head and
none is longer than the limit; the solvers need the products `(i - 1) * max` in lemmas of
their own. `ScanTheorem` is the refinement of `BlockScan`, any chain, limit and number of
refused calls. Its invariant `ScanInv` says, for each place of the loop, that what was handed
over, what was read and what the remaining ranges hold are together exactly the events of
the blocks from the first one on. It rests on lemmas about slices: two that follow on each
other join (`BetweenJoin`), and a new block leaves those before it as they are
(`MineBetween`). Every action maps to one of `BlockScan`'s or to no step.

**CeremonyProofs.** `KeystoreTheorem`: `KeyInv` adds to the property that a process gets to
saving only with a share, that what it renames is a whole file, and that a new keystore is
in place only when it is done. The two others suppose that the channels have room for a
bundle of each participant and one more for each fault (`Roomy`), and that only participants
post; `main` asks for
`4 * n + 16` places, so this allows at least `3 * n + 16` faults.

- `PushTheorem`: no push waits while it holds the lock. `RoomInv` counts, for each channel,
  the bundles in it, the participants whose bundle may still come (not pushed yet, or on its
  way) and the faults left: the sum never grows, since a delivery moves one from the second
  to the first, and one whose answer is lost uses up a fault. It needs that a bundle is on
  its way to a peer at most once (`OutOk`). With the smallest buffer the property is false,
  as the run's mutant shows.
- `HeardTheorem`: `TimeInv` adds that nothing is overdue (a post, a start, a phase), and says
  where the deal of a dealer in time is for a participant that has yet to respond: not sent,
  on its way and due before the last moment, in a channel that is read before the clock moves,
  or heard. A retry to a peer that has not started moves the deal by a tick but not past the
  peer's start; one after a fault moves it by a tick that the property gives. The dealer does
  not give up before, because its window is at least a phase and its board is not closed
  before two (`DealerOpen`). That all bundles carry one nonce is lemma `NonceIs`: `union`
  collects all members whatever their order (`UnionSet`), and the sorted list depends on the
  set only.

Only model-checked:

- Liveness, which is outside what TLAPS handles: `EveryRequestCloses`,
  `EarningsReachWallet`, `CeremonyEnds` and `ScanKeepsUp`.
- `ClosedOnce` and its companions for batches whose consumers close requests: false, as
  `batch_reentry` shows; so is `NeverAccused`, as `false_accusation` shows.

## Not modelled

- The verifier contract and the BLS package: field and curve arithmetic.
- The rounds of the DKG: kyber's, modelled only as far as the board meets them. A member
  of the old group that leaves in a resharing is not in the instance (`OldMembers` are
  among `Members`). Kyber's goroutine goes on after an interrupt (`run.go:96-98`) and may still
  broadcast until the process ends; in `Interrupt` it stops. Posts to the board from outside
  the group are left out. `RunLocal` and `ResharLocal` run the rounds in one process, in order.
- The wire format, ABI encoding, key derivation and encryption of the keystore: encodings
  without state. `Save` does not call `fsync`, so what a power failure leaves behind is the
  file system's business; `Crash` is a process that is killed.
- The mesh's throttle and allow list are a refused post. Metrics and the status page keep
  counters nothing reads.
- Shutdown of the daemon: every wait also ends when the context is cancelled, and nothing
  is persisted, so a shutdown is a crash without a restart.
- `vrfsweep`, `vrfload`, `vrfdkg` and the generators of test vectors: one-shot tools. A
  sweep uses the daemon's account and reads its nonce from the chain, so `NonceIsNext`
  assumes that it is not run beside the daemon.
- Reorganisations, an endpoint that drops transactions it has accepted, and one whose
  answers contradict each other.

## Plan

1. An abstract specification of the service (a request is made, then closed once, by words
   or by a refund) that `VRFCoordinator` without batches implements, and that `Node`'s
   view of the chain implements.
2. A resharing with a leaving member, and a ceremony of four in which two sets of
   participants miss each other.
3. A liveness run in which parked re-offers fill a request's room.

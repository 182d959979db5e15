# TLA+ models of the AnySwap client

AnySwap swaps between Lightning and on-chain Bitcoin or Liquid. The server is
not in this repository; what is here is the client: the on-chain primitives
(`crates/core`), the SDK with the driver that runs swaps to their end
(`crates/sdk`), its WASM bindings (`crates/sdk-wasm`) and the TypeScript SDK
over them (`ts-sdk`). This directory holds TLA+ modules of that client, the
TLC runs that check them on small instances and TLAPS proofs of what matters
most for every value of the constants. All paths below are relative to the
repository's root, and `driver/` stands for `crates/sdk/src/driver/`.

## 1. Inventory

### The driver

The driver's functional core is stateless: a pass over a swap reads the server
and the chain, decides with a pure function what to do next, does it, and saves
the record. Everything it knows between two passes is in the app's store.

| part | code | state | operations |
|---|---|---|---|
| a pass | `driver/tick.rs`, `driver/observe.rs` | the record loaded, the view of the chain, the decision | `pass`, `apply`, `send`, `spend`, `refund_funds`; `observe` reads the tip, the address history and the outspends |
| the decisions | `driver/decide/` | none (pure) | `swap_out::decide`, `swap_in::decide`, the deadlines |
| the record | `driver/record.rs` | `SwapRecord`: terms, status, flags of what was sent, what the server and the chain proved | `is_quiet`, `refund_keypath`, `locked`, `funds` |
| accept, quote, restore | `driver/accept.rs` | none beyond the store | `quote`, `accept`, `restore_signed`, `restore_all` |
| run loop and handles | `driver/mod.rs` | run state, the per-swap locks, the wake permit, the signals socket, the watchers of updates, the fee-rate cache | `run`, `stop`, `wait_stopped`, `sweep`, `step`, `cancel`, `refund`, `updates`, `adopt` |
| hooks | `driver/chain.rs`, `driver/server.rs`, `driver/clock.rs`, `driver/rt.rs` | the app's | chain reads and broadcasts, server calls, time, the exclusive section, the bound on every call |

### Around it

| part | code | state | operations |
|---|---|---|---|
| server API client | `crates/sdk/src/client.rs`, `ts-sdk/src/api.ts` | none | HTTP calls, responses parsed |
| signals | `crates/sdk/src/ws.rs`, `ts-sdk/src/api.ts` | socket, reconnect delay, queue, one waiter | `subscribe`, `next` |
| typed swap views | `crates/sdk/src/swap_in.rs`, `swap_out.rs` | none | parse the server's report, refuse one that lacks a field of its status |
| scripts and transactions | `crates/core/src/script`, `transaction`, `musig.rs`, `crates/sdk/src/swap_script.rs` | none | the taproot output, its keypath and two leaves, the spends of each, which path a spend took |
| prices | `crates/core/src/fee`, `crates/sdk/src/utxo.rs` | none | swap fee, its inverses, base fee, refund threshold, claim fee ceiling |
| keys | `crates/core/src/wallet.rs`, `crates/sdk/src/wallet.rs` | branch keys | one key per role and swap |
| auth | `crates/core/src/auth.rs`, `ts-sdk/src/auth.ts` | none | signed requests |
| Esplora clients | `crates/core/src/esplora`, `ts-sdk/src/esplora.ts` | none | reads with retries, paging of address histories |
| bindings | `crates/sdk-wasm`, `ts-sdk/src/driver.ts`, `ts-sdk/src/wasm` | handles over the driver | conversions between Rust and JavaScript |

### How the parts interact

The app creates a swap with `quote` and `accept`; `accept` asks the server to
create it, checks the answer against what it asked for, and saves a record.
`run` sweeps all open records, a pass each, under the swap's lock; the app may
step, cancel or refund a swap by hand under the same lock. A pass calls the
server hook and the chain hook, each call bounded in time, and saves through
the store hook. The server and the chain are other actors: they move between
any two awaits of a pass. A call that times out may still be carried out later.
Records are the only memory: after a crash the next pass starts from the last
save; after a loss of the store `restore_all` rebuilds records from the
server's list of our own signed requests.

### What is hard

* a pass is a dozen awaits, and blocks, reorgs, the server and the app move
  between any two of them;
* a crash, a failed save or a lost answer between sending a secret and
  recording that it was sent;
* a request that timed out but lands later;
* deadlines counted in blocks: a claim and the server's refund race at the CSV;
* reorgs and evictions that take back what a pass has seen, after a status was
  called final;
* a wake-up, a stop or an update that arrives while nobody listens;
* locks natively per process, in the browser per origin;
* amounts at the edges of what the arithmetic holds.

### What makes each component correct

* SwapOut: a payment the server took is never lost to the server's CSV refund;
  the preimage leaves only while a claim can still win; a final status tells
  what the chain did; once the payment is taken the swap completes.
* SwapIn: every deposit is either paid for with the preimage or refunded; the
  refund key goes home only when the payment is proved; a refund of several
  deposits loses none of them; a swap with nothing left to move is quiet.
* Run loop: no update of a record is lost; `run` ends after `stop` and nothing
  is driven after; a created or signalled swap is driven without waiting for
  the next interval.
* Accept and restore: a swap accepted is one whose terms are those quoted and
  whose deadlines leave room; `restore_all` brings back every swap of ours and
  stops.
* Prices: what is sent and what is received invert each other up to rounding,
  and never pay out more than was sent.
* Esplora, signals: a history is complete, a retry never repeats a broadcast
  that was read, a signal is never lost while the socket is up.


## 2. Plan

The order is by what a mistake costs: first the two swaps under the driver,
then what schedules and locks them, then the edges.

| # | module | question | state |
|---|---|---|---|
| 1 | `Escrow`, `SwapOut` | is a payment the server took ever lost? | done |
| 2 | `SwapOutProofs` | types, the write-ahead of the preimage, for all constants | done |
| 3 | `SwapIn` | does every deposit come back or pay? does the key leave only for a paid invoice? | done |
| 4 | `RunLoop` | are saves lost, wakes missed, stops late, calls stuck? | done |
| 5 | `RunLoopProofs` | types, mutual exclusion of the two locks, no lost update, for any number of tabs, callers and swaps | done |
| 6 | `Prices` | do `min_send_for_receive` and `max_receive_for_send` invert each other, at the edges of 64 bits too; is the range a refusal tells the range that is quoted? | done |
| 7 | `Terms` | do the acceptance checks, `deposit_deadline` and the server's timeout leave a deposit room to confirm? is a restored record the one accepted? | done |
| 8 | `Paging` | does `restore_all` end, and find every swap of ours, over a list that grows or is made up? | done |
| 9 | `History` | is a read of a history or of a spend whole while the chain moves between its requests? | done |
| 10 | `Signals`, `Updates` | do the Rust and TypeScript sockets lose or duplicate a signal? is a subscriber told of the end too early? | done |
| 11 | `Report` | which server reports do the typed views and the driver's split take, and what does an app let go on them? | done |
| 12 | `FeeRate` | the fee-rate cache under concurrent reads | done |
| 13 | `Spends` | does what was weighed build, does a rebuilt spend follow the fee, is a spend read back as what it is? | done |
| 14 | `PricesProofs`, `PagingProofs` | 6 and 8 for all constants | done |
| 15 | `SwapInProofs` | types, the refund key, what ends and what is left, for any deposits | done |
| 16 | `SignalsProofs` | `OneChannel` and `SignalsInOrder` for any bounds | done |
| 17 | `SwapOutProofs`, second part | final statuses, the release gate, no lost payment, nothing left, and the refinement of `Escrow`, for all constants | done |
| 18 | `PartsProofs` | `Terms`, `FeeRate`, `Report` and `History` for all constants, and every proof about a part carried over to the parts side by side | done |
| 19 | `SpendsProofs` | what was weighed goes out, a claim builds, a spend keeps up and is read back, for any values and rates | done |
| 20 | hooks under the lock | a `destinations` hook that steps the swap it is asked about (`tick.rs:324`) | later |

Abstract specifications: `Escrow` (done) for a SwapOut; for a SwapIn, a vault
whose deposits leave it once, paid or refunded; for the run loop, a store with
atomic read-modify-write, which `RunLoop` implements while the app does not
race a restore with a creation.

## 3. The modules

### SwapOut (`SwapOut.tla`, `MCSwapOut.tla`)

One swap: chain, server, store and one pass at a time (the per-swap lock,
checked in `RunLoop`, gives that). `pc` stands at the awaits of `Driver::pass`:
the tip (`Begin`), the history with the outspend (`ReadHistory`), the server
and the decision (`Poll`), the action (`StorePreimageSent`, `RevealPreimage`,
`SendCancel`, `BroadcastClaim` and their failures), the save (`Save`). `mem` is
the record of the pass, `store` the saved one, `view` what it read of the
chain, `plan` the `Decision`. `Decide` is `swap_out::decide` with its helpers.
The world moves between any two of them: `Mine`, `Reorg`, `Evict`; the server's
`Hold`, `Open`, `ServerTimeOut`, `Refund`, `LateRequest`; the app's
`UserCancel`, `Crash`, `LoseStore`, `Restore`.

A transaction is its confirmations; the blocks mined since the pass read the
tip (`drift`) give the depth as the pass computes it. Amounts are left out:
whether a claim can pay the fee rate is a choice of each pass, and so is
whether a broadcast is taken. Each `CancelReason` is a status of its own. The
server is the honest one of the test world, which may withhold its key, be
silent, and take its CSV refund even after it settled.

`Escrow.tla` is the promise without chain, server or driver. `MCSwapOut` maps
the release to its preimage, the settlement to its payment and the *stored*
status to what the user is told.

### SwapIn (`SwapIn.tla`, `MCSwapIn.tla`)

The same shape, with any number of deposits. `spend` names the outputs each
spend takes, so that refunds of several and replacements are told apart.
`Look` is the whole chain read: a history may leave out mempool spends (a
bounded number), of which the pass asks for the ones `stray_read` and
`FUNDS_PER_PASS` allow (`Asked`). `Decide`, `Funds`, `StateOf` and `IsQuiet` are
the functions of their names; the refund (`Refunds`, `RefundOut`,
`RefundFails`) and its own save (`Resave`) follow the first save, as in the
code, even when that save failed. The fee estimate is the refund threshold it
gives, picked from a set on each pass; `dust_pays` reads one too. `NothingLeftWhenQuiet` asks for every known output but
the one paid for: refunded by a spend in a block, or still held as dust or
refundable. After a reorg it asks of a refund only that the record has it: a
refund of several may be dropped with its block and one of them then be claimed
by the server, which frees the others when nothing drives the swap any more.
A deposit is made only until `refund_timeout` after the end (`Lapse`), which waits for a
good pass over the deposits made before it: the timeout is an hour and a pass
comes every fifteen seconds.

### RunLoop (`RunLoop.tla`, `MCRunLoop.tla`)

Drivers (a process, or the tabs of a browser) and callers over one store. A
record is the number of its saves and a pass saves any number of times; what a
pass means is left to the modules above. `pc` says where an actor stands and
the locks are read off it: `Local` for the mutex of the process, `Global` for
the Web Lock. `Run` to `Interval` are `Driver::run` and `sweep`, `TakeLocal` and
`TakeShared` are `Driver::lock`, `Load` to `EndPass` a pass, `Create`, `Adopt`
and `Refuse` the creation of a swap, `Restore` to `RestoreFails` a restore,
`Advance` to `AdvanceInterval` the wait for a signal. `permit` is the stored
permit of `Notify`, `heard` a signal waiting in a broadcast receiver, `gap`
that `SIGNAL_GAP` is over. `due` is what the code wants passed soon.

### The parts around the passes (`Parts.tla`, `MCParts.tla`)

Eight modules without a driver in them. They share no state, so `Parts`
instantiates all eight side by side and a behaviour moves one of them, `part`:
one run checks them all, and one module proves about them all. `Parts` has the
constants of all of them and what is assumed of those, `MCParts` and
`Parts.cfg` their values for TLC. A module's own properties are defined in it
and named again in `Parts`.

`Spends.tla` is what a pass builds and broadcasts: `economical` and its
threshold, the three paths and their weights on both chains, the builders and
the checks that refuse (`TooManyInputs`, `DustOutput`, `InsufficientFee`, ...),
the fee ceiling of a claim, and `refund_funds` and `claim` as far as they pick
path, rate and inputs (`Refund`, `Claim`). Sizes are counted, in weight units,
since the fee is a product of one; a script is its length, a witness the names
of its items, a signature the keys that made it and what it commits to. `Opens`
is the script interpreter's part and `Accepts` the mempool's, a replacement
paying more in all and by size: both are the world's, as the test world has it.
Left out are destinations no wallet gives (40-byte witness programs) and the
rounding of floating-point fee rates, which are in tenths of a sat/vB.
`SpendKeepsUp` allows a vbyte: on Bitcoin the rate is floored to sats per 1000
weight units before the fee is taken (`SatPerKwu`), so a spend may pay up to
that much less than the estimate asks for its size.

`Prices.tla` is the `fee` module and `Driver::quote`: an offer is read, an
amount pinned at either end is turned into both, or into the range that would
do. Arithmetic is saturating or checked at `MaxU64` as in the code.

`Terms.tla` follows one swap from the quote to the record: the request and the
second it is signed in, the server's answer with at most one thing wrong in it,
`accept`, a lost answer, a lost store, `restore_signed` by the time of the
signature, the user's deposit. `Block` comes at least every `BlockTime`, the
assumption behind `deposit_deadline`. A restore judges the deadlines by the
signature and so may refuse a swap-in that was accepted, if its invoice left no
more room than the time it took to sign; `RestoreRebuilds` says just that.

`Paging.tla` is `restore_all`. An honest server puts a swap created meanwhile
anywhere in the list, fewer than a page of them (100) between two reads. One
that is not serves any entries it likes, but cannot sign for us.

`History.tla` is how the three clients read an address and an outspend: pages
after an anchor, then the bodies the Liquid and TypeScript clients lack, kept
as they come; retries; an indexer like electrs, which for a moment lists a
transaction in a block and in the mempool (`lag`). A block may hold its
transactions, and a page its part of the mempool, in any order. A reorg that takes the very
anchor of a page ends the history early for that pass, which `cut` excepts.
What was met and has no property: `address_utxos` drops the second listing of
a transaction listed twice (`core/src/esplora/bitcoin.rs:124`), but the
history read of `observe.rs:159` keeps it, so that a refund of several funds
may fail with `DuplicateInput` for that pass.

`Signals.tla` is the push channel, TypeScript's (sockets reconnecting, one
queue, one waiting promise) and Rust's (`ws.rs`, one socket opened and read by
`next`), to `listen` of the driver. `resolved` is a promise resolved and not
yet taken up.

`Report.tla` is what the server says of a swap: the state it stores, the answer
`into_api_response` makes of it without its key, the typed views, the driver's
own split, and an app by hand that checks what the docs ask of it and compares
the echo of its invoice. An answer that is not honest differs in at most two
fields.

`FeeRate.tla` is the estimate kept in `Registered`, whose lock is let go while
it is read. The clock does not move back in it.

### Updates (`Updates.tla`)

The subscription of a native app, on a runtime with several threads: `emit` and
the end of `run` fall between the two polls `Updates::next` makes.

## 4. The runs

| run | what it shows | bounds, and why they are enough |
|---|---|---|
| `swap_out_timely` | no lost payment; nothing left when quiet; the release gate | one block between good passes, one reorged block, one eviction, one lost store; depth 2, margin 5 by the rule below, CSV 7 so that the window still opens |
| `swap_out_late` | types, the write-ahead of the preimage and the meaning of a final status, with no bound of pace: three blocks between passes, steps by hand, a reorg, an eviction | CSV 4, margin 2: blocks cross margin and CSV inside one pass |
| `swap_out_live` | refinement of `Escrow`; settled payments end in a claim, openings end | CSV 5, margin 3, one block a pass, no reorgs |
| `swap_in_stray` | key only for a paid invoice, nothing left when quiet, ended stays ended | a deposit and a stray, one fund per pass, so that a refund always leaves one behind; one missed spend |
| `swap_in_faults` | the same, and types | one deposit, one fault of any kind, a swinging fee, an address hook, calls by hand: every fault meets every state of the deposit |
| `swap_in_live` | deposits come back | one deposit |
| `run_loop_tabs` | no lost update with the Web Lock | two tabs with a caller each on one swap, so that every pair of actors meets; one tab killed and back, one failing list |
| `run_loop_sweep` | no lost update natively; at most one pass after a stop; what is due is passed; a stop ends; calls return | one driver and a caller on two swaps, so that a sweep has a rest to skip; one signal |
| `parts` | the eight parts of `MCParts`: what was weighed goes out, a claim always builds, a rebuilt spend pays its rate and is read as what it is; quotes and their range; room for a deposit and an exact restore; paging ends and finds all; fresh estimates; one socket and signals in order; whole reads; nothing let go early by hand | below |

The other three runs expect a violation and show where the code does not do what a
comment or a test of the repository says (section 7).

The bounds of `parts`, all in `MCParts.tla`, next to the module they are for:

* `Spends`: the values straddle the threshold of each chain (684 is the largest
  output not worth its refund at 1 sat/vB on Bitcoin) and the dust of an address
  (545), and the largest pays at the fee cap; an estimate above `MaxFeeRate`, so
  that the cap binds; three outputs for a batch of two; a CSV of 40000, whose
  push is a byte longer; the destination with the most dust and the longest one.
* `Prices`: integers to 30 and a million of 10, so that every amount, both
  overflows and every remainder occur. The proofs have them of any size.
* `Terms`: one confirmation at two seconds a block, in seconds; invoices and
  CSVs on both sides of every limit; one wrong field, since each is one
  comparison and all are refused alike.
* `Paging`: three swaps and a made-up one, two to a page: a full page, a page
  with one of ours, and a creation between two reads.
* `FeeRate`: two passes, a ttl of two ticks out of four.
* `Signals`: two ids, three pushes, three sockets: a socket that is gone, one
  closing and one opening.
* `History`: three transactions, pages of one, two heights, two moves of the
  chain during a read, one retry.
* `Report` has no bound but the two fields.

`updates_end` has a channel of 2, four updates and four calls. `CHECK_DEADLOCK
FALSE` stands where the bounded histories of a run end: `parts`, `updates_end`,
`run_loop_racing`, and the runs of swaps that end.

The counters a run caps: `MaxPace` blocks between two passes that end well,
`MaxReorgs`, `MaxEvictions` and `MaxLosses` of `SwapOut`, `MaxFaults` of all
kinds together in `SwapIn`, `MaxRestarts`, `MaxSignals`, `MaxFails` and
`MaxSaves` of `RunLoop`. Confirmations are counted to `Deep`, the CSV and the
reorgs there may be (a little more in SwapIn, where the order of outputs
counts): past it no reorg left can bring an output back under its CSV.
In SwapOut no block is mined between two reads of one pass once the opening is
that deep. Deadlock is checked in `swap_out_late`, `swap_in_faults` and the
passing runs of `RunLoop`, which never have to stop; without steps by hand a
swap that ended is not driven again and its run ends.

**How much margin.** `NeverLosesPayment` holds while the driver ends a pass
well at least every `MaxPace` blocks and
`ClaimMargin >= 2 * MaxPace * (1 + evictions) + 1`: from the release, one pass
to claim, one block-interval for it to be mined, and the same again for each
eviction of the claim. It is proved for every value (`PaymentIsNeverLost`), and
tight: with one block less TLC finds a payment lost. The defaults
(252 blocks on Bitcoin, 2520 on Liquid) hold it for a driver down for a day
and a half.

## 5. Fairness

`run` sweeps for ever and every await of a pass ends, since `rt::bounded` and
the hooks' timeouts bound it: weak fairness of `Pass`. A fault does not last
for ever: what is tried in pass after pass succeeds in one of them, strong
fairness of the steps that read, send, save and broadcast (in `SwapIn`, of the
last steps of a pass that has gone well so far). Blocks keep coming: strong
fairness of `Mine`, which waits for passes by `MaxPace`. Nothing is assumed of
the server, of the user, of late requests or of the fee rate, but that a pass
sees the lowest estimate at some point in `SwapIn` (a stray may be dust at any
other).

In `RunLoop` tasks are scheduled (weak fairness of each step of a loop or a
call), both locks are first come, first served, as tokio's mutex and Web Locks
are (strong fairness), and timers fire. The loop's own interval has no
fairness: `DueIsPassed` must hold without it. `advance` returns by its interval.

## 6. The proofs

Every proof is of an invariant in layers: `Init => Inv`, `Inv /\ [Next]_vars =>
Inv'` with a step for each action and a conjunct at a time, and temporal logic.
Bounds that a model needs for TLC are constants of any size in the proofs.

`SwapOutProofs.tla`, about `SwapOut`, for every CSV, depth, margin, pace and
number of faults. The assumptions are those of `SwapOut.tla`, `CsvInRange`
(what `accept` checks) and `Bounds`; what a theorem asks of the settings beyond
them is an `ASSUME` of its own, in brackets here.

* `TypeCorrect`: `TypeOK`. `InPass` says which variables are reset when no pass
  is under way, `Shallow` that spends and views are no deeper than counted,
  `NotOpened` that without an opening there is no spend.
* `PreimageIsRecorded`: the write-ahead. `Evidence` (whatever shows that the
  preimage left, a key, a claim, a request under way, implies that it did) and
  `Ahead` (the flag is in the store before the request, and in the pass's
  record whenever it is in the store, so that no later save takes it back).
* `TakenOnlyReleased`: the server takes the payment only with a preimage that
  left, from `Evidence`.
* `FinalsAreTrue`: `FinalMatchesChain`, however many blocks a reorg drops; the
  property itself speaks of reorgs of fewer than `min_confs` blocks. `Reports`:
  a final status, in the store, in hand or decided on, saw a spend so deep that
  only more reorgs than that lift it off the chain.
* `ReleasesAreGated[GateKept]`: `ReleaseGate`. A release decided on may leave in
  a later pass, after a crash, that no longer looks at the margin
  (`decide/swap_out.rs:68`): `Gate` holds what the decision saw until the
  preimage leaves, less the blocks of one pace, on `Carried` and `Seen` (how
  far the record and the view of a pass are from the store and the chain).
  `GateKept`: fewer blocks between two good passes than `claim_margin`, reorgs
  of fewer than `min_confs` blocks, and with any reorg a good pass at every
  block.
* `PaymentIsNeverLost[MarginCovers]`: `NeverLosesPayment`. `InTime` counts the
  blocks left before the CSV to a claim that is due: `Budget` has one pace
  spent for the pass that releases and one for the pass that claims, and as
  much again for each claim evicted; `Agreed` ties the server's status, the
  records and the view to what was taken. The margin is tight.
* `QuietLeavesNothing[MarginCovers, Undisturbed]`: `NothingLeftWhenQuiet`.
  `Ended`: a record that ended without a payment is of a swap whose server
  takes none any more, or whose window is shut. `Undisturbed`, no steps by hand
  or no reorg, excepts the case of §7 in which a reorg opens the window of
  a finished swap again and a step by hand goes through it.
* `PromiseIsKept[PromiseKept]`: `KeepsThePromise`, that `SwapOut` implements
  `Escrow`, step by step (`PromiseStep`): from `Ended` and `Earned` (only a claim
  of ours completes). `PromiseKept` asks for the margin, no steps by hand and a
  store that is not lost: one that is restored says open again of what it said
  was off.

`SwapInProofs.tla`, about `SwapIn`, for any finite set of deposits of any
values, any CSV, estimates, pace and number of faults:

* `TypesHold`: `TypeOK`.
* `KeyStaysHome`: `KeyOnlyForPaid`, from `Evidence`: what a record or a view
  holds as proof of the payment is one.
* `EndingsStay`: `EndedStaysEnded`, a property of steps. `Lasting`: what a final
  status rests on is on the chain for good while nothing was undone (`Calm`),
  for the record stored and the one a pass works on, as that pass saw it.
* `QuietLeavesNothing[OneDeposit]`: `NothingLeftWhenQuiet`. `Accounted`: every
  output found is spent as the record has it or still in it, with what a pass
  has not looked at yet set apart. `OneDeposit`, that the amount is paid once,
  is needed: of two deposits of it the server may pay for the other one, which
  is the run `swap_in_same_amount`.

`RunLoopProofs.tla`, about `RunLoop`, for any number of drivers, callers and
swaps and any bounds. The first three ask for `OneLock` (drivers share the Web
Lock, or there is but one driver) and not `Racing` (the app does not restore a
swap it is creating):

* `NoUpdateLost`: `NoLostUpdate`. Who is about to save holds the store's lock
  (`Locks`), so that nobody else saved since it loaded; or it is creating the
  swap, which is then in nobody else's hands (`Creating`), because the server
  listed it to nobody before. `Hands` ties what an actor has in hand to where
  it stands, `Stored` says that what is stored is listed, `Unstarted` that a
  loop not started does nothing. Its steps are grouped by shape, a lemma for
  each (`Idling`, `Taking`, `Moving`, `Saving`, `Storing`, `Releasing`). Without
  `~Racing` the restore breaks it, which is the run `run_loop_racing`.
* `LocksExclude`: the mutual exclusion (`Locks`), and `TypesHold`: `TypeOK`, from
  the same invariant.
* `StopsInTime`: `OneMorePass`, with no assumption and an invariant of its own,
  `StopInv`: nothing is late before the stop, and after it there is one pass
  to begin at the most, if the loop was on its way into one (`LastPass`).

The modules of the parts have their proofs beside them. A module of proofs that
`Parts` instantiates states its assumptions in its theorems, since an `ASSUME`
there would be taken on trust. `PartsProofs.tla` discharges them from the named
assumptions of `Parts.tla`, which TLC evaluates for `MCParts`; shows that a
part moves in `Parts` as it does alone (the lemmas `*MoveAlone`); and states
each theorem of the composition, `Spec` being that of `Parts`:

* `RefundsAlwaysGoOut`, `ClaimsBuild`, `SpendsKeepUp`, `SpendsAreReadBack`
  (`SpendsProofs`), for any amounts, estimates, fee caps, CSVs, addresses, batch
  sizes and outputs, on both chains. `SpendsAssumption`: amounts and estimates
  are numbers, and a pass takes no more funds than a builder has inputs for. Of
  a claim it is only said that it builds if its opening is worth `MAX_DUST`
  (`WorthDust`). The argument:
  - A spend of a path has a known weight (`WeightsAre`), from what its witness
    holds and how long the CSV's push is. None of a refund's weighs more per
    input than `REFUND_VSIZE` says, none of a claim's more than `CLAIM_VSIZE`,
    and the keypath is the lightest.
  - A fee is what the rate asks of the whole vbytes (`FeeCovers`), rounded twice
    on Bitcoin, so that what fits n times in a size costs no more than n times
    its fee. So n thresholds cover the fee of a batch of n and the dust of its
    address.
  - Either round of a builder, on either chain, builds if the inputs cover the
    fee and the dust, and what it makes is the spend of its path
    (`RoundsAreMade`); the inputs are added up by a recursive function, whose
    sums are bounded from below by induction over a least counterexample
    (`SmallestNat`).
  - The invariant says of what is in the mempool that it is the spend of a path
    with its witness, signers and weight, and pays all it spends but its fee
    (`Spent`), which is how it is read back (`PathsRead`). A replacement that was
    refused paid no more in all, or no more by size, than what it would have
    replaced, which therefore keeps up too.
* `QuotesAreBest`, `RangesAreExact` (`PricesProofs`), for integers of any width
  and any policy, if base fees and ranges fit the width (`Amounts`). Both come
  from `Inverse`: an amount can be received for a sum sent just when what is
  asked for that amount is no more, overflow included, so that the two prices
  are a Galois connection. It rests on two facts about the floored fee,
  `DivBound` (the rounding of a quotient against a product) and `PartIs` (a fee
  floored before it is added is the fee floored after), and on what a
  saturating fee and `checked_add` do at the end, `MinSendIs` and `ReceivesIs`.
* `PagingAlwaysEnds`, `EverySwapIsFound` (`PagingProofs`), for any finite number
  of swaps and any page size. A page after which the paging goes on lists a
  swap of ours not listed before (`Counted`). Of the list as it stands, the
  swaps seen reach no further past the offset than swaps were created since
  (`Cursor`), so that a full page of an honest server brings something new; and
  what lies before the offset and was due is found, wherever creations moved
  it (`Looked`).
* `RatesAreFresh` (`FeeRate`, proved in `PartsProofs`), for any number of passes
  and any positive ttl. An estimate counts from the now of the pass that asked,
  which is no later than its making (`StampedFirst`, `AskedFirst`), so that the
  order in which answers are written back does not matter.
* `OneReconnection`, `IdsInOrder` (`SignalsProofs`), for any ids, delays, pushes
  and sockets. `OneByOne`: a socket is opened only once the one before is gone,
  and a reconnection is due only then; `Asked`: a promise of `next()` belongs
  to a listener that waits, or was left by one that ended.
* `DepositsConfirmInTime`, `RestoreIsFaithful` (`Terms`, proved in `PartsProofs`),
  for any times, depths and invoices. `Recorded`: a record is what `accept` makes
  of the server's swap from the time of the request, or of its signature, and
  of two the later one has the later deadline; `TimeLeft`: after a deposit
  there is a block's time for every confirmation that lacks and one more,
  block by block; on `Clocked`, `Dealt` and `Served`.
* `AppsByHandAreSafe` (`Report`): what the server tells is a state of its own
  (`Told`), a fresh view is made of that (`Viewed`), and what the app let go was
  for a payment whose preimage the server knows, or for the agreed opening
  (`LetGo`).
* `HistoriesAreWhole` (`History`), for any page size, listing of the mempool,
  order within a block, number of moves and of retries. A page lists the
  newest of what lies below its anchor (`ListingIs`), so that the pages so far
  have all that stayed in its block and is as new as the last anchor (`Paged`),
  wherever blocks moved the anchor meanwhile, because a chain moves only at its
  end (`ChainMoves`, on `Chained`: a transaction is in one block, or in the
  mempool). `SpendSeen`: a spend known all along is served until it is read.

Every invariant and every property of steps that a passing run checks is proved.
Only model-checked is liveness (`SettledIsClaimed`, `OpeningResolves`,
`DepositsComeBack`, `DueIsPassed`, `StopEnds`, `CallsReturn`), which rests on
fairness and is out of the prover's reach. Not in a run: that the last of many
strays is refunded. With two strays the check of liveness takes as long as a run
may; it was done once, by hand, and passed.

## 7. Where the code and its words differ

Three runs end in a violation:

| run | the code | the words |
|---|---|---|
| `swap_in_same_amount` | `observe.rs:245` breaks ties in a block by txid, not by age, so of two deposits the one the server did not pay for may be the opening, and nothing refunds it once the swap completed | `observe.rs:97` |
| `run_loop_racing` | `mod.rs:600` saves a new swap outside its lock, over what a restore of it stored meanwhile | `rt.rs:64` |
| `updates_end` | `mod.rs:960` polls the updates first and the stop second; an update sent and a loop ended between the two, on another thread, are an end told with an update left unread | `mod.rs:956` |

The models contain more behaviour of this kind, met while they were written.
No run is kept for these; each is one property away.

| the code | the words |
|---|---|
| `tick.rs:174` stores the preimage flag beside the status of the last pass; a step by hand of a swap that ended `ClaimWindowClosed`, after a reorg, and a crash leave a swap `run` never drives again (`NothingLeftWhenQuiet` with `ByHand` and a reorg) | `record.rs:135`, `tick.rs:171` |
| `observe.rs:150` reads the tip first; a block mined in the pass leaves less than `claim_margin` as the preimage goes out (`ReleaseGate` allows for those blocks) | `config.rs:48`, `tests/driver/world/server.rs:274` |
| `tick.rs:205` flags the refund key after it left; a crash in between, a server then silent to the CSV, and its keypath claim is reported as our refund | `decide/swap_in.rs:153` |
| `tick.rs:278` sees a pending refund only among the funds, which the opening leaves once a preimage completes the swap: a second refund goes out beside the first | `tick.rs:260`, `observe.rs:31` |
| `mod.rs:516` waits for the loop, not for the handles, which may still save | `mod.rs:514` |

## 8. Not modelled

The authentication of requests, invoices and codecs, and the documentation
site: pure conversions, which keep no state and whose results the models take
as given. Of keys, signatures, MuSig sessions and blinding `Spends` has who can
make which and what it commits to, not the mathematics. HTTP and the
conversions of the bindings. The last-error maps of the driver, which nothing
reads but the app. A server that lies to the driver: every value it takes from
one is verified before the models' `Proved` and `Merge` see it. What an app by hand
takes from one that lies is `Report`'s question. Hazards no property covers are in
`PROJECT.json`, each with its reason.

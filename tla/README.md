# Formal model of the Archer SDK

The Archer SDK is a Rust client library for an on-chain exchange on Solana. The
program itself is not in the repository: the SDK reads its accounts, mirrors its
arithmetic and builds its instructions. Correctness of the SDK is therefore
mostly a question of *what happens between a read and the landing of the
transaction built from it*, and of whether the mirrored arithmetic rounds the
way the builders and their documentation say. These modules model those
protocols and that arithmetic, TLC checks them on small instances, and TLAPS
proves the central results for every value of the constants.

Paths below are relative to the repository (`src/` is its Rust crate).

## 1. Inventory

| Component | State | Operations | Interacts with | Hard part |
|---|---|---|---|---|
| Limit-order client (`src/limit_order/`, the limit-order methods of `src/client.rs`, `src/onchain/level_op.rs`) | none of its own: a `LocalBook` per call | place, modify, cancel, cancel_all, replace_all, close; local capacity / cross / existence checks; level-op guards; chunking; registry books; bundled deposits and withdrawals, `compute_required_collateral` | the LO book account, the maker registry, the config cache | read-modify-write against fills, other calls and registry churn; batches of several instructions; close and reopen; collateral computed from a cached fee |
| Client reads and config cache (`src/client.rs`) | `market_configs` behind a `RwLock` | `get_market_config`, `invalidate_market`, `preload_market`, account reads | every builder that needs a `MarketConfig` | lock dropped across three awaits |
| Market parameters and administration (`src/onchain/params.rs`, `src/onchain/state/market_state.rs`, `src/ix_builder/market.rs`) | market account: parameters, status, two fees | initialize, change status, update maker / taker fee, transfer admin, collect fees | matching arithmetic | a long sequence of legal fee changes; markets whose conversions are inexact |
| Matching arithmetic and swaps (`src/math/engine.rs`, `src/ix_builder/swap.rs`, `src/math/lots.rs`, `src/math/ticks.rs`) | none | float amount to lots, lots to quote, fees, bid budget, four swap wrappers | market fees at build and at execution time | four rounding directions, word overflow, a fee change in between |
| Market-maker quoting (`src/ix_builder/maker.rs`, `src/math/levels.rs`) | none | `build_book_update`, UpdateMidPrice, UpdateBook, ClearBook, rescale, deposit, withdraw, expiry | the MM book account | several quoting processes, sequence numbers, mid and levels rounded separately |
| Maker book account (`src/onchain/state/maker_book.rs`, `src/accounts.rs`) | levels, mid, locked and free funds, status, expiry, sequence number | reserve computation, pending rebalance, withdrawable lots, staleness, restart gate, eligibility | quoting, takers, slot and restart sysvars | deferred rebalance, cluster restart, lagging slot |
| Maker registry (`src/onchain/state/maker_registry.rs`, `src/client.rs`) | up to 48 seats and a version | seating on placement, `UpdateRegistry` compare-and-set, register / deregister, `get_registered_maker_books` | limit orders, discovery | changes between any two reads, closed books that keep their seats |
| Order discovery (`src/limit_order/discovery.rs`) | none | project fetched books into a ladder, list its books for a swap | registry and books | order and cap of the result, books that close after the scan |
| ArcherAccount, identities (`src/archer_account.rs`, `src/identity.rs`, `src/onchain/builders/`) | account: delegate, builder-fee ceiling, tokens, lamports | create, set / revoke delegate, deposits and withdrawals, choice of signer, two checks before building | maker books, swaps | delegates of account and book diverge; checks made on an old read |
| Fee displays, encoding, PDAs, events, errors, units | none | layout and formatting | - | none |

The behaviours that make this code hard are interleavings of calls (`&self`
methods, several processes of one maker), transactions that land late or never,
fills, registry and fee changes between a read and a write, cluster restarts,
and integer rounding. `PROJECT.json` lists them one by one under `hazards`, at
the line where each bites.

What makes each component correct:

* limit orders: no update of the owner is lost, a fill is never undone by a
  guarded write, a transaction whose reads are current is accepted whole, and a
  cancel cannot be starved;
* cache: an invalidation is not undone, and staleness does not last;
* market and swaps: the taker's bounds hold to the atom after every rounding,
  the protocol never pays for a fill, conversions of a validated market are
  exact;
* quoting: a stale update does not overwrite a newer write, dead quotes are not
  filled, live ones are not hidden, the collateral estimate is what is locked;
* registry and discovery: a set computed from an old read overwrites no seat
  taken since, a scan misses no book that stays, the route keeps the best books;
* limit-order funds: a deposit the SDK computes satisfies the program's solvency
  check, a withdrawal comes after the instruction that frees the lots;
* delegation: what the SDK checks is what the program demands, no key is locked
  out by accident, and a delegate costs its user no more than was signed for.

## 2. Modules and their correspondence to the code

| Module | Models |
|---|---|
| `LocalBook` | `limit_order/book.rs` and the pure parts of `limit_order/actions.rs`: level ops with their guards, `diff_to`, chunking into instructions of at most `MAX_LEVEL_OPS`, the registry books each chunk names |
| `LimitOrders` | the calls of the limit-order client as a protocol: two reads, a build, a landing; the program, takers and the registry are the environment |
| `OrderLedger` | what the limit-order client promises its owner: orders amended only from the version that was seen, fills never undone |
| `LimitOrderFunds` | the money of the same calls: instruction lists that deposit, write, withdraw and close, run as one transaction, and `compute_required_collateral` against the program's solvency check |
| `MakerRegistry` | seats and version, placements that seat and evict, the authority's compare-and-set, and the filler: scan, ladder, route |
| `ArcherAccount` | the account, its delegate and ceiling, the two books of its owner, and one process per key that reads, checks, builds and lands |
| `MarketConfigCache` | `get_market_config` / `fetch_market_config` / `invalidate_market` step by step: one step per lock section and per RPC |
| `Engine` | market parameter validation, fee and lot arithmetic, the bid budget, `to_lots` |
| `Market` | life of a market and of one swap on it, from a taker's request in (quarter) atoms to the fill |
| `MakerBook` | what `maker_book.rs` computes from a book, and `build_book_update` |
| `Quoting` | the quote cycle of an MM book: processes of the maker, the program, takers, vault, authority, slots and restarts |
| `MC_*` | instances for TLC, and the fair specifications of the liveness runs |
| `*_proofs` | the theorems |

`LimitOrders` extends `LocalBook`, `Market` extends `Engine`, `Quoting` extends
`MakerBook` which extends `Engine`: the maker's collateral and the taker's swap
use the same arithmetic. `LimitOrderFunds` composes `MakerBook` (reserves) with
an instance of `LocalBook` (level ops), and `ArcherAccount` extends `Engine` for
the builder fee. `LimitOrders` instantiates `OrderLedger` under its refinement
mapping.

**State.** `LimitOrders` keeps the account on chain (`exists`, `levels`, `seq`,
`seats`), and per call what it read (`snap`, `reg`) and sent (`tx`). A level is
an id (side and price in ticks) with a size; size 0 means absent. `epoch` and
`filled` are history variables: the incarnation of the account, and the lots
filled at each level since a call's read. In `MarketConfigCache` a configuration
is the version of the parameters it reflects; `floor` and `racing` are history.
In `Market` an amount is in quarter atoms so that rounding a float to the
nearest atom is visible. In `Quoting` prices are in quarter ticks and sizes in
half lots for the same reason; `raced` and `quoted` are history. In
`MakerRegistry` `joined` (books seated since an authority process read), `steady`
(books seated at the scan's first read and open since) and `gone` (books closed
since they were read) are history. In `LimitOrderFunds` `steady`, `opened` and
`fills` describe what happened since the book's collateral was last recomputed.
In `ArcherAccount` `grant` is what the owner last signed for and `rotated` says
that the delegate changed after the read from which the book's restriction was
written.

**The abstract ledger.** `OrderLedger` has one order size per id, a version and a
life. A client `Look`s, and later `Amend`s, `Open`s or `Close`s the ledger, only
if the version it saw is still the current one of that life; an amendment may
add lots at an id only on top of the size that was seen and still stands;
`Take` removes filled lots at any time. Two reads, builders, chunks, guards, the
registry and retries are all below it. The mapping: `open <- exists`,
`life <- epoch`, `sizes <- levels`, `version <- seq`, and `seen` is the snapshot of
each call in flight.

**Actions.** One action per client method once its reads are done
(`BuildPlace` = `place_limit_orders` + `build_place` + `push_level_ops`, and so
on), one per RPC whose result may be stale when used (`ReadBook`,
`ReadRegistry`, `FetchHeader`, `FetchMint`), one per lock section
(`Miss`, `Insert`, `InvalidateMarket`), one per fetched book of a registry scan
(`FetchBook`), one per instruction or transaction the
program executes (`LandOps`, `LandClear`, `LandClose`, `LandUpdate`, `LandMid`,
`LandDrain`, `ExecuteSwap`, ...). A builder error and an instruction-free result
are `GiveUp`; a transaction that fails or expires is `Reject`, which is always
possible.

**External parts.** The on-chain program, takers, other makers and the
authority are modelled from what the code relies on:
`src/onchain/instruction.rs`, and the functions of the SDK that transcribe the
program's rules (`math/engine.rs`, `maker_book.rs`, `params.rs`). They are marked
`external` in the map. Where the program has reasons to refuse that the SDK does
not state, the model lets it refuse anything (`Reject`). In `Quoting` the
maker fee may change at any time, where the program wants the market paused:
this only adds behaviours. In `LimitOrderFunds` a fill of a bid is paid out of
the locked lots as far as they go and then out of the free ones, and each fill
rounds its cost on its own. In `MakerRegistry` seating and eviction follow the
documentation of `UpdateBookLimit` in `instruction.rs`; which of several evictable
seats is taken is left open. In `ArcherAccount` the builders run behind the two
checks of `archer_account.rs`, which the SDK offers and no builder calls: the
properties are about callers that use them.

Definitions preceded by the comment `Mutant` are deliberately wrong variants of
the definition that follows them. No action uses them; each one breaks the
property it is paired with in `PROJECT.json`, which shows that the property
depends on that part of the code.

## 3. Runs

| Run | Expected | Shows |
|---|---|---|
| `one_call` | pass | `FreshTxLands`: the builders' local checks predict the program's. With one op per instruction every batch is chunked; the registry (2 seats, one book that cannot be displaced) is churning and may be full. A transaction whose reads are current is accepted chunk by chunk, whichever seat the program gives; a cancel or a shrink even when the registry read is stale |
| `two_calls` | pass | two overlapping calls of one owner, fills in between, the account closed and reopened: `NoLostUpdate`, `GuardedWriteSeesNoFill`, `LandedBookIsPlanned`, the refinement `ImplementsLedger`, and the inductive invariant (`TypeOK`, `ReadsAreHistory`) |
| `default_reprice` | violation | `FillFailsTheWrite`, the module documentation's sentence, does not hold under the default cancel mode |
| `cancel_liveness` | pass | `CancelGetsThrough`: a caller that keeps cancelling empties its book although the registry changes for ever |
| `cache` | pass | `QuietInvalidationHolds`: only a fetch already in flight can defeat an invalidation; `StalenessHeals`: periodic invalidation ends with current parameters |
| `swaps` | pass | `TakerBoundsHold`, `ProtocolNeverPaysOut`, `ConversionsExact` over every side, mode, size and price, on two accepted markets, with seven refused ones tried, and fees that change between build and execution |
| `quoting` | pass | two quoting processes: `OverwritesAtMostOne` says exactly what sequence numbers let through, `MidSplitsQuote` on which side of the mid the levels land |
| `eligibility` | pass | slots, restarts, expiry, suspension, rescales, fills: `NoFillOfDeadQuotes`, `HiddenStaysHidden` |
| `funds` | pass | deposits, reprices, fills, fee changes and drains on a market whose lot-tick is one and a half quote lots: `EstimateIsLocked`, `FreshDrainLands` |
| `registry` | pass | `NoSeatOverwritten`: an `UpdateRegistry` lands only if no book took a seat since the read behind it; `SteadySeatsReported`: `get_registered_maker_books` misses no book that was seated and stayed open; `CapKeepsBest`: the route is full before it leaves a book off, and only worse ones are left off; `OnlyClosingFailsRoute`: a swap over the route is refused for its books only if one closed after it was read |
| `lo_funds` | pass | `DepositSuffices`: exactly when a deposit of `compute_required_collateral` is enough; `CancelFreesCollateral`: what a cancel frees, to the lot; `FreshCloseLands`: clear, withdraw, close in one transaction; `TypeOK`: no balance below zero |
| `delegation` | pass | `LockedOutOnlyByRotation`, `FeesWithinGrant`, `CheckedTxLands`: what was checked on a read that still stands is not refused for want of authority, identity or ceiling; `TypeOK` |

### Bounds and why they are enough

Every bound is a constant named `Max...`, or a small value of one of the code's
own limits (`MAX_LEVELS`, `MAX_LEVEL_OPS`, `MAX_SEATED_MAKERS`, `U64_MAX`,
`PPM_DIVISOR`, ...).

* *Limit orders.* Two bids and two asks with one crossing pair give every
  relation between levels the code looks at. `MAX_LEVEL_OPS = 1` makes every
  batch of two a multi-chunk transaction, `MAX_LEVELS = 1` makes side capacity
  bite, two seats and three books give free, taken and displaceable seats. Two
  calls are enough for a lost update; two epochs for close and reopen. What
  these two runs check is also proved without bounds.
* *Cache.* Two calls and two parameter changes let a fetch, a change, an
  invalidation and a second fetch overlap in every order.
* *Market.* Words of 5 and 25 bits and a fee unit of a tenth make rounding,
  fees and overflow visible on amounts up to a few lots; amounts include
  nothing, a quarter of an atom, a lot more or less, exact costs and one that
  overflows.
* *Quoting.* The race quotes have one member for each rounding case and each
  error of `build_book_update`. Two processes and four sequence numbers suffice
  for "one write overwritten" and to refute "two". Three slots and expiries of 0
  and 2 put the book before, at and after expiry and restart.
* *Registry.* Two seats for three books (one of a market maker) make the
  registry free, full and contended, and a swap that lists two books makes the
  cap bite on a full scan; the quotes are one-sided and two-sided, with a missing
  mid, an empty level slot and a best price that two books can share; two changes
  of the set allow a read, a self-seating and an update that must then fail.
* *Limit-order funds.* A fee of four tenths makes the buffer of every small
  notional round, the wallet can pay for some order sets and not for others, two
  writes give a book with resting orders and a second call on top of it, and pads
  of 0 to 2 lots put every condition of `DepositSuffices` on both sides of its
  bound. Weakening any of those conditions by a lot is refuted by TLC.
* *Delegation.* The owner and one of two platforms act, so a rotation, a
  revocation and a restriction to a third key all happen between a read and a
  landing; one lot and one rent put every balance at zero and above.

`cache`, `cancel_liveness` and the rest check deadlock: none of the systems can
stop.

### Fairness

* `RetrySpec` (`cancel_liveness`): weak fairness of the book read and strong
  fairness of `ReadRegistry`, `BuildCancel` and `LandOps`. It stands for a
  caller that retries, as the module documentation of `actions.rs` tells it to
  ("the caller refetches and rebuilds"), on a network where a transaction the
  program would accept again and again lands some time. Nothing is assumed of
  takers or the registry: churn may continue for ever, which is the point of the
  property.
* `HealSpec` (`cache`): weak fairness of the steps of a fetch (an RPC answers or
  fails, and the insertion follows) and of `InvalidateMarket`, a periodic
  refresh by the owner of the client. The code starts no refresh of its own, so
  without that caller nothing heals. No call is ever forced to start.

## 4. Proofs

Every invariant, action property and refinement that a passing run checks is
also a theorem, for arbitrary constants that satisfy the named assumptions of
the modules; the two liveness properties are not. TLC evaluates the assumptions in
every run. They are:

* *limit orders*: finitely many ids, sizes below the `u64::MAX` sentinel, positive
  limits, finitely many books;
* *arithmetic*: positive word sizes and divisors, `MIN_FEE_PPM <= 0`, `10^d` a
  positive number;
* *maker books* (`BookAssumption`): the sizes of a market are positive, the
  conversion denominator fits the account's `u64` field, and a `u128` holds the
  product of two `u64`;
* *quoting*: prices and sizes of a quote are natural numbers, fees integers;
* *limit-order funds* (`FundsAssumption`, `OrdersAssumption`): fees between the
  code's limits and at most the whole notional, and sets of orders whose
  collateral fits a `u64` (the builders return an error for the others);
* *registry*: finitely many books, whose quotes are MakerBook contents, and a
  registry and a route with room for a book.

**`LimitOrders_proofs`.** `TypeCorrect`, `HistoryCorrect`, `NoUpdateLost`,
`GuardsDetectFills`, `PlannedBookLands`. The invariant is
`IInv == TypeOK /\ ReadsAreHistory`. The action properties are about the step
that lands a transaction and need to know how the chain can have moved since
the read: (1) a transaction in flight names each id once, guards it with the
size the snapshot shows and carries the number after the snapshot's
(`TxFromSnap`); (2) as long as the account is the one read, its sequence number
has not decreased, and *if it has not moved* the levels are those read less
the fills since (`SnapOfChain`). Since a landing needs a fresh number, landing
on the same incarnation implies the number has not moved, and the three
properties follow. The lemmas `PlaceOpsFrom`, `CancelOpsFrom`, `ModifyOpsFrom`,
`DiffOpsFrom` show (1) for each builder, `FirstNaming` and `AfterOpsType` say
what applying the ops does.

*The refinement*, `LedgerImplemented`: an initial state maps to one, and every step
to a ledger step or a stutter (`LedgerStep`): reads to `Look`, builders and the
registry to stutters, landings to `Open`, `Amend` or `Close`, a call's end to
`Leave`. The landing is the step that needs most: an id whose size grows must
still have the size the snapshot shows, so `TxFromSnap` also says that every op
of a transaction in flight that is not an unguarded cancel carries the size the
snapshot shows as its guard (`OpsFrom`); `LandAddsToRead` derives the ledger's
condition from it.

*Fresh transactions land*, `FreshLanding`. `FreshTxLands` is about the books between
the chunks of a transaction, of which neither the state nor `IInv` says
anything, so a second invariant does (`SoundInv`): the book on chain and every
snapshot are sound (no side over its limit, not crossed), and so is the book
after *every* op of a transaction in flight, wherever the chunks end; its chunks
name the registry its call read, and it needed no split. The place loop keeps a
side within its limit because of the last order it placed there
(`PlacesStaySound`), and is nowhere crossed if it ends uncrossed, since orders are
only added. `diff_to` first only shrinks the set of resting orders and then grows
it towards the desired one, whose crossing was checked (`DiffStaysSound`); this is
where the order cancels, resizes, places matters. `modify` cancels before it
places on the same side. `SeatIsNamed` does the registry: with a free seat or a
seat of its own every later chunk names the registry as the first one leaves
it, and in the remaining case `RegistryFullSplitRequired` kept the builder from
building.

**`MarketConfigCache_proofs`.** `QuietInvalidation`. The invariant adds that,
unless a fetch was racing at the last invalidation, every header in flight is
as new as the parameters were then (`FetchesAfterFloor`), and that the floor is
in the past.

**`Market_proofs`.** `MarketInv`, `TakerProtected`, `ProtocolSolvent`,
`MatchingExact`. The invariant adds that the two fees never net to a rebate
(`FeesSound`) and that a swap in flight is what its request converts to
(`SwapFromRequest`). The arithmetic (what `div` rounds to, that two fees
rounded up fit the budget, that an integral lot-tick makes conversions exact)
is in lemmas of its own.

**`MakerBook_proofs`** has the lemmas the two modules about money share: integer
division and its rounding, the fee buffer, and sums over the levels of a book.
A sum is a fold over a set. What it computes for every finite set is proved by
induction on a *set* instead of a formula: `NatSetInduction` (a set of natural
numbers with 0 and every successor is `Nat`, from the well-foundedness of `<`) and
`SubsetInduction` (the same for the finite subsets of a set) take the instances
of a statement that hold as their set, which the provers can instantiate. The
fold is then the unique solution of its recursion (`IterateExists`,
`IterateAgree`), which gives `SumEmpty`, `SumInt` and what an element adds.

**`Quoting_proofs`.** `OverwritesBounded`, `DeadQuotesUnfilled`,
`HiddenIsUnfillable`, for any market, quotes and number of processes. The
invariant says of each process what has landed since its read as long as the
sequence number is less than two above the number read (`RaceCounts`), that the
numbers of a transaction in flight come from that read (`TxFromSnap`), and that
the slot in the account is that of the maker's last quote (`SlotIsQuoted`: a
clear, a rescale, a fill and a drain leave it). A stale write needs a number the
chain has not reached; only an update without a mid move, two above its read,
has one, and then `RaceCounts` names the single write it lands over.
`HiddenIsUnfillable` rests on both age tests being monotone in the slots.

The second invariant, `FundsInv`, is about contents: balances and prices are
numbers, and a transaction in flight is what `build_book_update` or
`withdrawable_lots` made of the process's snapshot (`FundsInvariance`). From it
follow `DrainLands` (the lots are computed by the formula the program uses, from a
book and a fee that are the program's), `EstimateExact` (an update lands only if
its reserve fits a `u64`, where the estimate does not saturate, and the closed
form of the reserve is the sum of the ceilings of its levels) and
`MidBetweenSides` (rounding to a tick is monotone, and the midpoint is rounded on
a scale twice as fine).

**`LimitOrderFunds_proofs`.** `TypeCorrect`, `DepositLands`, `CancelLands`,
`CloseLands`, from `Invariance`. A transaction is a recursive function over its
instruction list; `RunIs` unfolds it for a list of any length, `InstructionKeeps`
says what each accepted instruction does to book and wallet, and `RunKeeps` puts
the two together. The invariant says that the locked lots of each side are what
the orders of the side ask for under the market's fee, *short of one lot for
each fill since the book was last written* (`Locks`: a fill rounds its own cost up
and the rest of the level rounds again), and that a transaction in flight is the
instruction list its builder makes of its snapshot (`TxOk`). The missing lots are
why `DepositSuffices` asks for a pad, and its other conditions appear in the proof
where the cached fee meets the market's. The heart of it is that lots add up:
what the ops of a call leave on the book is the snapshot overwritten on the ids
they name (`AfterNames`, `DiffNames`), so the reserve of the result is at most that
of the old orders plus the notional of the new ones (`LotsAdd`,
`CollateralAtMost`), and the fee buffer of a sum is at most the sum of the buffers.

**`MakerRegistry_proofs`.** `SeatsSafe` speaks of the seats taken since an authority
process's read; the invariant (`VersionTells`) ties them to the version: the
version read is not ahead of the registry's, and while it is the current one no
book has taken a seat since. An update that passes the compare-and-set is in the
second case.

A second invariant (`ScanInv`) is about the filler: a scan has read or has still
to read every book that was seated when it began and stayed open, what it read
is open or was seen to close, and its route is what the ladder of what it read
gives. `SteadyReported` and `RouteFailsByClosing` follow from it. `CapIsBest` needs
to know that the ladder really is sorted: the model sorts a finite set by
counting the elements before each, and the rank lemmas show for any total order
that ranks are distinct, grow along the order and take every value
(`RankLess`, `RankTells`, `RankHits`), hence that the ladder lists every rung once,
best first (`LadderFacts`), and that the first positions of a book survive
`unique_books_in_order` in order (`UniqueFacts`, `LeftOff`).

**`ArcherAccount_proofs`.** `TypeCorrect`, `NoAccidentalLockout`, `FeesGranted`,
`ChecksAgree`, for any keys, fees and amounts. The invariant adds to the type and
the lockout property that a process holds a transaction only after sending it
(`Idle`), that a revocation in flight carries no ceiling (`Revokes`), that a
restriction or a swap in flight passed its check on its process's own read
(`Checked`), and that the account holds the delegate and ceiling of the grant
(`Granted`). `Checked` is what makes the lockout inductive: when a restriction
lands, either the delegate is still the one read, and nobody is locked out, or it
was rotated.

Only model-checked: `CancelGetsThrough` and `StalenessHeals`, since liveness under
fairness is outside the prover's reach. (`FillFailsTheWrite` is refuted.) The
strengthened invariants `ReadsAreHistory`, `SoundInv`, `ScanInv` and the `Inv` of
`LimitOrderFunds` were checked by TLC on the instances of the runs before they
were proved. Proving `DepositSuffices` showed a case its first statement left out,
and which the runs' bound on openings hid: a book closed and opened again since
the read can be back at the sequence number read, with other orders on it;
`Current` says so now.

## 5. Findings and observations

A finding is a run in which TLC finds a behaviour of the code that its
documentation excludes (`PROJECT.json`, `findings`, has the quotation).

1. `default_reprice`: modify and replace-all cancel the old level under the
   caller's `CancelMode`, by default `Any`, which carries no guard. A fill
   between read and write does not fail the instruction, and the full new size
   rests again.

Three further behaviours differ from the wording of their documentation; a
passing property says exactly how far each one goes:

* an `invalidate_market` between a fetch's header read and its insertion is
  undone by the insertion (`src/client.rs:98-106`, "Force a re-fetch on the next
  access"); `QuietInvalidationHolds` shows that nothing else can undo it;
* an update without `UpdateMidPrice` skips one sequence number and so lands over
  one write it never saw (`src/ix_builder/maker.rs:69`, "to avoid stale updates");
  `OverwritesAtMostOne` shows that it is never more;
* `build_book_update` compares float prices and rounds after, so a bid and an ask
  may share a tick (`src/math/levels.rs:19-24`, "no crossed book");
  `MidSplitsQuote` shows that they never pass each other.

From the modules on registry, funds and delegation:

* a deposit of exactly `compute_required_collateral` is not enough when the maker
  fee was raised after the resting bids were locked, when the cached fee is old,
  or, by a lot per fill, after bids were filled; `DepositSuffices` states the
  margin;
* `set_delegate` is documented to cover "every book the account owns ... including
  books created before" (`src/archer_account.rs:44-46`); a book restricted to the
  previous delegate is not covered, which is the exception
  `LockedOutOnlyByRotation` isolates;
* `Identity::for_book` makes the maker the signer of a wallet's book, so that
  book's delegate cannot quote through the builders of `ix_builder`;
* `get_lo_ladder` is documented to use the registry if present
  (`src/client.rs:490-492`) and always scans; with a cap over `build_ladder`'s list
  of bids followed by asks, asks may get no room (the model routes one side);
* `src/ix_builder/market.rs:178` names `IncompleteMakerBooks` for registering where
  the crate's README describes otherwise; `withdraw_tokens` and its instruction
  disagree on whose token account the destination must be; the documentation of
  `CloseMakerBook` and of `MakerIdentity` disagree on whether a delegate may close.

Noticed and not made into runs, since they concern texts only:
`ChangeMarketStatusParams::validate` allows Active/Paused to Frozen and Frozen
to Paused, while `src/onchain/instruction.rs:35-39` and
`src/ix_builder/market.rs:100-102` list only Active <-> Paused and the change to
Closed (`Market` follows the code); `src/limit_order/actions.rs:46-49` describes
`u64::MAX` as a drain sentinel that `src/client.rs:540` says the program does not
have; the documentation of `unique_books_in_order` speaks of 64 books where the
registry holds 48.

## 6. Not modelled, and why

* Fee displays, byte layouts, PDAs, events, error texts, unit newtypes: no state
  and no control flow.
* getProgramAccounts scans and the other read-only projections: pure I/O.
* TransferAdmin and CollectProtocolFee: they change nothing the SDK reads.
* Post-only rejection by other makers' quotes and suspension are reasons for
  `Reject` in `LimitOrders`, not state; orders enter it resolved to ticks and lots,
  since `resolve_new_order` is the rounding `MakerBook` models for quotes.
* Withdrawals by amount (`resolve_withdraw_lots`); the drain, where the deferred
  rebalance matters, is in `Quoting`.
* InitializeMakerRegistry (the initial state of `MakerRegistry`) and the platform
  tag of an ArcherAccount (a PDA seed).
* Two fee updates built by the global authority from one read: the program checks
  again against the account, and `Market` gives the builder the current fee.

## 7. Plan

Done, in this order: `LocalBook`, `LimitOrders` and its proofs;
`MarketConfigCache` and its proofs; `Engine`, `Market` and their proofs;
`MakerBook`, `Quoting`; `OrderLedger` and the proof that `LimitOrders` implements
it; `MakerRegistry` with discovery; `LimitOrderFunds`; `ArcherAccount`; and the
proofs of `ArcherAccount`, `MakerRegistry`, `Quoting`, `MakerBook` and
`LimitOrderFunds`, and of `FreshTxLands`.

Left: a proof that conversions of a market accepted by `Engine!ValidParams` meet
`BookAssumption`, so that the maker's modules inherit the market's validation;
conservation of lots as a property of `LimitOrderFunds` (what enters the book
leaves the wallet, over any number of calls); and an abstract specification of
the registry's compare-and-set that `MakerRegistry` implements.

# A TLA+ model of openhl-solana

openhl-solana is a perpetual-futures exchange as one Solana program
(`programs/openhl-core`) that wires small `no_std` crates (`crates/*`) into 35
instructions, with a few programs around it. This directory models the exchange and the runner of
its demo scenarios in TLA+, checks the models with TLC on small instances, and proves what
matters most with TLAPS for all instances.

`PROJECT.json` maps every definition to the lines it models and lists the runs, the
mutants that each property catches, the hazards and the findings.

## How the program runs

Every instruction runs alone on the accounts it names: the runtime locks writable accounts,
and an instruction that returns an error, or whose token transfer fails, leaves no trace.
Concurrency is therefore the order in which instructions of different signers land. What is
hard here is not a data race but

* state that survives between instructions and is kept up by several handlers (counters,
  free lists, FIFO links, the record of an insurance fund beside its tokens);
* callers who choose every account an instruction reads and writes, so that each handler
  has to tie them together again;
* values that are stale when used (a price up to 25 slots old, a funding index that a keeper
  last moved some time ago);
* limits: a full book, pool or tree, ids and counters at their maximum, an empty fund.

In the models an instruction is an action, its checks are the conjuncts of its guard, and an
instruction that fails is not an action. `Match` and `SlabMatch` loop; there one turn of the
loop is an action and the variable `taker` holds the loop's locals. No other action is enabled
in between, as the book is locked. This makes each fill observable, so that a property can
speak of it.

One program beside the exchange is concurrent in the ordinary sense: `scenario run` starts a child
program per step and reads its two output pipes in two threads. There a step of a thread is an
action, and what the threads share is the state.

## Inventory

| Component | State | Operations | Talks to | What makes it correct |
|---|---|---|---|---|
| Flat order book (ch. 7, 8) | `OrderBook`: 32 slots, `next_order_id`, `active_count` | CreateOrderBook, PlaceOrder, CancelOrder, Match | oracle-gated placement and builder codes write the same book | counters exact, ids distinct, best price first, nothing crossable left |
| Slab order book (ch. 15, `crates/slab`) | per side a critbit tree with a free list; a pool of order nodes with a free list; FIFO per level | CreateSlab, SlabPlaceOrder, SlabMatch | `on_fill` callback logs each fill | tree order, every node in exactly one place, FIFO per level, price-time priority |
| Oracle (ch. 9, `crates/oracle`) | `Oracle` per market; Pyth pins on `Market`; feed accounts of other programs | CreateOracle, SetOraclePrice, SetPythFeeds; v1 and v2 readers | read by positions and gated placement | no stale or foreign price is used; a fresh one is served |
| Funding (ch. 10, `crates/funding`) | index, rate, last update per market | CreateFundingState, UpdateFunding | read by positions | the index integrates the rates that were in effect |
| Positions (ch. 11, `crates/margin`) | `Position` per user and market | OpenPosition, ClosePosition, Liquidate | oracle, funding, collateral vault, insurance fund, SPL Token | opens healthy; settlements take no more than equity, from the right accounts |
| Insurance fund (ch. 11) | record and token account per market | CreateInsuranceFund, InsuranceFundDeposit; credited and drawn on by Liquidate and ClosePosition | SPL Token | record consistent and backed by tokens; pays before others lose |
| Collateral vault (ch. 6) | token account per market and mint | CreateVault, Deposit | SPL Token | pays only what settlements allow |
| Trading vault (ch. 12, `crates/vault`) | NAV, shares, per-depositor share records, token account | CreateTradingVault, VaultDeposit, VaultWithdraw, VaultUpdateNav | SPL Token | shares add up; rounding favours the vault; a backed NAV stays backed and everyone can leave |
| Fees and builder codes (ch. 13, `crates/fees`) | `BuilderProfile`s, fee vault | RegisterBuilder, PlaceOrderWithBuilder, ClaimBuilderFees, CreateFeeVault | flat book, SPL Token | accruals never exceed the fee vault; nothing is claimed twice |
| Oracle-gated placement (ch. 9) | writes `OrderBook` and fee vault | PlaceOrderChecked, -Pyth, -PythV2 | oracle, flat book, fees | only fresh prices, only inside the band |
| Markets, Stats (ch. 2 to 5) | `Market`, `Stats`, and which account is derived from which | Initialize, CreateMarket, CreateStats, BumpStats, Bench, and every other Create instruction | what all accounts above hang on | a market's terms never change; funds are kept in its quote mint; what is allocated for a slab is its holder's |
| Dispatch | none: a tag byte selects the handler | process_instruction | all handlers | the `Next` of each module |
| Scenario runner (`scripts/scenario`) | steps, child process, two pipes, two reader threads, a shared buffer, a report | run (v1: child processes, v2: in-process); list and show only print | the operating system | a step is judged by its whole output; every run ends |
| Layouts, other scripts, fuzzers | none, or no state of their own | | | not modelled |

Hard to test, component by component, is listed line by line under "hazards" in `PROJECT.json`.

## Modules

| Module | Models |
|---|---|
| `PriceTimeBook` | what an order book promises, abstractly: orders rest under handles, a taker fills against a best order, with or without time priority |
| `FlatBook` | the slot array of `process_place_order`, `process_cancel_order`, `process_match` |
| `Slab` | `crates/slab` and the two slab handlers, node by node |
| `MarginMath` | `crates/margin` and `crates/funding` as operators, with truncating division, `as u64` and 128-bit products |
| `Positions` | mock oracle, funding, positions, vault tokens and insurance fund of a set of markets |
| `TradingVault` | pooled vaults: shares, NAV, cost basis, tokens, with the share arithmetic of `crates/vault` |
| `OrderGate` | what every gated placement computes: freshness, band, fee, at their widths |
| `FeesBuilder` | gated orders across mints and their fee, fee vaults, builder profiles and claims, with the arithmetic of `crates/fees` |
| `OracleFeeds` | the three price gates: mock oracle, Pyth v1 and v2 accounts, pins |
| `Markets` | how markets come to be, and all accounts derived from them; `Stats` |
| `ScenarioRunner` | `scenario run`: main thread, child program, pipes, readers |
| `Units` | the sum of a function's values without recursion, as the size of a set; used by `TradingVault` and `FeesBuilder` |
| `MC...` | one instance for TLC of each component's module (symmetry sets, signed inputs, scenarios) |
| `FlatBook_proofs`, `Slab_proofs`, `Positions_proofs`, `TradingVault_proofs`, `FeesBuilder_proofs`, `Markets_proofs`, `OracleFeeds_proofs`, `ScenarioRunner_proofs` | theorems |

`FlatBook` and `Slab` each instantiate `PriceTimeBook` under a refinement mapping
(`RestingOrders`): a flat order's handle is its slot, a slab order's handle is its pool node,
and its side and price are those of the level whose queue it is reached from. `Positions`
extends `MarginMath`; `FeesBuilder` and `OracleFeeds` extend `OrderGate`. Each module of a component
has the whole of its handlers; where two components meet in one handler (a gated order writes the
book, a settlement the vault), one module has the handler in full and sees the neighbour through
what the handler needs of it.

### FlatBook

`slots`, `next_order_id` and `active_count` are the fields of `OrderBook`; a slot of size 0 is
empty. `BestSlot` is the scan of `process_match`: the candidate is replaced only by a strictly
better price, so it is the lowest slot among the best prices. Both counters saturate as in the
code. Left out: log lines, compute-unit measurements, account sizes and discriminators.

### Slab

`trees[side]` has `root`, `free_head` and `nodes`, a function to tagged records (`FREE`,
`INNER`, `LEAF`); `nodes` is the pool. `FindOrCreateLeaf` makes the two walks of
`critbit_find_or_create_leaf`, `RemoveLeaf` is `critbit_remove_leaf`, `JoinLevel` and `PopHead`
keep the FIFO. A bit of a price is read off its repeated halves (`Shifted`), as the code shifts it.
Walks follow links as the code does: the properties `CritbitOrdered`,
`TreeNodesAccounted`, `PoolNodesAccounted` and `FifosIntact` state what those links must be. An
order's owner is not modelled: the slab stores it and no operation reads it. The slab has no
cancel.

### Positions

| Variable | Code |
|---|---|
| `now` | `Clock.slot` and `Clock.unix_timestamp` |
| `oracle[m]` | `Oracle.price`, `Oracle.publish_slot` |
| `funding[m]` | `FundingState`: index, current rate, time of the last update |
| `positions` | the `Position` accounts that exist, by user and market (the seeds of the PDA); size 0 once settled |
| `fund[m]` | `InsuranceFund`: balance, total_deposits, total_drawdowns |
| `tokens` | balances of wallets, per-market vaults and per-market fund accounts |

Handlers receive accounts, not markets. An action therefore has one parameter for each group of
accounts that the handler verifies together (`feed` for oracle and funding, `vault` for vault
token and authority, `fund_record`, `fund_token`, the position), each the market the account
belongs to, and the verification is a conjunct. Payout accounts are chosen by the caller, as in
the code: `user_token` is any token account, even a vault's, and so is the liquidator's;
`owner_token` must be the owner's. Transfers happen in the code's order, each needs its source to
cover it, and a transfer from an account to itself changes nothing. All markets quote in one
mint (the one `fund.mint` and `market.quote_mint` tie every account to); delegated token
accounts are left out.

### TradingVault

`vaults[v]` has `total_shares` and `total_assets` (the NAV) of the vaults that exist; `shares` the
`VaultShare` records by vault and owner, `tokens` the balances of wallets and of each vault's own
account. A vault stands for its PDA, one per market and manager. `VaultDeposit` creates the share
record on first use and escrows last; `VaultWithdraw` burns from the record it is given, which
must be this vault's and the signer's, and pays to any account the owner names, even the
vault's own. `vault.total_shares -= shares` is unchecked in the code and wraps in the model.
`VaultUpdateNav` sets any figure: the manager is trusted with it and nothing compares it
with tokens. `SplTransfer` is a donation, a plain token transfer that no record notices.

### FeesBuilder

`fee_vaults` are the mints whose vault PDA exists, `profiles` the `BuilderProfile`s by builder (the
seed of their PDA), `tokens` the balances of wallets and fee vaults, by mint. `GatedOrder` is what
`process_place_order_checked` and `process_place_order_with_builder` share: the checks that tie
book, oracle and mint to the market, the band, the book write and the escrow of `ProtocolFee`.
Anyone can create a market in a mint of their own, so mints and markets are parameters and the ties
are conjuncts. `ProtocolFee` wraps at 128 bits and is cast to 64 as in a release build.

Two neighbours are seen through one number each. `mark[m]` is what `read_fresh_oracle` returns for
the market's oracle, `NoMark` when it refuses; `SetOraclePrice` sets it, `OracleGoesStale` clears it.
`active[m]` is the number of orders in the market's book, which is all a placement depends on by the
invariant `ActiveCountExact` of `FlatBook`: an order is refused only when no slot is empty.
`PlaceOrder` and `OrderLeaves` (a cancel, or a fill that consumes the order) are the book's other
writers.

### OracleFeeds

The price behind a gated order, from the programs that publish prices to the order. A feed account
has an owner, the one program that can write it, and `data`, a sequence of cells in the order of the
bytes. A v2 update is a Borsh value: `Full` is one cell shorter than `Partial`, so later cells
sit one earlier, and a shorter update written over a longer one leaves a cell behind (`PostFull`).
`PublishV1`, `HaltV1`, `PostFull`, `PostPartial` and `Recreate` (an account closed and made
again at the same address by another program) are what the world does to the accounts; they are
external. `VerifyPythV1` and `VerifyPythV2` are the market's checks of the account that the caller
names, the three `ReadFresh...` operators the readers, `GatedOrder` the part that the three
placements share. Two history variables carry the property: `published`, who published which
price of which feed and when, and `last`, what the last gated order was priced by. `conf` and `expo`,
which no handler decides by, are left out. All markets are of one mint here, the ties between mints
and vaults being `FeesBuilder`'s.

### Markets

An address is a sequence: `<<k>>` for a keypair, `<<base, quote>>` for the PDA of a pair, `<<>>` for
`Stats`. Each kind of derived account is a set of the addresses it was derived from, or a function of
them, so `create_account` on an address in use is a failed `\notin`. `Allocate` is the system
program's part for accounts that a keypair holder makes first (`Market::LEN` or `Slab::LEN` zero
bytes); between it and `Initialize` or `CreateSlab` anyone may act. Most Create handlers ask only that
the "market" belong to the program (`ProgramOwned`); `CreateInsuranceFund`, `CreateSlab` and
`SetPythFeeds` read it as a market. `Initialize` needs no signature, so an account allocated for a market
is whoever's instruction comes first; one allocated for a slab waits for its holder (`SlabsAwaitHolders`).

### ScenarioRunner

`pc` is the place of the main thread, `child` the program of the current step, `pipes`, `readers`, `hand`
and `captured` what the two reader threads work on. A program is the script of lines it writes and
its exit code; a line matches the step's expectation, is plain, or is not UTF-8. `Write` blocks on a full
pipe; a reader that meets a line that is not UTF-8 ends and closes its pipe, after which the program may die of the
next write or not notice (`WriteToClosedPipe`). `Captured` is `Arc::try_unwrap`: empty while a
reader still shares the buffer. The in-process path (v2) has no concurrency and is one action.
Printing, the dials passed in the environment, and expectations that span lines are left out. A pipe ends
with its program, so a background process that a program leaves behind with the pipe open, for which the
readers and with them the runner would wait on, is outside the model.

## Runs

| Run | Instance | Shows |
|---|---|---|
| `flat_book` | 3 slots, 2 traders, 2 prices (and the refused 0), ids up to 4 | types, exact `active_count`, distinct ids, refinement of the abstract book |
| `slab` | pool of 3, trees of 5 nodes, 3-bit prices, ids up to 4 | types, tree order, node accounting, FIFO integrity, refinement with time priority |
| `positions_accounts` | 2 markets, 2 traders, 3 prices | `FundSolvent`, `BoundedPayout`, `OwnerKeepsRemainder` |
| `positions_time` | 1 market, 2 traders, 2 slots, funding rates beyond the cap, deposits | types, `BadDebtClears`, `OpensHealthy`, `FundPaysFirst`, `FundingNeverRetroactive` |
| `trading_vault` | 2 vaults, 2 depositors, amounts up to 5, reported NAVs 0 and 3 | types, share total, cost basis, exit, share price, backing, fair deposits |
| `fees_builder` | 2 mints, 2 markets, 2 builders, 4 basis points to the unit, a `u64` of 4 | types, coverage, claims, the protocol's part |
| `markets` | 2 keypairs, 2 people, 2 mints, up to 4 accounts | types, `MarketsAreForGood`, `FundsHoldQuote`, `SlabsAwaitHolders` |
| `oracle_feeds` | 2 markets, 1 feed account, 2 programs, 2 feed ids, 2 pinnings, 3 slots | types, `PricedByItsSource`, `ServedWhenFresh` |
| `scenario_run` | programs of up to 3 lines, pipes of 1 line, up to 3 steps | types, `WholeOutputJudged`, `RunEnds` |
| `flat_time_priority` | 2 slots, 1 price | `OldestFirst` fails |
| `positions_reopen` | 1 trader | `Reopenable` fails |
| `fees_width` | 1 market, a `u64` of 15 | `EveryOrderPaysItsFee` fails |

Bounds and why they suffice. A three-slot book can be full, vacated in the middle and reused,
and a match can make several fills; ids reach their last value after three orders, with orders
still resting. Five tree nodes hold three levels, the fewest for which a removal has a
grandparent to rewire and an insert can splice above, below and between; they are two too few for
a fourth, and the pool is exhausted by the third order. Prices 1, 2, 5 of three bits differ in
the highest, the middle and the lowest bit. The prices 85, 94, 100 at size 10 and collateral 100
make positions healthy, liquidatable with some equity left (10, 40) and underwater (-50), with
penalties of 8 to 10 that split unevenly. A close in profit needs another trader's collateral
in the vault, which two traders provide. Vault amounts up to 5 give prices above and below one,
divisions with remainder both ways, NAVs that the tokens back and that they do not, and totals
at the limit of their type; two vaults are what a foreign share record or token account needs. Fees of 1 to 3 tokens at shares of a
quarter and a half leave remainders in both roundings, one requested share is above the cap, and two
orders take a profile's volume to the limit of its type; the second market, in a mint of no
worth, is what mixing up mints needs.

Four accounts are what the longest dependency of `Markets` needs (a market, its fund and the fund's
token account, which is created with it), with one more to interfere. With a staleness limit
of 1 and slots 0 to 2, a price can be fresh, just fresh and stale; two publications let an account
hold one price while another is still about, and one of the two pin sets names the wrong program for
v1 and the other feed for v2. Mark 4 with a band of a half, and order prices 1 and 5, have an order
inside and one outside. In `scenario_run` every script of up to three lines over both streams and all kinds
of lines is an initial state: with pipes of one line, two lines to a stream that nobody reads
already block a writer, and the third makes it matter which of the streams that was.

Bounds are named constants: `U64_MAX` for ids and counters, `MaxSlot` for the clock, `WalletStart` for
the tokens in circulation, `MaxAccounts`, `MaxPublications`, `MaxLines`. `CHECK_DEADLOCK FALSE` in the
runs of `Positions`, `TradingVault` and `Markets`: at `MaxSlot`, with empty wallets, or once all
accounts are made, nothing more may be possible. `ScenarioRunner` has an explicit `Terminated`
step and is checked for deadlock.

### Violation runs

These state what a document or comment says and the code does not do:

* `OldestFirst`: chapter 8 calls the matcher price-time priority. Slot index, not age, breaks ties.
* `Reopenable`: chapter 11 and the module documentation say a settled position can be reopened.
  `create_account` fails on the account that is still there.
* `EveryOrderPaysItsFee`: `crates/fees` says every order pays `fee_bps` of its notional. The fee is
  cast to `u64` and keeps its low bits: at price 2000 and size 2^63 it is 2^64, and nothing is paid.

Other divergences that the models make visible, without a run of their own:

* `crates/state/src/lib.rs:460` has the fund's `balance` mirror its tokens. Transfers that do not
  touch the record can add tokens; `FundSolvent` is what holds.
* Chapter 10 says that the difference of two snapshots is exactly the funding that accrued. Snapshots
  are of the stored index, as of the last `UpdateFunding`; `FundingNeverRetroactive` is what holds.
* Chapter 12 says a deposit leaves existing depositors' value as it was. At a NAV of 0 with shares
  outstanding it mints 1:1, and part of it goes to them. `FairDeposit` is what holds at a positive NAV.
* `crates/state/src/lib.rs:87` calls `market_count` the total of CreateMarket calls observed.
  `BumpStats` is an instruction of its own that anyone sends.
* `programs/openhl-core/src/lib.rs:313` and `:1745` say that every place-order variant pays a fee.
  `PlaceOrder` and `SlabPlaceOrder` pay none.
* `scripts/scenario/src/main.rs:799` says every byte is captured. What follows a line that is not UTF-8
  is not; `WholeOutputJudged` says what a step is judged by.

### Fairness

No fairness is assumed of the exchange: the program does nothing unless somebody sends an
instruction, and nothing obliges anyone to. In place of liveness, `BadDebtClears`, `EveryoneCanLeave`,
`EveryoneCanClaim` and `ServedWhenFresh` say that an instruction that somebody relies on is possible
(ENABLED). `ScenarioRunner` is different: `FairSpec` has weak fairness for the main thread, the
child and each reader, as the operating system runs every thread that is not blocked and a program's
output has an end. `RunEnds` is checked under it.

## Proofs

Every invariant and action property of the passing runs is proved for all values of the constants,
except where noted at the end of this section. What the proofs assume is what the modules state as
`ASSUME`: capacities and widths are positive, inputs fit their types, a value that stands for "none"
is no index, no taker, no trader, no line of output, no account of a feed. A published price is
an `i64`, as Pyth's are. A proof module stands by itself: what it needs of sums and
quotients is stated at its head.

### Books

`FlatBook_proofs`: `TypeCorrect`, `ActiveCount`, `IdsUnique` and `FlatBookRefines`.
Types and exact count form the inductive invariant: the count is what bounds `active_count` by
the capacity, and the types keep the arithmetic in the naturals. A step changes one slot, so the
count follows from the cardinality of a set with one element more or less (`WriteSlot`).
Distinct ids are inductive given the types, with the clause that every resting id is below the
next one. For the refinement, `BestSlotIsBest` shows that the scan ends with a best slot: take
a candidate with the fewest candidates better than it; well-foundedness of the naturals gives one.

`RoomByCount` and `BookIsItsCount` are what lets `FeesBuilder` keep a number where the code has a book: a slot is
empty just when the count is below the capacity (`CountAndRoom`), and the only moves of the count are the two that
`FeesBuilder` has, one up where there is room and one down where there is an order. `OldestFirstInSlotOrder`
is what is left of the time priority that `OldestFirst` refutes: among equal prices the lowest slot is filled
(`LowestSlotFilled`), which is the oldest order as long as slots and ids of the level run in the same order.

`Slab_proofs`: `SlabStaysSound` and, from it, `SlabTypeOK`, `SlabOrdered`, `SlabTreeNodes`, `SlabPoolNodes`,
`SlabFifos` and `SlabRefines`. The properties read lists and trees off the links; the invariant
`SlabInv` instead says that there are lists and trees that the links spell out, and a step names the
new ones.

* A tree is `Sound` if some function `sub` gives each live node the nodes of its subtree (`IsTree`: the
  root's is everything, an inner node's is itself and those of its two children, disjoint; subtrees are
  nested; split bits fall on the way down; prices agree above a split bit, which tells left from right),
  and some sequence is its free list (`FreeList`). The new `sub` of a splice and of a removal can be
  written down (`SpliceSub`, `CutSub`), so no induction over trees is needed.
* `Shared` says the same of the pool: `queue` holds the FIFO of each leaf, `fl` is the free list, and
  `at[n]`, `lv[n]` tell which of these node `n` is in, so that no node is in two. A queue of another
  level keeps its links because its nodes are not the ones that are written (`QueueStays`).
* Where a walk goes is shown by least counterexample: a recursive function on `0 .. n` exists and has the
  expected values, for want of a first number of links at which it does not. `PathToLeaf` and
  `SplicePath` end where the code needs them to (`PathToLeafEnds`, `SplicePathEnds`): the second walk stops
  above the subtree in which the new price differs first at `SharedBit`, and that is where `Spot` allows a
  splice. `RelinkMoves` says that the link that is rewritten is the only one to that subtree.
* `Subtree` reaches the whole of `sub` within `PRICE_BITS` links because split bits fall.
* For the refinement, `RestingOrders` is read as the book that `at` and `lv` spell out (`BookRead`), which
  gains, loses or shrinks one order per step (`BookEntered`, `BookGone`, `BookReduced`).
  `BestLeafIsBest` shows that the rightmost leaf is the highest price (by `HigherByBit`, of two numbers
  that first differ at a bit the one that has it is greater) and `HeadIsOldest` that the head of its queue is
  the oldest there. That a match ends only when nothing crosses follows from the same two facts.
* `LevelsFit` counts: a binary tree with `n` leaves has `n - 1` inner nodes. Without induction over trees that is
  the invariant that there is one leaf more than inner nodes (`OneLeafMore`), which a splice and a removal keep;
  live nodes and free list share out the array (`FreeNodesLeft`). For the 256 nodes of the program this is the
  128 price levels per side that `README.md:88` of the repository promises.
* `RoomForOrders` says that `SlabPlaceOrder` takes an order exactly when the pool has a node, the book an id, and the
  price either a level or a side with room for one more. `PlaceTo` is the action with the values of the next state as
  parameters, and `PlaceRelation` shows that the action is that case; a price that has a level is found by the walk
  (`PriceIsFound`), one that has none needs one node in an empty tree and two in another (`LevelOrRoom`).

### Money

`Positions_proofs`: `TypeCorrect`, `FundAlwaysSolvent`, `FundingByTheClock`, `PayoutBounded`, `RemainderKept`,
`FundingCancels`, `FundAlwaysPaysFirst`, `OpenedHealthy`, `SettledForGood` and `BadDebtCanClear`. The inductive invariant `IInv` is
`TypeOK`, in three parts, with `FundSolvent`: the types are needed for the amounts to be
naturals (`PaymentsNat`), solvency for the balance left after a drawdown to be one.
`TransferKeeps` says that a covered transfer takes only from its source, `AccountsDiffer` that
vaults, funds and wallets are different accounts, and `FundMoves` that a record and its tokens
that move together stay solvent; each action is an instance of it.

Three action properties are about settlements, the steps that clear a position, and `BoundedPayout` says that nothing
else is paid for: other instructions take from wallets alone (`WalletPays`), so a pot shrinks only when a position of
its market is settled (`PaidOnlyToSettle`), and no position is settled twice, being open no more. Only `ClosePosition` and
`Liquidate` can be one, and each is shown to settle with amounts that are the arguments of its transfers;
the properties are then about sums of pots that the transfers moved. They need one more invariant, that a
fund's balance fits a `u64` (`FundFits`), for a drawdown to be what it says. `RemainderKept` needs what the owner is
owed to fit a `u64`, as the code's cast does; it says so in the property. `OpenedHealthy` needs
`MAINT_MARGIN_BPS <= INITIAL_MARGIN_BPS`, which `crates/margin` has and `PolicyAssumption` states, and is about
positions whose margin product does not wrap 128 bits; for others it does not hold, which
`PROJECT.json` lists as a hazard. `FundingByTheClock` proves `FundingNeverRetroactive`: accruing
twice at one rate is accruing once for the sum of the times (`AccrueTwice`), which holds although each
accrual saturates, since a saturated index stays so while the rate keeps its sign; an
`UpdateFunding` accrues up to now at the rate that was stored, so the integrated index does not see it.
`FundingCancels` says of the truncation in `funding_pnl` that what it takes off a position it takes off the opposite one.
`SettledForGood` is what is true instead of the re-opening that `Reopenable` refutes. `BadDebtCanClear` is
`BadDebtClears` without ENABLED (see the end of this section): with nothing to pay to user or liquidator, the one
transfer of an underwater liquidation is the drawdown, which is covered because the fund is solvent.

`TradingVault_proofs`: `TypeCorrect`, `TotalIsSum`, `PriceNeverFalls`, `BackedStaysBacked`, `BasisAlwaysFollows`,
`DepositIsFair` and `NobodyLeftBehind`.
`SharesAddUp` says the total of a vault is the `Total` of the shares its records hold, the
number of elements of a set with one element per share and record (`Units`), so that sums need no
recursion. Where one part of a sum changes, the sum moves with it (`TotalMoves`, by what the others have, `TotalSplits`), and no part
exceeds the sum (`PartWithinTotal`). `SharesAddUp` is inductive with `TypeOK`, and each needs the
other: a withdrawal leaves `total_shares` a natural because the record burned from is counted in it.
The price follows from
the direction of the two roundings (`PriceAfterDeposit`, `PriceAfterWithdraw`) and backing from the
payout never exceeding the NAV it is taken from. `DepositIsFair` bounds from both sides what a deposit is worth
right after it: no more than was paid, and no less than that but for the price of one share.
`BasisAlwaysFollows` is inductive by itself: a partial withdrawal takes of the basis no more than the fraction of
the shares that it burns, so that some of it is left (`BasisReduced`), and the last one all of it.
`NobodyLeftBehind` is `EveryoneCanLeave` without ENABLED: a record's shares are part of the total
(`SharesAddUp`), so that the payout is part of the NAV, which fits its type and is in the vault.

`FeesBuilder_proofs`: `TypeCorrect`, `FeesAlwaysCovered`, `KeepsPart`, `AlwaysPaidInFull`, `EveryClaimPossible`
and `FeePaidWithinWidth`. What each step does to a
mint is `Keeps(mint)`, the body of `ProtocolKeepsItsPart`: what enters the vault less what is newly promised is
at least the protocol's part. Each action is shown to have it, from the cap on the share
(`ShareBound`, `CreditArithmetic`) and from `ProfileMoves`, which is `TotalMoves` for the profiles of a
mint. Coverage follows (`KeepingCovers`), since a vault that keeps its part is not promised away. The
inductive invariant is `TypeOK`, `FeesCovered` and the finiteness of the sums; nothing is assumed
but the ranges of the constants, and that the cap is at most the whole. `AlwaysPaidInFull` is by cases on the
step: a claim is the only one that lowers what is accrued, and it pays all of it. `EveryClaimPossible` is
`EveryoneCanClaim` without ENABLED; it follows from coverage and from the fact that a profile that has earned is in a
mint that has a fee vault (`VaultsOfEarners`). `FeePaidWithinWidth` is the part of `EveryOrderPaysItsFee` that
holds: within the widths of product and fee an order pays `fee_bps` of its notional, rounded down.

### Accounts and prices

`Markets_proofs`: `TypeCorrect`, `ForGood`, `FundsInQuote` and `HoldersFirst`, that is, all that
`markets` checks. The types say that no keypair is two accounts at once, which is why `Initialize`
cannot write over a market; `ForGood` follows, and with it that a fund's mint, once its market's
quote mint, remains so. `HoldersFirst` goes through the three instructions that touch keypair accounts
(`SlabsKept`): `Initialize` asks for the length of a market, `Allocate` for an account that is not in use,
and `CreateSlab` for the holder's signature.

`OracleFeeds_proofs`: `TypeCorrect`, `OrdersPricedBySource` and `FreshIsServed`. The property speaks of an order, the
invariant of accounts: whatever an account says in a layout that a gate would take, its present owner has
published (`Genuine`). It survives every writer because one program owns the account at a time
and a recreated account starts empty, and `Shift` is why the cells read are the cells written.
`BandExact` shows that the saturating band is never wider than the exact one. `FreshIsServed` is
`ServedWhenFresh` without ENABLED: every price is in its own band, however near to the end of its type, and the
checks of the two Pyth readers pass on what the pinned source published, `Zero` being no account that exists
(`ZeroAssumption`, the default key that an unpinned market holds).

### Scenario runner

`ScenarioRunner_proofs`: `RunnerTypeOK`, `RunnerJudgesWholeOutput`, `RunWindsDown` and `RunNeverStuck`, for every set of scenarios, every
length of their scripts and every capacity of the pipes. The invariant says of each stream how far its output
has come (`Fed`): `taken` is the last line that its reader took, `pos` numbers the lines of the script that the
pipe holds, in order and with none left out. A reader is done only where the next line of its stream is
garbled, or when the program has ended and no line is left (`Cut`, `Silent`). A match is in the buffer or in a
hand just when one was taken (`Heard`), so that the order in which the readers push does not matter. With
both readers done and the program at its end, the lines taken are the readable ones (`ReadableTaken`), and what is
found is what was said (`FoundIsSaid`). That needs the joins: `Control` says who is done at each place of the
main thread. The verdicts so far and the count of failures agree (`Judgement`), which gives the exit code. Assumed
is that scenarios are made of steps (`ScenarioAssumption`) and that an empty hand holds no line (`NoneAssumption`).

`RunWindsDown` and `RunNeverStuck` are what makes `RunEnds` true. Every step lowers the number of steps that are
not judged, or else how far the main thread has to go within its step, or else the lines that are still to be
moved, where a line counts 3 in the script, 2 in a pipe and 1 in a hand, and an open reader and a running program
count 1 (`Less`): no run is infinite. And until the run is over, someone can move (`CanMove`): the program is
blocked only by a full pipe whose reader is at work and thus has a line to take, or one in hand, and a reader waits
only for a program that runs. That needs the pipe of a reader that gave up to be closed, and both readers to be
threads of their own. The last step, that weak fairness then ends the run, is TLC's.

### Only model-checked

Every invariant and action property of the runs that needs no ENABLED is proved. Beyond TLAPS are ENABLED, which
`BadDebtClears`, `EveryoneCanLeave`, `EveryoneCanClaim` and `ServedWhenFresh` use, and liveness, which `RunEnds` is.
They stay with TLC as they are stated. What they say is proved in another form. For an instruction `A` there is a
relation `ATo` to the values of a next state, which are its parameters (`WithdrawTo`, `ClaimTo`, `LiquidateTo`, `PlaceTo`
and so on), a lemma that `A` is the case of that relation in which the values are those of the next state, and the
theorem that values exist: `CanLeave`, `CanClaim`, `CanLiquidate`, `CanPlace`. What is left to trust is that
a state with those values exists, which is what ENABLED says.

## Plan

Done: `PriceTimeBook`, `FlatBook` and `Slab` (the matching engines), `MarginMath` and `Positions`
(the money), `TradingVault` (the pool), `FeesBuilder` (fees and builders), `OracleFeeds` (the
gates), `Markets` (account lifecycle), `ScenarioRunner`; and that the book of `FlatBook`, seen through its count, is
the one that `FeesBuilder` keeps. What is left: pure arithmetic against reference definitions at the limits of its
integer widths.

## Not modelled

Byte layouts, little-endian decoding, payload parsing and discriminators; rent and compute units;
logging; `Bench`, which keeps no state; the `list` and `show` commands of the scenario runner, its
parser and its dials; a step's program that leaves a child of its own behind with its output pipe
open; the other command-line clients under `scripts`, which send one transaction and print accounts; the fuzz harnesses, which test the program and were read for what they expect of it.
A client that sees its send time out cannot tell whether the transaction landed; no client retries by
itself, so nothing is modelled of it.
A library user of `crates/slab` whose `insert_order` fails midway keeps what was done so far
(a leaf without its inner node, say); inside the program the transaction reverts, which is what
`Slab` models. No module composes all 35 instructions: the components meet in few handlers, and one
state space for all would be far beyond TLC.

# A TLA+ verification of `ccbalancer`

`ccbalancer` keeps, per trading pair, a target share of a volatile asset against a stable one. It is a
command-line tool without a daemon or a timer: an agent runs `plan`, `rebalance`, `cancel` and
`reconcile`, each command decides or acts once and ends, and everything it knows between two commands is
in files under the account's data directory. What is hard about it is therefore not threads but time and
interruption: the venue goes on trading between any two requests, a request can end without an answer, a
command can be killed between two file writes, and the next command has to make sense of what it finds.

This directory holds TLA+ modules that model that behaviour, the TLC configurations that check them on
small instances, and theorems about them that the TLA+ proof system checks for every value of the
constants. `PROJECT.json` is the index: components, runs, the source lines behind each definition, the
hazards and which property covers each, the findings, the theorems.

Source paths below are relative to `src/src/ccbalancer/`.

## 1. The system

### 1.1 Components, their state, their operations

| Component | State | Operations | Modelled by |
|---|---|---|---|
| Exchange store (`stores/exchange.py`) | none; the venue's orders, balances, prices are outside | `create_order` (never retried), `cancel_order`, `fetch_order`, `fetch_open_orders`, `find_order_by_client_id` (all retried), market data, candle paging | `Venue` (orders), `Execution` (failures), `SimulationFetch` (paging), `MarketData` (candles) |
| Open-orders store (`stores/order_store.py`) | `open_orders.json`: client-order-id → record with `order_id`, `filled_booked`, status | `put`, `remove`, `list` | `Reconciliation` |
| Fill ledger, state, history (`stores/ledger_store.py`, `stores/state_store.py`) | `ledger.jsonl`, `state.json`, `history.jsonl` | `append_fill`, `save`, `append_event` | `Reconciliation` |
| Reconciliation (`managers/reconciliation_manager.py`) | none between calls | `reconcile`: resolve, fetch, book the delta, advance or drop the record | `Reconciliation` |
| Execution (`managers/execution_manager.py`) | none between calls | `execute`: reconcile, cancel our open orders, place one order per actionable decision | `Execution` |
| Decision (`managers/rebalance_manager.py`, `managers/portfolio_manager.py`) | none | `decide`: guards, sizing, limit price, clamp over one snapshot | `RebalanceDecision` |
| Safety gate (`cli.py`, `confirm_token`, `session_notional`, `kill_switch_active`) | the token the agent holds, the `STOP` file | `plan`, `rebalance [--execute --confirm]`, `cancel --execute` | `RebalanceSession` |
| Paper account (`stores/paper_exchange.py`, `stores/paper_book.py`) | `paper_book.json`: balances, orders, id counter | the exchange store's operations on a simulated book, `paper reset`, paper login | `PaperAccount` |
| Simulation data (`managers/simulation_manager.py`, `stores/simulation_store.py`, `stores/history_fetch.py`) | one append-only candle file per timeframe, a manifest | `fetch`: resume, page, append, rebuild the manifest | `SimulationFetch`, `CandleLog` |
| Backtest (`managers/simulation_run_manager.py`, `managers/simulation_report_manager.py`, `utils/target_schedule.py`) | a run directory per digest of the request | `run`: replay and write; `report` | `Backtest` |
| Performance accounting (`managers/performance_manager.py`) | none; folds the ledger | `walk_fills` | `CostBasis` |
| Accounts (`stores/auth_store.py`, account directories in `config.py`) | `auth.json`, keyring entries, the books of each account | `auth login`, `use`, `rename`, `logout`; ids and the migration of old books at the start of every command | `Accounts` |
| Market data (`stores/market_cache.py`, `managers/indicators_manager.py`, `utils/indicators.py`) | one cache file per pair and timeframe | `analyze`: fresh cache, refetch or flagged fallback; the indicator snapshot | `MarketData`, `Indicators` |
| Portfolio, flags, decision log, regime (`stores/portfolio_store.py`, `stores/flags_store.py`, `managers/flags_manager.py`, `stores/decision_store.py`, `managers/regime_manager.py`) | `portfolio.json`, `flags.json`, the decision log | `pair add/set/remove`, `flag add/remove/list`, the log of `plan`, `regime` | `Workspace` |
| Rendering, configuration parsing, time helpers, packaging | – | no behaviour over time | not modelled |

### 1.2 How they interact

    agent --> plan / rebalance (dry) --> snapshot --> decide --> confirm token
          --> rebalance --execute    --> snapshot --> decide --> safety gate
                                         --> execute: reconcile -> cancel ours -> place ... -> reconcile pair
          --> reconcile / cancel
    reconcile --> fetch_order (venue or paper book) --> ledger --> state --> history --> open orders
    performance, simulation report --> walk_fills over a ledger
    simulation fetch --> source, page by page --> candle files --> manifest
    simulation run   --> candle files --> decide, bar by bar --> run directory
    analyze          --> cache or data exchange --> indicators --> the agent sets targets
    every command    --> auth.json --> id of the account --> directory of its books

The components share files, not memory. `execute` writes an *unconfirmed* record before it asks the
venue for anything, stamps the order id afterwards, and never books on submission; only `reconcile`
books, by the difference between what the venue says was filled and the record's `filled_booked` mark.

### 1.3 What is hard about it

* A placement call that times out may have created the order, may still create it, or never will.
* Orders fill between the reconcile that books them, the cancel, and the pass that books the rest.
* One booking is four file writes; a kill can fall between any two.
* Any read can fail after its retries and ends the command where it stands; the rest of the list waits.
* The venue's fee is cumulative, the ledger is incremental.
* Decisions are taken before `execute` reconciles and cancels, so they can be stale in three ways:
  the minimum interval, the balances, and the funds our own resting orders tie up.
* Several pairs share one stable coin, and each is sized as if the whole balance were its own.
* In a paper account the read of an order is what fills it.
* A fetch of candles reads pages from sources that cap them, leave gaps or ignore where they are asked to
  begin, and appends; a kill leaves part of a line behind.
* A replay must not know its future, although an order may fill on candles finer than the bars it is decided on.
* Credentials live in two places, and one of them may be gone for a session; the directory of a book hangs on an id that must
  outlive every rename.
* Indicators are index arithmetic over a series whose last element is not final.

`PROJECT.json` lists these and the other hazards at their lines.

## 2. The modules

| Module | What it is |
|---|---|
| `Venue` | The venue as the tool sees it: an order per client-order-id, with partial fills, outside cancels and late or lost placement requests |
| `Reconciliation` | `reconcile()` over the three files, one action per request or file write |
| `Execution` | The three commands that write, with failing requests and kills; safety, fairness, liveness, refinement mapping |
| `FillAccounting` | The abstract promise: each executed quantity is booked once, before the order is let go |
| `ExecutionInvariant` | The inductive invariant of `Execution`, by named parts |
| `Subsequences` | Sets of numbers in order and the elements of a sequence at some positions: what a comprehension with a condition leaves; sorting |
| `PaperAccount` | `Execution` with the paper book in place of a venue: balances, reservations, fees, the id counter, resets |
| `OrderProofs` | Proofs about `Execution`, and that it implements `FillAccounting`; that a paper account implements `Execution` until it is re-seeded; its ids, types, reservations and ledger, re-seeded or not |
| `RebalanceDecision` | `decide()` as operators over whole numbers |
| `RebalanceSession` | plan / rebalance / cancel over an account whose pairs share the stable coin |
| `Lemmas` | What the proofs share: facts about numbers, sums over finite sets, ascending lists and subsequences, and what `decide` guarantees of the order it proposes for one pair |
| `SessionProofs` | Proofs about `RebalanceSession`: tokens, caps, floor, the shared stable coin |
| `CandleLog` | The abstract promise of the candle store: closed candles, in order, none left out, only the end grows |
| `SimulationFetch` | `simulation fetch` over pages, files and manifest, with failing requests and kills; implements `CandleLog` |
| `CandleProofs` | Proofs about `SimulationFetch`: the series, the manifest, the refinement |
| `Backtest` | `simulation run` bar by bar, the run directory, `simulation report` |
| `BacktestProofs` | Proofs about `Backtest`: look-ahead, order and spacing of the fills, the account, the report |
| `CostBasis` | `walk_fills`: the average-cost accounting, as operators |
| `Accounts` | `auth.json`, the keyring and the account directories |
| `AccountsProofs` | Proofs about `Accounts`: credentials, ids, owners and the migration of old books, under kills and outages |
| `Fractions`, `Indicators` | Exact fractions, and the indicators computed with them |
| `MarketData` | `analyze`: the candle cache against a market that goes on trading |
| `MarketProofs` | An unflagged snapshot is current; the value of an indicator at a closed candle stays; indicators keep to their ranges and levels apart |
| `Workspace` | Pairs, flags, the decision log and the regime signal |
| `WorkspaceProofs` | Proofs about `Workspace`: the files stay loadable, the ladder is true, a move is followed once |
| `MCExecution`, `MCPaper`, `MCSession`, `MCCandles`, `MCBacktest`, `MCAccounts`, `MCMarket`, `MCWorkspace` | Values for the constants |

`Execution` EXTENDS `Reconciliation` EXTENDS `Venue`; `PaperAccount` EXTENDS `Execution`;
`RebalanceSession`, `Backtest` and `Workspace` EXTEND `RebalanceDecision`, so that the session, the replay and the log
go by one `decide`, as in the code; `SimulationFetch`, `CandleLog`, `Backtest`, `Accounts`, `Workspace` and `Indicators` EXTEND `Subsequences`; `Backtest` INSTANCEs `CostBasis`, which `report` shares with `performance`;
`MarketData` EXTENDS `Indicators` EXTENDS `Fractions`. Definitions headed "Mutant" are plausible bugs of the
definition that follows them. The specification does not use them; they exist to show that each
property notices one.

### 2.1 Execution and reconciliation

*State.* `venue` and `symbolOf` are outside the program. `store` is `open_orders.json`: whether there is
a record, whether it has an order id (otherwise it is "unconfirmed"), and its `filled_booked`. `ledger`,
`fees` and `history` count per order what the lines of `ledger.jsonl` and `history.jsonl` add up to;
`cooling` says whether the pair's `last_rebalance_at` in `state.json` is younger than the minimum
interval. `pc`, `cont`, `todo`, `fetched`, `toScan`, `doomed`, `toPlace` are the locals of the running
command; a failure or a kill forgets them (`Forget`).

*Steps.* Every request and every file write is an action of its own, so the venue moves and commands die
between them. The names follow the order of the code: `FindOpen`, `LeaveUnresolved`, `FetchOrder`
(`_resolve`); `AppendFill` (`_write_fill`), `SaveState`, `AppendEvent`, `AdvanceRecord` (the end of
`_book`); `ListOpen`, `CancelSucceeds`, `CancelFails`; `PutUnconfirmed`, then one of `CreateSucceeds`,
`CreateRejected`, `CreateUnanswered`; `StampId`, which hands over to a reconcile of that pair. Each
file is replaced or appended to in one step, as the stores write a temporary file or one line.

*Audit variables.* `torn` names the orders whose booking was cut by a kill between the ledger line and
the mark. It is not in the code; it lets the safety properties say exactly where the tool may book twice.

*What is abstracted.* Prices and averages; the quantity is `Lots` equal parts. Retries inside one request:
an action that reads is the attempt that succeeded, `ReadFails` the exhausted budget. Records are
taken up in increasing id, which is their insertion order. `cancel` without `--pair` lists all pairs in
one request; the model lists them pair by pair, which allows more interleavings, not fewer.

*What is left out.* Two commands at a time (the tool is single-user and takes no lock); malformed files; a create response without an
id; a venue whose filled quantity goes down; a failing `load_markets` (no state has changed by then); client-order-ids that collide
within one second.

### 2.2 The paper account

`PaperAccount` reuses each action of `Execution` for its effect on the files and adds its effect on the
book. `FillOnFetch` is the half of `fetch_order` that fills a crossed limit order and saves the book;
`FetchPaperOrder` the half that answers. The live price of a pair is a variable that moves within
`PricesOf`; as in the code an order fills whole, so `Lots = 1`. `FundsCover` is `_check_funds`: free is
the total less what open orders reserve. `Seed` is `paper reset`, and a paper login over an existing
account, which re-seeds the same way: fresh balances, no orders, ids from 1, `open_orders.json` untouched. What a
venue does and the book does not (unasked fills, timeouts, failed cancels) is absent. Fees are whole
numbers because balances are counted in `1/Scale`.

### 2.3 Decisions and sessions

`RebalanceDecision` follows `decide`: `GuardOrder` with `Skips` and `Reason`, `Amount` with
`RoundAmount`, `Limit`, `Clamp`. The code's quotients (percentages, values over prices) are multiplied
out, so comparisons are exact and the only rounding is the one the code does on purpose. Base quantities
count the smallest unit, `Lot` of them is the market's precision; quote amounts are in hundredths.
Binary floating point is not modelled.

`RebalanceSession` holds what the decision is made on: balances, resting orders, tickers, the interval,
the tokens issued, the kill switch. `Rebalance` is a whole `rebalance --execute`: decide again, pass
`_enforce_safety` with the same pairs and directions as some token, replace the resting orders of the
actionable pairs, each placement possibly refused. Its inside is the subject of `Execution`. Fills carry
no fee here. There is one pair per base asset and one order of ours per pair, which `Execution`'s
`OneRestingOrderPerPair` justifies when no placement was given up. A market without amount precision is left out.

### 2.4 Candles

`SimulationFetch` takes `fetch` apart where it can stop: `Resume` (`_fetch_timeframe` reads the last stored open and only that
line), `FetchPage` with `RetryPage` and `PageFails` (`fetch_ohlcv_range`, or the Binance archive with its own
retries), `AppendCandles`, `Summarize` (reads the whole file back), `RebuildManifest` (reads every file of the symbol). The
venue answers a page from its published candles and the clock, the forming candle included; it may cap pages
below the limit or answer from its first candle on whatever `since` says. A line of a file is a candle, which remembers whether it was read
closed, or text that does not parse; `Kill` inside an append leaves any whole lines, part of the next one, or a
last one without its newline, and text appended later joins it (`Joined`). Prices and volumes are left out.

### 2.5 Backtest

`ReplayBar` is one turn of the loop: resolve the order of the previous bar, build the snapshot on the balance after it, decide
with the target in effect (`PairAt`), leave the order or drop it. `Window` is where an order may fill: the bar, or the finer candles of a
time as long as the distance to the previous bar. The run directory is written as the code does, ledger removed, line by line, `run.json` last,
with kills in between; `torn` remembers directories whose rewriting a kill cut off. `Report` and `ByYear` read it back through `CostBasis`. A
basis taken out by a sale is rounded down where the code has 28 digits.

### 2.6 Accounts

A command of `Accounts` reads `auth.json`, decides, and leaves a list of writes (`todo`): a part of a secret in the keyring, the
replacement of `auth.json`, one book moved or begun. Each is a step; `Kill` drops what is left of the list. The orders are the code's: `persist`
before the file, `remove` forgets before it writes, `rename` after. `backend_for` falls back to the file when
there is no keyring (`KeyringChanges` is a session without one). Initial states include what a release before 0.2.0 left: an account
without an id, books in the app directory. Two audit variables: `given`, the credentials an account was last given, and
`owners`, the exchange accounts an id was proven to belong to.

### 2.7 Market data and indicators

A tick of `MarketData` is a trade; `TicksPerBar` make a candle, the newest is forming. `CacheHit`, `Refetch` and
`Unreachable` are the ways out of `_load`. `Indicators` defines each series over sequences of fractions, so that nothing is rounded, and one recursive
function (`Loop`) for every loop that carries a value along: the exponential and Wilder averages, the sums, and `_cluster_levels`, which merges a sorted
price into the level before it (`LevelStep`). The Bollinger width stays a variance, since its root is no fraction. The levels of a side are sorted by their
distance in the code; as they ascend (`LevelsInOrder`), that is their order, reversed below the close. A cap of levels may be negative (`Sliced`), as a slice allows. `Snapshot` is
`_build` without the labels for zones and trends.

### 2.8 Workspace

Edits of `portfolio.json` and `flags.json`, with what a command reports in `output`. `Plan` writes the record of each pair with its guard ladder, which the code
reconstructs from the reason; `Regime` and `Follow` are the agent's loop of reading a suggestion and setting the target with
`--target-set-price`. One snapshot stands for all pairs.

## 3. Runs

| Run | Instance | What it shows |
|---|---|---|
| `execution_safety` | 2 pairs, 2 orders of 2 lots, 1 kill | the safety properties below, and that `Execution` implements `FillAccounting` |
| `execution_live` | 1 pair, 2 orders, 1 kill, fairness | an order whose id is known is finally booked and let go |
| `timeout_strands` | 1 order | finding 1 |
| `paper_safety` | BTC/USDT and ETH/BTC, 3 orders, 1 kill, 1 reset | reservations, ledger against balances, ids after a reset |
| `session_safety` | two pairs on one stable coin, 2 price moves | token, caps, drift, floor, end of trading |
| `candle_stores` | 2 timeframes, 2 sources, 6 instants, 1 kill, 1 retry a page, fairness | `SimulationFetch` implements `CandleLog`, the manifest tells the gaps, a fetch ends |
| `backtest` | every path of 6 ticks over 3 prices, with and without a gap; 3 requests, 1 kill | no look-ahead, spacing, balances, the report adds up |
| `backtest_gap` | as `backtest` | finding 2 |
| `accounts` | 2 names, 2 credentials, 2 ids, a kill or an outage | credentials, ids and books survive |
| `keyring_outage` | as `accounts` | finding 3 |
| `market` | candles of 2 ticks, 9 ticks over 3 prices, limit 4, short periods | freshness, no repaint, ranges and warm-up |
| `workspace` | 2 symbols, 7 snapshots, 2 flags | files stay loadable, the ladder tells the guards, a move is followed once |

*Safety of `Execution`.* `LiveOrdersAreTracked`: whatever rests at the venue or may still reach it has a
record. `NoFillLost`: a record is dropped only when the ledger holds everything its order traded.
`BookedOnceUnlessTorn`: nothing is booked twice but by a kill inside a booking. `OneRestingOrderPerPair`:
cancel-and-replace leaves two orders of a pair open only if one was created after its placement call had been
given up. `HistoryAgreesWithLedger`: the audit log tells the quantities of the ledger. `BooksExactlyOnce`: the refinement.

*The paper account.* `LedgerExplainsBalances`: balances are the capital and the fills booked, but for fills the book made and
no pass has read. `ShortOnlyByBuyFees`: a balance falls below zero by fees of buys only. `NoIdReuseWhileTracked`: no record names an order that is not its own.

*Sessions.* `EveryOrderWasPlanned`, `PlacesWithinCaps`: what rests was announced by a token, and what a run places is within the session cap
together (`RunWithinCap`) and within `max_trade_notional` each (`OrdersWithinMaxTrade`).
`OrdersReduceDrift`, `FloorMissedByALotAtMost`, `TradingStops`: sizing at one price and placing at another neither
overshoots nor goes on for ever.

*Candles.* `KeepsTheCandleLog` is the refinement: whatever fails, the sound part of a file is the venue's closed candles, in order and with none left
out. `StoredCandlesAreFinal`, `ManifestTellsTheGaps` (what is called missing is what the venue never published),
`ReadableUnlessKilled` (only a kill spoils a file), `FetchEnds`.

*Backtest.* `NoLookAhead` is unconditional; `FillsInOrderUnlessGap` says what is left of the chronological ledger; `FillsSpaced` is the minimum interval along
the replay; `ShortOnlyByOneFee`; `ReportAddsUp` compares the average-cost accounting of the ledger with the replayed balance.

*Accounts.* `CredentialsSurvive`: only the account that was being logged into or out of may lose what it was given.
`BookNeverStranded`, `OneOwnerPerBook`, `BooksOnlyMove`: an id stays with its account, a book with its id, and books of one exchange account are not
mixed with another's.

*Market data.* `UnflaggedIsCurrent`: which candles may be missing from a snapshot that carries no warning. `NoRepaint`: the value of a closed candle does
not depend on later ones; only the directional indexes of early candles are withheld until the adx has its history. `IndicatorsInRange`: warm-up
positions and ranges. `LevelsApart`: the order of the levels, their side of the close, and that no merge brings two within the percentage that merges.

*Workspace.* `StoresStayLoadable`, `LadderTellsTheGuards`, `FollowedOncePerMove`.

*Bounds and why they are enough.* The execution properties speak of one order or of two orders of one
pair. Two orders and two pairs give an order resting while another is placed, in the same pair and in
another one; two lots give a partial fill, a second partial and a terminal fill; one kill reaches each
point between two writes, and the files a second one would find are files the first leaves. The proofs remove the bounds for
the properties of this paragraph. `paper_safety` takes a third order, so that two can reserve one asset and a third be refused, and
pairs chosen so that the sells of one and the buys of the other reserve the same asset.
`session_safety` uses a ticker set with a spread, with the last price off its middle, a jump, a closed market and an
unusable quote; targets of 50 and 80 percent; one pair with a floor, a clamp and a wide band; a cap that
two orders exceed together and neither alone. Two price moves let the market change between plan and
rebalance and again before the fill. Totals stay below TLC's 32-bit integers.
`candle_stores`: six instants give a first fetch, a second that resumes after a gap of one candle, and a third; the page
limit of two makes every longer range take several pages, one source caps below it and one ignores `since`; `--end` is not ahead of the clock
(`MaxAhead = 0`), see the remarks. `backtest`: six ticks are three bars, the fewest with an order decided, one filled and one more
decided after it; with the gap, the second bar's finer candles are missing. The requests cover finer candles or not, a schedule in range and a malformed one, a
range without bars. `accounts`: two ids are two accounts or one removed and added again; `MaxFaults = 1` takes a kill or an outage but not both, a
combination that would only meet finding 3. Names and credentials are interchangeable, as are the symbols of `workspace`, whose other
constants do not tell them apart. `market`: nine ticks are five candles with a limit of four, so that the window moves and the adx, the slowest
indicator, has values. With its adx of two the exemption in `NoRepaint` never
applies; the proof of `ClosedValuesStay` covers the longer periods, for which it does. `workspace`: one snapshot for every reason `decide` may give, and prices on both sides of the review band.

*Deadlock* is checked in every run: `reconcile`, `StartFetch`, `StartRun`, a login or a market move is always possible.

### 3.1 Fairness

Nothing in the tool makes a command start: `docs/DESIGN.md:12` gives the cadence to the agent. `Fairness` of
`Execution` therefore assumes an agent that runs `reconcile` again and again (strong, because other
commands come in between), a command that takes its next local step (weak: nothing but a kill stops it,
and kills are bounded), reads that get an answer now and then (strong: each may fail any number of times in
between), and a venue that settles whether an unanswered placement arrived. Nothing is assumed of fills,
cancels by hand, or of placements being answered. `FairSpec` of `SimulationFetch` assumes that a fetch which runs goes on: weak fairness of its
steps, a page answered among them, since a page that keeps failing ends the command after its retries. It does not assume that anybody
starts one. `TradingStops` needs no fairness: it says that the
account cannot trade for ever, and is checked on the bare specification.

## 4. Findings

Each is a run in which the model, which does what the code does, breaks what the repository says.

1. `timeout_strands`. An order that timed out at placement and then filled, or was cancelled, before the
   next pass is not in the open orders any more, which is the only place `_resolve` looks. Its record stays unconfirmed and its fills are never
   booked. `stores/order_store.py:5` says a placement timeout never strands an order.
   `KnownOrdersSettle` shows that the loss is confined to records without an id.
2. `backtest_gap`. After a gap in the bars the window of finer candles is as long as the gap, so an order may fill after the next decision
   has been taken on the balance it left. The ledger is then out of order, where `ReplayOutcome` (`managers/simulation_run_manager.py:70`) promises
   "chronological order". Without gaps it is in order (`FillsInOrderUnlessGap`).
3. `keyring_outage`. A command that writes `auth.json` in a session without a keyring rewrites a keyring file as a
   file-backend one, with the credentials it could not read; from then on the keyring is not asked any more. `backend_for`
   says that the recorded backend wins.

Remarked while reading or met while modelling, without a run of their own:

* Orders. A kill between the ledger line and the mark (`managers/reconciliation_manager.py:90`) has the delta booked again: what `torn` stands for.
  A fill booked by the reconcile inside `execute` does not stop an order that the minimum interval now forbids, because the decision
  came before (`cli.py:620`; `docs/DESIGN.md:150` gives the other order). A fee goes with a terminal pass that also has something to book (`managers/reconciliation_manager.py:89`): if the
  last lot was booked while the order still read open, it goes nowhere. The funds our own resting order reserves count as not free
  when the pair is decided again (`cli.py:620`): the pair is skipped for want of balance, and so its order is not cancelled either.
* Paper. A reset leaves records of the old book in `open_orders.json`; `fetch_order` raises on the first of them and every
  later `reconcile` and `rebalance --execute` stops there. The same stop is what keeps a new order from being booked under an old record (`NoIdReuseWhileTracked`). A
  paper re-login seeds the book anew where `docs/paper-account.md:72` says it keeps it.
* Session. `README.md:204-208` lists the token and the cap before the kill switch, which the code checks first. A clamp
  smaller than the price of one lot leaves an order of amount zero, which is sent.
* Candles. With `--end` in the future the forming candle is stored, and as it is the last one, it is never fetched again; `StoredCandlesAreFinal` holds
  for ends that have passed. An empty candle file makes the manifest raise `IndexError`. The run id of a backtest leaves out the limit offset, the
  minimum interval, the sanity bound and the exchange.
* Indicators. `adx` computes nothing at all for fewer than `2 * period` candles (`utils/indicators.py:179`), so the directional indexes of a series only a little longer
  than the period are missing, where line 170 gives index `period` as their first position. Without a move at all the relative strength index is 100. A period of 0 is accepted and divides by zero. The
  `fib.ratios` setting is not used. Where an exponential average is seeded depends on the window fetched, so two windows of one
  market give different values for the same candle.
* Regime and pairs. The regime signal has no sanity check of the price: a last price of 0 is a drop. A pair of 150 and -50 percent is accepted. A
  performance baseline is replaced by the first fill. The id of the newest flag, once removed, is given again.

## 5. Proofs

All proofs are for any number of pairs, orders, lots and kills, any configuration and any market.

**`OrderProofs`, the commands.** The safety properties are not inductive. They are silent about a command half way
through an order, about the status it holds in memory while the venue moves on, and about the pairs it
has promised to clear. `ExecutionInvariant` adds that, by parts:

* `UnissuedAreUnknown`, `CommandFrame`, `PlacementFrame`, `VenueFrame`: what is in hand at each point of a command;
* `StatusFrame`: the status in memory is at least the mark and at most what the venue has; a terminal one is final;
* `MarkFrame`: the mark equals the ledger except while the order is being booked, when the ledger is ahead by the delta;
* `HistoryFrame`, `FeeFrame`: the audit log trails by the delta just booked, the fee is booked with the last fill;
* `ClearedFrame`: before an order is placed for a pair, each open order of it was listed, each listed one cancelled.

Their conjunction with `TypeOK` and the safety properties, `ExecutionInv`, is checked by TLC and then
proved inductive (`Invariance`); one lemma per part and step leads there. `TypeCorrect`, `WriteAhead`,
`NothingIsLost`, `NothingIsBookedTwice`, `CancelAndReplace` and `AuditAgrees` follow.

`Implementation`: `Spec` implies `FillAccounting` under the mapping
`executed` = the venue's fill, `booked` = the ledger, `phase` = how far the record has come. The invariant
supplies what each abstract guard needs: `Book` books at most what was executed because the status in
memory is not ahead of the venue, `Settle` finds all of it booked because a terminal status is final.
A kill inside a booking maps to `Forfeit`, which needs something booked: `TearFrame` says that a booking under way has
written new quantity. From then on the abstract specification says nothing of that order (its quantities map to 0):
finding 2 shows that the code cannot promise more. Every other order, and every kill elsewhere, keeps the promise.

**`OrderProofs`, the paper account.** `PaperIsAVenue`: a paper account that is never re-seeded takes only steps of `Execution`, so the
theorems above hold of it; `PaperBooksAsAVenue` draws that conclusion for two of them. With a reset the orders of the book vanish under
their records, which no venue does, and the implication ends. The rest holds with any number of resets.

* `NoOrderTakenForAnother`: no record ever names an order of the book that is not its own, though
  the ids restart. The invariants of `Execution` do not help, since a new book is no venue. `IdInv` says instead that a record of an old book is fatal
  to whatever could do harm: `StaleBlocks`, as long as there is one the new book is empty, and a command that could place has that record still
  before it, because `execute` reconciles first and `fetch_order` raises on it. `UnissuedAreAbsent`, `RecordFrame`, `HandFrame`, `ReachedFrame` and `PlacingFrame` are what is in
  hand at each point of a command; `BookIds`, the ids of a book differ and are below its counter.
* `PaperTypes`: by `TypeInv`, that is `IdInv` with the ranges and what they lean on (an open order of the book has traded nothing, since what fills, fills whole).
* `PaperCovers`: for each asset, balance plus fees of the filled buys is at least what the open orders reserve. `_check_funds` compares with the balance less
  reservations, so each placement keeps it; a fill takes out of the balance what its order had reserved, plus the fee of a buy.
* `PaperLedgerExplains`: `BalancesAreFills`, a balance is the seed and the sum of what the filled orders of the book gained, and `BookingFrame`,
  the ledger has of each order what its record says as long as no booking is torn. The property is about rest points only; the frame says where
  each booking stands in between.

**`SessionProofs`.** `Planned`: no order rests that no token announced, by the invariant that whatever
rests is covered by an issued token; only `Rebalance` leaves a new order, and only with a token that
equals the one of its own decisions. `MaxTradeHolds`: each order is within `max_trade_notional`, from what rounding down and integer
division do, and because an actionable pair has passed the price guard, so that its limit is positive.
`FloorMissed`: rounding loses less than a lot (`RoundedByLessThanALot`), and a clamped order would leave less than a lot below its
cap, so an order that keeps a lot away from the cap was not clamped (`FloorHolds`); the invariant `Numbers` keeps balances, tickers and orders
numbers, which is all it takes. `CapHolds`: the notionals of the orders a run places add up to no more than those of its decisions, which the gate compared
with the cap. `CapsHold` puts the two together. `AccountTypes`: that no balance turns negative is not inductive, since every pair is sized as if the whole stable coin were its own;
`AccountInv` adds `Covered`, the buys resting together cost no more than the stable coin there is, which placing keeps because the
venue refuses what is not free. `DriftReduced` has a hypothesis, `LimitsNearLast`, because `OrdersReduceDrift` is not true of every market:
`quote_sanity_pct` holds the last price to the middle of the spread, but nothing bounds the spread, and a pair with a target of 99 percent that sells at
an ask of 2.2 times the last price ends further away. The hypothesis asks for a sanity bound of 33 percent or less (15 by default) and for accepted quotes whose
ask, with the offset, is at most twice the last price; `MCSession` has TLC evaluate it. Under it a buy pays less than half above the last price
(`BuyLimitNearLast`), and `BuyNears` and `SaleNears` weigh what an order makes good of the drift against what it moves the total by, which is
the part an overshoot could come from. Rounding and clamping only make the order smaller, so every amount up to the one that was sized is covered.

**`BacktestProofs`.** `Replay` is the invariant of the loop: `Frame` (the bars, what is read so far), `Account` (the fills and the time of the last), and
`OrderCovered`, the order that waits was decided on the bar before, with the account as it is and the interval over. `ReplayLooksBack`,
`ReplayKeepsInterval` and `ReplayShortByOneFee` follow from it and from what a window of a series keeps of its order. `ReplayInOrder` adds that the fills before
are over when the next decision falls due, which a gap would break. `ReplayReportAddsUp` goes through the directory: `RunBooks`, the average-cost accounting of the fills
so far has the position and the profit of the account; `Dirs`, what is written of a ledger and what is left to write are the fills; every directory that
is not torn and not being written is complete. The accounting is a recursive function of the ledger; how one more fill changes it, and how yearly sums make up the
total, are lemmas proved by the least counterexample.

**`CandleProofs`.** A *series* is a list of lines whose neighbours follow each other: the later opens after the earlier and nothing was published in between. The
invariant `CandleInv` says that every file is a series, and, in `PagesInv`, that the candles read so far cover exactly what was published from the
resume point to where the next page begins. So an append, whole or cut off, goes on from the last candle of its file without leaving one out. `SeriesStayReadable`: no line is torn but by a kill. `StoredAreFinal`: only
candles closed by `until` are taken, and `until` is not ahead of the clock. `ManifestIsTrue`: in a series the slots between two neighbours, an interval each, are what
the venue never published, so the counts and the gaps of the manifest are too; candles open at multiples of the interval. It holds after kills and with
any `--end`. `StoreKeepsTheLog`, the refinement: the log of a file is its sound prefix, up to the first line that does not parse or lacks its newline (`SoundTo`). A write extends
it by whole candles if the file was sound, and leaves it otherwise.
`StoredAreFinal` and `StoreKeepsTheLog` assume `MaxAhead = 0`, no fetch asks for candles of the future; with `--end` ahead of the clock both are
false, as the remarks on candles say.

**`AccountsProofs`.** None of the five properties is inductive: they speak of `auth.json` and the keyring as they are, and a command is a list of writes of
which any number may be done. `AccountsInv` says of that list what makes every prefix of it harmless:

* `AuthGood`, the file that is going to be written is sound for the ids minted (`SoundFile`), keeps every id with its account (`KeepsIds`), agrees with the
  proven owners as they will be (`OwnersMatch`), and *restores*: each account in it will read back what it will have been given, because the keyring already holds
  each part or one of the writes before puts it there, and none puts anything else (`Settles`);
* `AllSafe`, a secret is written only under a name that the file of that moment does not hold, or for the account being logged into or out of;
* `MoveFrame`, each book still to be moved is at the root and its place in the scope is free, each is moved once, to one scope, and before the command's own writes;
* `Together`, without kills and without books of their own in the scopes, a command that moves one legacy book moves all, and those that moved are in one scope.

Each write keeps it (`SecretKeeps`, `AuthKeeps`, `MoveKeeps`, `BookKeeps`), a kill does, since the file as it is needs none of the writes that are dropped, and so does a keyring
that goes or comes. For the commands, `Ready` says of a list of writes that a command may start with it; `ShapeReady` reduces it to the list of accounts that is written, and
`LoginReady`, `LogoutReady`, `UseReady`, `RenameReady`, `RunReady` show it for each command: the old secrets of a rename go last and those of a logout first, and both orders
are what `AllSafe` allows. `StartKeeps` takes the writes that change nothing out of the list again. The theorems: `AccountsTypeOK`, `CredentialsSurviveHolds`, `OneOwner` (the
owners of an id are at most the identity its account stores), `BooksKeepTheirAccount` and `BooksOnlyMoveHolds`. The proof also found an ambiguity of the model: `GivenAfter` was a `CASE` whose guards overlap when a login also changes the backend, and is an `IF` now.

**`MarketProofs`.** `UnflaggedSnapshotIsCurrent`, for any candle length, limit and market. `BarFrame`: the venue's candles follow each
other from the first tick to the newest; `CacheFrame`: the cache is a stretch of them, closed and unchanged but for the last; `ShownFrame`: what is shown
without a flag was fresh at that moment, and any tick takes it off the screen. The arithmetic of candle lengths is in lemmas of its own (`Monotone`, `NextBar`, `Starts`), so that the steps need no multiplication.
`ClosedValuesStay`, for any periods besides. Two lists `Agree` up to n if their first n elements are the same. Each indicator has a lemma saying that it takes
lists that agree up to n to lists that agree up to n: it looks at nothing behind the position it computes. `RunningAgrees` carries that through the averages, which
look back at all that was: the recursion exists (`RunExists`), and two recursions with the same seed and the same steps have the same values
(`SameRuns`). The gap in front of the macd's signal is the same in both lists or longer than n in both (`EmaOfTailAgrees`). By the invariant the cache agrees
with the venue's answer in all but its newest candle (`CacheAgrees`), and `LinesAgree` does the rest. While this was being proved, the step for the directional
indexes failed: a closed candle that had none gets one when the adx has its history. `NoRepaint` says so since. TLC agrees: with an adx of three and up to seven candles it refutes the
property as it was, and not as it is.

`IndicatorsKeepRange` and `LevelsStayApart` rest on `CandlesSound`, an invariant of its own: each candle of the venue, of the cache and of what is
shown has its close between its low and its high, and a positive low. The rest is about the operators, for lists of any length. `gcd` is a recursion over pairs, shown to exist
and to be a common divisor, so that every operation on fractions gives one in lowest terms (`FracIs`). `Is(a, n, d)` says that
`a` is n over d; two or three fractions have a common denominator (`IsTwo`, `IsThree`), and there a statement about fractions is one about integers (`ComparedIs`,
`PlusIs`, `TimesIs`). `LoopKeeps` is the induction over a loop, `KnownBehind` what it is used for: a series has no value up to its warm-up and
a value of a set after it. The averages keep to the interval their values are in, since a step is a weighted mean (`EmaStepWithin`, `MeanStepWithin`). That the two directional
indexes together are at most 100 does not follow from what each of them is, but from the running sums they are made of: `Covered` says that
the plus and minus moves together are at most the true range, of a bar (`MovesCovered`) and then of the sums (`WilderSumsCovered`). For the levels, `Sorted` is shown to sort
(`SortedLists`), and `UpTo` is what holds after each merge: the levels so far ascend, each is further than the percentage from the next, and the last is not above the price just taken in.
A merge lifts the last level, so its distance to the one before only grows (`FurtherUp`). What is shown is a run of the levels around the close (`SidesOfLevels`).
Ascending strictly needs a percentage that is not negative, which `LevelsApart` says. Two things came out on the way, which are corrected: the macd is known
from the slower of its averages on, also where that is the one called fast, and a negative cap leaves out levels instead of emptying the list.

**`WorkspaceProofs`.** `WorkspaceInv` has three parts. The files: `Sound`, no symbol twice and every pair valid, and `IdsAscend`, any two flags in the order of
their ids; `NextIdIsNew` says that `_next_id` is above them all, after any removals. The baselines: `Remembered`, a pair has the price its suggestion was
followed at, and a symbol that is not configured was not followed, so that a pair added again starts afresh. The output: `RecordsTrue` and `SignalsTrue`, what is on the screen is what the pairs and
the market say now, which `Follow` needs (its suggestion is a percentage, `SuggestedIsInt`). `StoresLoadable` and `FollowedOnce` follow; `LadderIsTrue` rests on `FirstToSkip`, the
reason names the first guard that skips the pair, and on `SixGuards`, the order the log goes by is the order `decide` goes by and no two guards share a name, without which
the ladder could not be told from the reason. Nothing is assumed of the snapshots but that the last price is a natural number.

**Induction.** The induction theorems of the library take an operator, which the provers cannot instantiate. `Lemmas` uses the least counterexample instead: a
set of numbers that is not empty has a least element (`LeastNumber`), which is a statement about sets and follows from the well-foundedness of the natural numbers. A
claim about lists of every length, or about sets of every size (`FiniteSetInduction`), is proved by looking at the shortest list for which it fails. In this way
`SumFunctionOnSet`, which folds a set in an order nobody knows, is shown to add up as a sum should (`SumWith`, `SumWithout`, `SumByClass`),
and `Ascending` to list its set in order (`AscendingLists`, `AscendingIsTheList`). `Picked` replaces `SelectSeq`, of whose operator a proof knows
nothing: the positions are a set.

**Assumptions.** The `ASSUME`s of the modules, which TLC evaluates in each run. They say that bounds are natural
numbers, that book files have different names, that an offset is below 100 percent (a buy limit is positive), that configurations, tickers, requests, periods and stored candles
have the types the code validates, that prices are positive, that the pairs of a portfolio are finitely many, that stored bars lie at least their length apart, and that a candle opens at a
multiple of its interval. `LimitsNearLast` is no such assumption but the hypothesis of one theorem.

**Model-checked only.** Liveness (`KnownOrdersSettle`, `TradingStops`, `FetchEnds`) and everything that needs
`ENABLED`, which are out of the prover's reach.
The numbers of the indicators are exact in the model and in the theorems; what rounding of floats adds is not covered by either.
Trading with three or more pairs on one stable coin, whose targets add up to far more than
the account, is not checked for `TradingStops`: `session_safety` has two; the proofs have any number.

**Not modelled.** Rendering, the parsing of settings, value types and build files have no behaviour over time. Two commands at once are not, because the tool is documented
as single-user and takes no lock: every store rewrites its file from a copy read earlier, so one of two updates would be lost. The live marking of
`performance`, with its percentages, and the read-only views of the command line change nothing.

## 6. Plan

Done, in this order: the order path (`Venue` to `FillAccounting`) with its invariant and proofs; the paper account, the decision and the
session; the candle store and the replay; accounts; market data; the workspace; the proofs about orders, paper accounts, sessions, the replay, the candle store, the cache, the indicators, the accounts and the workspace.

What is left:

1. A venue that reports less filled than before, and prices in `Reconciliation`, for the two hazards at `managers/reconciliation_manager.py:85-86`.
2. The gate of `RebalanceSession` composed with the inside of `Execution`, so that a `STOP` file created half way is seen to come too late.
3. The error that rounding in floats adds to the indicators.

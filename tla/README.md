# coin-auto-trade: TLA+ models, model checking and proofs

coin-auto-trade is an asyncio program that trades KRW markets on Upbit. This
directory specifies its concurrent core in TLA+, checks it with TLC and proves
some of its properties with TLAPS. `PROJECT.json` lists components, runs,
mutants, the map from definitions to source lines, findings, hazards and
theorems.

## 1. The system

All paths are below `src/src/`.

| Component | State | Operations | Talks to |
|---|---|---|---|
| `core/trader.py` loops | candles, held markets, warned, excluded and surge markets, pyramid entries, highest prices, entry timestamps, sell cooldowns, active orders | `_market_loop`, `_strategy_loop`, `_monitor_loop`, `_report_loop`, one `_monitor_order` task per buy | everything below |
| `kill_switch/coordinator.py` | macro flag, manual flag, peak equity, blocked markets | `check_macro` (monitor), `check_micro` (any SELL), manual halt, `reset`, `reset_market` (Telegram), save and load | its repository |
| `persistence/` | one SQLite connection; tables `pyramid_state`, `sell_cooldown`, `trades`, `excluded_markets`, `kill_switch`, portfolio | upserts, deletes, commits, `transaction` with rollback; migrations | one worker thread, in submission order |
| `exchange/upbit_client.py`, `rate_limiter.py` | token buckets, retry counter per call | candles, balances, tickers, orders | Upbit |
| `exchange/websocket_stream.py` | connection, bounded queue | reconnect loop; created but not started by `Trader.run` | Upbit |
| `bot/` | none of its own | Telegram handlers, one update at a time | trader, coordinator |
| `strategy/manager.py` | class cache by file time, the active strategy and its parameters | `load`, `activate`, `get_active`; `/strategy`, `/set_param`, `/reload_settings` | trader, bot |
| `strategy/` | none: each strategy is a fold over the candles | `generate_signals`, `get_indicators` | trader, backtest |
| `backtest/` | simulated portfolio | bar-by-bar simulation | strategies |
| `agents/` | none | a fixed chain of language-model calls | trader |

How they interact. Everything runs on one event loop, so the code between two
awaits is atomic and everything else may happen at an await. The loops and the
handlers share the fields of one `Trader` and one `KillSwitchCoordinator`
without locks, and one database connection whose statements are executed in
the order they were submitted while the submitter waits. The process may die
at any point; `docker/docker-compose.yml` restarts it and `_initialize` loads
the tables.

What is hard, and what would make each part correct:

* Decisions on old facts. Balances, tickers and candles are awaited and used
  later. A halt must stop buying; an entry must not be removed, nor bought
  twice, nor sold for prices older than itself.
* Two writers of one row. A row must say what memory says once the statements
  are through, or a restart changes the stops.
* One step of several failing. An order stands but its answer is lost; a
  statement fails after memory changed; a handler ends in `KeyError`.
* Crash and restart between an order and its record.
* A shared transaction. Commits and rollbacks of one repository hit the
  statements of another; and the driver opens none at all for a CREATE or an
  ALTER, so a migration can be torn.
* A shared rate. Many coroutines wait for one token, retries take none, and a
  retried order may be placed twice.
* Code that changes under the process: a strategy file or `.env` edited, broken,
  put back, while rounds and commands go on.
* Two computations of one thing: `get_indicators` repeats the loop of
  `generate_signals`, and a backtest executes signals that were computed as if
  each had been executed.
* Things that must happen in the end: phantom entries removed, delisted coins
  sold, stop-losses tried again.

`PROJECT.json` lists these one by one under `hazards`, at their lines.

## 2. The modules

| Module | What it is |
|---|---|
| `KillGate` | What the kill switch promises the operator: a command holds at once, and once it is sure no crash undoes it. |
| `KillSwitch` | The coordinator, its save (four upserts and a commit), the connection as the process sees it (`tx`) against the committed database (`disk`), three concurrent callers, failing statements, other repositories' commits and rollbacks, crash, restart. It implements `KillGate`. |
| `Trader` | The order path: strategy loop, monitor loop, order watchers and Telegram commands, each action the code between two awaits; the database queue; the exchange's balances, open buys and notices. |
| `PositionExit` | Stop-loss and trailing stop of one market: the exchange as the log of its prices, candles as summaries of the log answered at one time and looked at at another, entry, timestamp, highest price and row. |
| `SurgeDetection` | Which markets are watched: the top-N refresh and the surge detection of one monitor tick, split at their awaits, with reloads and exclusions between them. |
| `MarketRounds` | The rounds of the market loop and the strategy loop over several markets, while the lists, the balances and the kill switch change. |
| `ExchangeClient` | A request of `UpbitClient` from its token to its answer: both token buckets, the retries with their waits, and an exchange that may carry out what it answers badly or not at all. |
| `Migrations` | The schema, statement by statement, and `PRAGMA user_version`. |
| `StrategyManager` | The caches of the hot reload, the active strategy, and the commands that change it or the settings. |
| `Startup` | The two together: from a database of any release through the migrations to the running process, with crashes, edits of files and restarts. |
| `Strategies` | One step per bar for each of the eight strategies, and for the copy of its loop in `get_indicators` of `pyramid_breakout`. |
| `Backtest` | A strategy of `Strategies` with the engine and the portfolio that execute its signals. |
| `KillSwitchProofs`, `TraderProofs`, `PositionExitProofs`, `SurgeDetectionProofs`, `MarketRoundsProofs`, `ExchangeClientProofs`, `StartupProofs`, `BacktestProofs` | Theorems and lemmas about them. |

`KillSwitch` refines `KillGate`, and so does `Trader`, where the switch is halted by
hand or by the macro check and is saved by sells, the monitor loop and the
commands (rollbacks of other repositories are in `KillSwitch` only, so that here
nothing that is sure falls into doubt: `Gate!Steady`). The other modules look at the same `Trader`
object from different sides: `Trader` takes one market through its orders,
`PositionExit` takes one position through its candles, `SurgeDetection` takes the
monitor loop through its lists, and `MarketRounds` lets the lists change as
freely as `SurgeDetection` ever does and looks at the loops that read them.
`Startup` is what happens before and beside them. `ExchangeClient` is below all of
them and shows how a request may end: answered, refused, or lost after it was
carried out or not, and an order that the exchange hid behind a server error is
sent again, so that one call may place several. The requests of `Trader` end in
these ways too (`BuyHidden`, `PartialHidden`, `SellHidden`, with `MaxRetries`).

### KillSwitch

`mem` is the coordinator's fields. A call changes `mem` and starts a save: a
snapshot in `save[p]` and `p` in `dbq`, the queue of callers whose statement
waits. `Upsert` and `Commit` are the worker's steps. `told` is the last command
the admin saw acknowledged. `Fail` and `OtherRollback` are faults, bounded by
`MaxFaults`; `OtherCommit` is any other repository's commit.

### Trader

`ctl[p]` says where process `p` (strategy, monitor, bot) awaits and holds its
local variables: the market, the volume it read, the balances it was answered,
the dict it will save. A database call is two actions, the submission and the
resumption with `Served`. Prices are abstracted: whether a signal, a level or a
loss is there is a choice. A market buy adds four units of the coin, so that
half of it and half of the rest can be sold. An entry carries an `id` to tell
one dict object from another, because `_execute_partial_sell` saves through the
object it read before its awaits.

What is free of a coin and what the account has of it differ (`Available`,
`Held`): `ex.asks` are the markets whose sale the exchange has accepted and not
filled, so that their coins are locked. `/sync` looks at the one, the monitor loop
at the other, as the code does. The exclusions come from two places: `Init`
and `Loaded` take those of the table and add the settings' (`ExcludedMarkets`), at
every start. `MacroSaves` is `check_macro` when it has something to save: a peak
that rose, a trip, or both; it may trip while the manual halt is on.

Abstracted on purpose: the coordinator's four upserts are one statement here
(`KillSwitch` has them apart), so is `get_open_trades` with its `record_close`
calls; the ticker of a sale is taken to be answered, so the trade rows are
closed; rollbacks by other repositories are in `KillSwitch` only. The highest
price and its save are in `PositionExit`. The decision guard is that of the
pyramid strategy; the agent path sends orders through the same
`_execute_decision`. Paper mode and the report are not
modelled; the settings reload is in `StrategyManager` and `SurgeDetection`, the
buy-target set in `MarketRounds`. `Init` starts from an empty
account and any table of excluded markets.

### PositionExit

`log` has one price per instant. A candle (`coming`, then `cache`) has the start
of its last bar, the instant it was answered, high, low and close of that bar
and the highest price of its whole history. Two ghost fields of an entry serve
the properties: `from`, the oldest price the bot had in hand when it registered
the entry, and `guessed`, its highest price was taken from the candle history.
`owed` marks a highest price raised in memory and not saved. A save without a
timestamp keeps the row's (`COALESCE` in `pyramid_state.py`).

Abstracted on purpose: prices are integers where the code has floats; exchange
and bot read one clock; the round of the strategy loop for other markets is
left out; `/sell`, a delisting sale, the monitor and `/sync` all forget an entry
by `Forget`; a failing statement is in `Trader`.

### SurgeDetection

`mon.at` says where the monitor loop awaits: the warned markets, the checks
before the lists, the tickers of the hourly refresh, the alert about its changes,
the tickers of a detection of its own, or the alert about one more market.
`surge` and `left` are the keys of `_surge_markets` and the time each has left;
`mon.left` is the expiry the detection under way gives to those it still adds.
`seen` remembers what the last detection read, for the properties.

Abstracted on purpose: traded values (any set of markets may be at the top, any
set may meet both conditions of a surge, in any order of their increase), the
order within the top list, the early return when two
detections fall on one clock reading, and the reload of the TTL. The sale of a
market newly warned about is in `Trader`; here only the set is replaced.

### MarketRounds

Markets are numbers in the order of their names, because both loops take
`sorted(...)`. `mk` is what is left of the market loop's round; `st` is the
market the strategy loop has in hand, the markets that come after it, and the
`target_set` it read when the round began. `_held_markets` changes when a buy is
through and whenever the monitor loop reads the balances, also for coins that
came or went by other ways than the bot. `Broken` are coins whose candles
the exchange always refuses: `_markets_held` makes a KRW market of any currency
of the account, and not every currency has one. The exception ends the round,
so `HeldWatched` speaks of the markets up to the first of these.

Abstracted on purpose: an order is one step (`Trader` has its parts), candles
are there or not, and `Relisted` replaces the lists by any others.

### ExchangeClient

Time is discrete, and tokens are counted in the fraction that one tick refills,
so a token costs `Cost[b]` units and a full bucket has `Capacity[b]`. `tokens` is
`_tokens` as it was written last; `lag` is the time since `_last_refill`, capped
where the bucket is full anyway; a refill happens inside `acquire`, as in the
code. `call[t]` is one coroutine's request: `acquire`, `send` (with `timer` the
sleep that is left), `ended`. `done` counts how often the exchange carried the
request out, and `hidden` how many of these it answered with a server error.
`burst` is a leaky bucket kept as history: it measures the traffic without
looking at the tokens.

Abstracted on purpose: the jitter gives whole ticks around a tenth of the delay;
`asyncio.Lock` needs no state, because nothing is awaited while it is held;
connection errors and timeouts are one thing, `NoAnswer`, because the retry
loop catches neither.

### Migrations, StrategyManager and Startup

`schema[v]` says how many statements of version `v` the database has. `RunStatement`
commits on its own: Python's `sqlite3` opens a transaction before INSERT, UPDATE
and DELETE only, so `Database.transaction` around a migration holds nothing
together. The CREATE statements can be repeated, the three ALTER TABLE cannot.

A text stands for the content and the time of a strategy file. `classes` and
`mtimes` are `_classes` and `_mtimes`; `Load` is `load`, with the order of its
assignments and what stays changed if the constructor raises. Between its first
look and its last assignment none of the commands awaits, so each is one action.
The message of success is awaited afterwards but inside the `try`, so `Answer` may
be "error" also when everything has changed. `NameOf` is the `name` attribute of a
class, which `/set_param` and the reload activate by and which need not be the
name of the file: a copied file may still have that of another strategy, and one
without it is called `unnamed`.
The five pyramid settings are two, the amount and the percentages, because
`/strategy` passes the amount only: a switch by command runs with the
percentages of the class and not with those of `.env`, until the settings
change and are reloaded. `overridden` marks this for `SettingsInForce`, and
`/set_param`, and a reload that passed over the strategy in use because its class
is not called a pyramid (`base.py:31` recommends that the names agree).

Abstracted on purpose: an edit always changes the file's time (one that keeps
it is not seen by the code and would break `FreshStrategy`); Python's own cache of compiled
files is off in the container (`PYTHONDONTWRITEBYTECODE` in `docker/Dockerfile`); the lists
of markets that a reload changes are in `SurgeDetection`.

### Strategies and Backtest

`s` is what the loop of `generate_signals` remembers, `PyramidStep`, `LSStep` and
so on are one pass of it. The code first computes all signals and then walks the
bars; both go forward and the signals never look at the portfolio, so `OneBar`
does a step of each. `past` holds as many bars as the strategy looks back.
Percentages are compared without division; the average price stays a fraction
(`cost` over `vol`).

`engine` is the engine a backtest uses. `/backtest` and `scripts/run_backtest.py`
give any strategy to `BacktestEngine` ("long"), which ignores short positions;
`scripts/run_backtest_ls.py` gives `pyramid_breakout_ls` to `LSBacktestEngine` ("ls").
Money is whole and a coin has `Grain` parts, where the code has floats. Any price
is at most `Grain`, so that whatever pays more than the fee buys at least one
part, as it does in the code. Quantities and values are rounded against the
portfolio. `BacktestEngine` spends all the cash, and the product it gets may be a
rounding error above the cash: `over` is this error, and with it `enter_long`'s second
branch is taken. `TotalEquity` is `total_equity` as both portfolios have it; `Worth`
is a notion of the specification, what closing everything would leave, which is
the equity and the margin of a short sale that `exit_short` gives back.

`trend`, `level` and `atr` of a bar are the comparisons of TA-Lib's results and of
the moving averages; any sequence of them may occur.

## 3. What is checked

Each action and disjunct of the modules fires in a passing run, and each
property of a passing run is broken by a mutant of the code (in `PROJECT.json`;
the mutated operators stand in the modules and are marked "Mutant").

| Run | Shows |
|---|---|
| `killswitch` | `AckDurable`: an acknowledged halt or resume is what a restart loads, whoever saves, fails or commits meanwhile. `NoLostUpdate`: without a fault, the idle database equals memory, although three savers write snapshots of everything. `PeakKept`: the peak on disk never falls. `GateSpec`: refinement of `KillGate`. |
| `trader` | Two orders, a restart, and a hidden or lost answer or a failing statement. `OneCallAfterHalt`: after a halt, by hand or by the macro check, at most the one order call under way still buys, with the orders the client sends again for it. `GateKept`: refinement of `KillGate`, and `/halt` and `/panic_sell` answer only when a restart is bound to find the halt. |
| `trader_faults` | Adds, partial sales, `/pyramid_set`, `/sync` and `/panic_sell`, with a refused order, a hidden or lost answer or a failing statement. `RowsAgree`: when no statement waits, tables and memory agree, so a restart changes nothing the loops decide on. `PartialTakenOnce`: one partial sale per entry. `GateKept` again. |
| `trader_live` | `RowsAgree` with a restart and a market of `EXCLUDED_MARKETS`, which `/unblock` frees and the restart excludes again; delistings and `/sell`. `PhantomCleaned`: an entry of a coin that is neither held nor on order goes away. |
| `position_exit` | `ExitEarned`: a sale rests on prices the market had since the entry. `StopsSurvive`: the row has entry, timestamp and highest price. |
| `surge_detection` | `CapKept`: no market is added beyond the cap its detection read, whatever is reloaded or excluded while the alerts are sent. `MarkedIsNew`: a watched market that is warned about or excluded was marked after the last detection pruned, so the next one drops it. |
| `market_rounds` | `HeldWatched`: the candles of a held coin are asked for again and again, unless a coin whose candles are always refused comes before it. `HeldJudged`: a held coin with candles that is not blocked is decided on again and again. `BuysWereTargets`: only a market that was a buy target since the round began is bought. |
| `exchange_client` | `BurstBound`: in any stretch of time the first attempts cost at most a full bucket and what the stretch refills, however many coroutines wake for the same token. `OutcomeTold`: an order call places at most one order more than the exchange hid behind server errors; "rejected" and "ok" mean what they say. `BucketServes`, `CallEnds`: someone is always served, and a call ends. |
| `backtest` | `InStep`: the portfolio has the position the strategy believes in, except where the cash pays no more than the fee (which the long/short engine reaches: a short sale may lose more than its margin) and except for short positions in the long-only engine. `RecordsAddUp`: the trade records explain the cash to the unit. `FillsNeverProfit`: executing a signal never makes cash, coins and margin together worth more at that close. `AddsWithinPeak`, `HeldAboveStop`: a pyramid adds only at levels its peak has passed, and no strategy that has a stop holds a position at it, `turtle` with its ATR stop included. `IndicatorsAgree`: the copied loop shows the levels the strategy uses. |
| `startup` | `SchemaComplete`: whoever gets past the migrations has the whole schema. `FreshStrategy`: a round never runs an old class. `SettingsInForce`: thresholds and parameters are those of the settings. `TradesAgain`: once the files are sound, the process comes up and decides again. |

`RowsAgree` excepts rows a partial sale wrote from a dict that was no longer the
market's entry (`stray`), the markets the settings exclude, which every start
excludes again whatever the table says, and histories with a failed statement;
`AckDurable` excepts a rollback of another repository since the command. These are
not conveniences: without the exception the property fails, because the code has
no defence there.

Two runs show a statement of the documentation or of a comment that the code
does not keep; each is a finding in `PROJECT.json`.

| Run | Statement | What happens |
|---|---|---|
| `trader_double` | the entry table prevents duplicate buys (`trader.py:68`) | old balances of the monitor loop remove a fresh entry, and the coin is bought again |
| `trader_warned` | a held coin is sold when its delisting is noticed | a sale that fails once is not tried again |

Other disagreements are exceptions of properties that hold otherwise, or have
no property:

* `docs/architecture.md:193` excludes the bar in progress for every entry with a
  timestamp. `ExitEarned` excepts one registered by hand or by `/sync` before the
  strategy loop's first round: it gets the highest price of the candle history
  (`trader.py:617`) and may be sold at once.
* `docs/architecture.md:165` and `:189` measure stop-loss and trailing stop from the
  average price, "not the entry price". `_check_position_exit` takes `entry_price`, which an
  add leaves as it is (`trader.py:901`, `:1134`), so after an add a position may be
  sold below its average by a trailing stop, and is held below the stop of the
  average. `ExitEarned` states what the code does.
* `docs/telegram-commands.md:152` says of `/halt` that it blocks all new orders at
  once. A buy that has passed the gate is accepted after it, and an order hidden
  behind a 5xx is sent again; `OneCallAfterHalt` is what holds.
* `docs/telegram-commands.md:99` says that `/unblock` outlasts a restart.
  `_initialize` adds `EXCLUDED_MARKETS` at every start (`trader.py:132`), so a market
  named there is excluded again (the docstring of `unblock_market` says so);
  `RowsAgree` speaks of the others.
* `pyramid_breakout_ls.py:9` says that it must be used with `LSBacktestEngine`. `/backtest`
  (`handlers.py:383`) and `run_backtest.py` give it to `BacktestEngine`, which ignores
  its short positions; `InStep` excepts them there.
* `engine_ls.py:10` gives a COVER the margin back and defines the equity without
  it (`total_equity`, `:147`), so the equity curve falls by the margin at a
  SHORT and rises by it at a COVER although no such money is lost or won;
  `FillsNeverProfit` speaks of the equity and the margin together (`Worth`).
* `handlers.py:185` and `:807` answer "change failed" and "reload failed" also when
  only the message of success could not be sent, after everything has changed
  (`Answer`). That a failed command changes nothing is not true, and not stated.
* The comment at `trader.py:288` makes every held coin part of the candle
  collection; `HeldWatched` excepts those after a coin without candles.
* `bot/handlers.py:153` answers `/resume` with "trading resumes". `Reset` keeps the
  peak, so the next check of the same equity trips the macro switch again.
* `database.py` calls `transaction` ACID. `TradesAgain` excepts the state `Torn`: a
  crash between an ALTER TABLE and the version mark makes every later start
  fail.
* `turtle.py:100` says the channel reaches up to the bar before; it ends one bar
  earlier (`Channel`).
* `trend_follow.get_indicators` shows columns of a loop that differs from that of
  its `generate_signals`; it is not modelled.

`PartialTakenOnce` excepts a crash: `docs/usage-guide.md:424` promises the
partial profit once also across restarts, but a crash between the order and its
save repeats it. `BuysWereTargets` is the precise form of "at once" in
`docs/architecture.md` for a detection that is switched off: the round under way
keeps the targets it read when it began. `CapKept` speaks of markets being added,
because a reload that lowers the cap, or a top-N list that changes, drops none.

### Bounds

One market is enough for the properties of `Trader`, which speak of each market
on its own; what the markets share (the gate, the queue, the round) is there, and
the theorems hold for any set of markets. In `trader` two orders leave one for a
call that must not follow the halt, and one retry lets the client send an order
of a call under way again. In `trader_faults` one order is enough, because
`/pyramid_set` makes the entry an add or a second buy starts from. One command
lets each command meet every step of both loops; in `trader_live` the market is
excluded by the settings, so a second one follows the `/unblock`. One crash and
one fault put a failure at every step, alone. In `KillSwitch` equities 80
and 100 with a threshold of 15 percent make rise, fall and trip possible, and
quotes 90 and 100 make a loss beyond 3 percent. In `PositionExit` prices 100 and
120 with 10 percent stops give a trailing exit, and four instants with bars of
length two give an entry in the middle of a bar, a bar before it and one after;
the stop-loss below the entry is reached by entering at 120.
`CHECK_DEADLOCK FALSE` in `PositionExit`: its log is finite, so the model stops
when time and budgets are spent. The other runs check for deadlock.
In `SurgeDetection` three markets with one in the top list leave two to
surge, which fills and overflows a cap of 1 or 2; two commands allow an
exclusion and a reload inside one detection; a TTL of 2 lets one market expire
while another is added. In `MarketRounds` there are three markets: one that is
only ever held, one after it whose candles are always refused, and a last one
that is a base market at times and surges at times; the single exception
(`MaxFaults`) may strike at any step.
In `ExchangeClient` two coroutines compete for either bucket; a token costs two
ticks in the one and the bucket holds one and a half, so that a token is partly
there, and one tick in the other, which holds two. One retry shows what each
further one repeats; delays of 0 (after rounding), 1 and 2 ticks let an answer
overtake a refill. In `Startup` the schema is the real one (nine statements and
seven more versions, three of them additive) and starts at any version; three
edits suffice to break a file, load it and put it back; one crash tears
a migration or interrupts a start anywhere, and the starts after it run over what
it left; the seven texts of a file are all kinds the manager tells apart. In `Backtest` closes of
8, 12, 18 and 24 with 40 percent for entry, stop and adds and 30 for the trail
let a single bar enter, add, trail and stop, and jump over two add levels; 18
after 12 is a rise by half; a wild bar moves its close by half in both
directions, which reaches every stop and profit from the close alone. The unit
(7200) is a multiple of every close, so that a pyramid's volume is whole; the
capital (14450) pays two units but for part of the second, so that an add is cut
to the cash and the next finds none. A hundred parts of a coin make a rounding
smaller than any fee. Eight bars (six where
indicators multiply the bars) hold two positions one after the other.
`CHECK_DEADLOCK FALSE` in `Backtest`: a history ends. In `Startup`: a database
that is torn, or files that nobody repairs within `MaxEdits`, stop the process for
good.

### Fairness

`HeldWatched` and `HeldJudged` assume weak fairness of each of the two loops of
`MarketRounds` as a whole: both are a `while` with a sleep, and each request ends
by an answer or a timeout. Nothing is assumed of the monitor loop, the operator,
the answers or the decisions; the premises ask that the coin stay held (and,
for `HeldJudged`, keep its candles and stay unblocked).
`PhantomCleaned` and `WarnedSold` are checked under `FairSpec`. The monitor loop
is a `while` with a sleep, so it wakes again; the strategy loop and the handlers
are fair only when they have left their sleep (`Busy`), because asyncio resumes
a task whose await is over, and every request ends in an answer or an error.
Nothing forces a decision, a fill, a command or a fault. `Restart` is fair: the
container has `restart: unless-stopped`.
In `ExchangeClient` time passes, the event loop resumes what is due (`Acquire`),
and a request is answered or times out (`Answered`; the session has a total
timeout of 10 s). `Acquire` is fair for each coroutine, but which of two takes a
token is left to chance: `BucketServes` promises that someone is served, and
not that everyone is, because the code does not queue.
In `Startup` the container starts again (`Launch`), the start goes on (`Migrate`,
`Initialize`) and the strategy loop takes its rounds (`Decide`). Edits, commands
and crashes are never forced.

## 4. What is proved

TLAPS checks these for every value of the constants, under the `ASSUME` of each
module only (non-empty thresholds, bounds in `Nat`, positive prices).

* `KillSwitchProofs`: `TypeCorrect`; `AckIsDurable`, from the invariant that
  while a command is being saved, every snapshot that contradicts it is ahead
  of it in the queue (`PendingInv`), and once it is acknowledged, memory, every
  snapshot and the database agree with it (`SettledInv`); `ImplementsGate`, each
  step mapped to a step of `KillGate` or a stutter; `PeakIsKept`, from the
  invariant that a lower snapshot is ahead of a higher one, so that whoever
  writes the peak has the lowest of those yet to write it (`PeakInv`);
  `NothingIsLost`, from the invariant that until the database is as the memory,
  some caller under way has the memory as its snapshot, every other save is
  ahead of it, and what it has written stays (`LatestInv`).
* `TraderProofs`: `TypeCorrect`; `HaltStopsCalls`, from the invariant that no
  call has been late while the gate is open or while the strategy loop heads for
  the first order of one (`LateInv`): the loop starts for a buy only through the
  open gate, what the client sends again belongs to the call under way, and its
  end is the end of the way. `RowsDoAgree` speaks of an idle queue; the
  invariant speaks of every state (`BooksInv`). The memory falls into topics: each
  market's row, cooldown and exclusion, and the gate. Of each topic the last
  statement that waits says what memory has, and the table has it when none waits
  (`Settled`). The loops change memory and submit the statement in one step, with
  one exception, which the proof had to name (`Unsaved`): a first entry is in
  memory while the delete of its cooldown waits, and its row follows later; that
  the delete does wait then (`WaitInv`) makes the gap invisible to an idle queue. A
  partial sale saves the dict it had before the order, so what it has in hand is
  followed too (`HandInv`): as long as it is the market's entry, it is what memory
  has, and otherwise the row is `stray`. `TakesHappenOnce` uses the same facts: an
  entry that is not marked has had no take unless its order is out (`TakenInv`).
  `KeepsGate`: the steps of all three processes treat the database in one of a few
  ways (`Turn`), and each of these is a step of the gate or none, because a new
  statement says of the switch what memory has. That a halt is sure when it is
  answered needs that a process has one statement at most, while it awaits it
  (`AwaitInv`), and that memory and queue are halted from the command's statement on
  (`HaltInv`), since only the handlers lift a halt and they await this one.
* `PositionExitProofs`: `TypeCorrect`; `ExitIsEarned` and `StopsAreSaved`, from
  one inductive invariant `IInv`: a candle summarises the log from its start
  (`BarsInv`); every entry, in memory, in the row, in the queue and in the
  sale's hand, has a highest price since its `from`, which is no later than
  its timestamp (`EntriesInv`); what is in hand is no older than the entry
  (`HandInv`); and the last statement of the queue, or the row if there is
  none, has the stops of memory (`LatestInv`), where a save without a timestamp
  follows a statement with the same one (`QueueInv`). `ExitEarned` alone is not
  inductive: it says nothing of a candle that waits, of a row a restart will
  load or of a statement under way.

* `SurgeDetectionProofs`: `TypeCorrect`; `CapIsKept`, from the invariant that the
  markets watched and those still to be added together stay within the cap the
  detection read (`CapInv`); `MarkedWasNew`, from the same for the markets still
  to be added: one that is marked was marked since (`MarksInv`). `TicksInv`
  bounds the refresh counter.
* `MarketRoundsProofs`: `TypeCorrect`; `BuysWereAllowed`, from the invariant that
  the targets of the round under way have all been offered since it began
  (`OfferedInv`).

* `ExchangeClientProofs`: `TypeCorrect`; `BurstsAreBounded`, from the invariant
  that what a bucket would hold after a refill and the level of the traffic
  together are its capacity (`Balance`): a tick adds to the one what it takes
  from the other, a token taken moves its price across. `OutcomesAreTold`, from
  the invariant that while a request is out, everything the exchange carried
  out is hidden behind a server error (`Unhidden`).
* `StartupProofs`: `TypeCorrect`; `SchemaIsComplete`, from the invariant that all
  versions up to the mark are complete and the version in hand has the
  statements before the current one (`DbInv`); `RoundsAreFresh`, from the
  invariant that a class is always that of the text whose time is noted
  (`CacheInv`); `SettingsAreInForce`, from the invariants that a running process
  has finished its migrations and that its settings were readable (`UpInv`,
  `SettingsRead`). `/set_param` and a reload may load two files, that of the strategy in
  use and the one its class is called by; the caches stay sound because each is
  loaded by `Load` (`ReactivateKeeps`).
* `BacktestProofs`: `TypeCorrect`; `AddsEarned`, `StopsKept` and `CopiesAgree`, by a
  lemma for the step of each strategy. A pyramid stays sound (`Sound`) because an
  add is worth its cost at the close it is made at, so it moves the average
  towards the close and the stop line not past it; this uses that every close
  divides the unit, the whole-number form of `unit_amount / price`. `breakout_n`
  looks at no bar before its window is full, and holds nothing till then. The two
  copies of the pyramid's loop agree in all fields but the signal (`Copied`).
  `PortfolioFollows`, because each strategy signals exactly its changes of position
  and its adds (`Signalled`), and each engine does what the signal says unless the
  cash pays no more than the fee, shorts in the long-only engine apart (`Follows`;
  that what is left buys a part of a coin is the assumption on `Grain`), and cash
  does not change while nothing is held.
  `RecordsExplain` and `FillsConservative`, by a lemma for each kind of execution
  (`Executed`): `enter_long` overwrites basis and fee, which is right because
  without a quantity there are none (`Booked`) and because what is left after the
  fee percentage always pays the fee (`Afforded`). Fills lie on the dear side of
  the close because a bar spans it (`Spans`).

Every invariant and every action property of a passing run is proved. Only
model-checked are the liveness properties `PhantomCleaned`, `HeldWatched`,
`HeldJudged`, `BucketServes`, `CallEnds` and `TradesAgain` (liveness under
fairness and `ENABLED` are out of the prover's reach).

## 5. Not modelled, and what is left

* `websocket_stream.py`: `Trader.run` builds the stream and starts it nowhere, so
  its reconnect loop and its queue reach no decision.
* `agents/`: a fixed chain of language-model calls; any decision is possible, and
  orders of that path go through `_execute_decision` like the others.
* The daily report, `/backtest`'s fetching of candles, `scripts/`, the statistics of
  `backtest/report.py`, configuration values, logging, the wording of
  messages, floating-point rounding.
* Of the strategies: the formulas of the indicators, `calc_unit_size`,
  `validate_params` (nothing in `src/src` calls it) and `get_indicators` of all but
  `pyramid_breakout`.
* Of `Trader`: paper mode; the cooldown in time; the stop-loss of a market that
  the kill switch blocked before its order failed.

Left to do: the last two points of `Trader`, with a clock in its decision guard.

# quantbacktester: specifications, model checking, proofs

The program runs trading strategies over historical prices. A C++ engine
(`src/cpp-engine`) replays CSV files through an event loop; a FastAPI service
(`src/api`) accepts backtest requests, runs the engine on threads, stores
states and results in Redis and streams progress over WebSockets to a React
page (`src/frontend`). This directory holds TLA+ modules of the engine and of
the service, the TLC configurations that check them, and proofs for TLAPS.

Check a run with `tlc -config <run>.cfg <module>` and the proofs with
`tlapm BacktestProofs.tla`, and so on for the other modules of section 4.

## 1. The system

| Component | State | Operations | Hard part |
|---|---|---|---|
| Event loop, `Backtest.cpp` | event queue, bar count | outer loop (advance, drain, snapshot, callback), dispatch of five event types | a loop that may not end; the order of advance and drain |
| CSV data handler, `DataHandler.cpp` | rows, cursors, rolling windows | load and sort, `update_bars`, lookups | unsorted, missing and malformed files; symbols that run out at different times; names cut to 15 characters |
| Strategies, `Strategy.cpp` | remembered position per symbol | SMA, RSI, MA+RSI, Bollinger | memory that disagrees with the holdings |
| Portfolio, `Portfolio.cpp` | cash, positions, last prices, curve, fills | mark, size, order, fill, snapshot, metrics | averaging, partial sales, shorts |
| Risk manager, `Portfolio.cpp` | the day's starting equity | `evaluate` | a start that is never reset; limits looked at before fills |
| Simulated execution, `Portfolio.cpp` | none | `execute_order` | nothing calls it |
| Python binding, `bindings.cpp` | Python's interpreter lock | `run_backtest`, the callback | the lock is held for the whole run |
| Run lifecycle, `main.py`, `worker.py` | Redis hash and list, tasks, executor, progress coroutines | POST, GET, list, DELETE, background task, `publish` | commands of many coroutines in any order; failures; deletions and restarts at any step |
| Progress stream, `main.py` | a subscription per socket | subscribe, read, send, forward | a message between subscription and reading |
| Results page, `useBacktestWs.ts` | what is shown | messages, leaving | pages that come late or leave early |
| Data directory, `main.py`, `DataHandler.cpp` | CSV files | upload, list, check a request, load | a file truncated and rewritten while it is read; names that differ in case or blanks |
| Archive, `database.py` | PostgreSQL rows | `persist_result` | nothing calls it |
| Other pages, CLI, deployment | none | forms, arguments, configuration | |

How they interact: `POST /backtests` writes the run's hash, pushes the run on
a list nobody reads, answers, and leaves a background task on the event loop.
The task publishes a status, submits the engine to a pool of four threads and
awaits its answer. The engine shares one deque between data handler, strategy,
portfolio and risk manager; each takes events from the loop and pushes new
ones. Every 100 bars it calls back into Python, which schedules a coroutine
that publishes and stores progress, and which nobody awaits. The WebSocket
handler of a page subscribes to the run's channel, sends what the hash says,
and forwards the channel until a terminal message.

What makes each correct: the replay delivers every bar once, in order, in
lockstep, and shows the strategy nothing later; the queue is drained; the
curve has one point per bar; the books balance; a limit is a limit; the
metrics are what they are called; a run that was accepted is announced once,
after its result is stored, and never as a success after a failure; a
subscription lives as long as its handler; who listens in time hears the end;
a strategy decides as on the whole history, and not before it has it; an engine
loads one file, not a mixture of two.
The hazards are listed line by line in `PROJECT.json`.

## 2. Modules

| Module | Models |
|---|---|
| `Portfolio` | portfolio, risk manager and execution, as operators on a portfolio record |
| `Metrics` | `compute_metrics`: return, drawdown, trade statistics |
| `RollingWindow` | the window of the last bars that the data handler keeps |
| `Strategy` | the indicators, the four strategies and `make_strategy`, as operators on a window |
| `Signals` | one strategy and one symbol over a history longer than the window |
| `Backtest` | constructor and event loop: the state machine of one run |
| `BarReplay` | abstract: what the replay promises |
| `Trading` | harness: portfolio, risk manager and execution around one event queue |
| `Worker` | Redis, the life of runs in the API, engine threads and the interpreter lock |
| `RunLife` | abstract: what the API promises about a run |
| `Stream` | `Worker` with WebSocket handlers and results pages |
| `DataDir` | CSV files, uploads, listings, and engines that load them |
| `MCBacktest`, `MCSignals`, `MCTrading`, `MCDataDir` | constants for TLC |
| `BacktestProofs`, `ReplayProofs` | theorems about `Backtest` |
| `WorkerProofs` | theorems about `Stream` and `Worker`, among them that they implement `RunLife` |
| `StreamProofs` | more of them: types and subscriptions, the listing, what holds while Redis works |
| `DataDirProofs` | theorems about `DataDir` |
| `ArithmeticProofs` | lemmas about sums, maxima and exact fractions |
| `SignalsProofs`, `TradingProofs` | theorems about `Signals` and `Trading` |

**Backtest.** `pc` says which part of `run()` is executing. One step is one
iteration of the `for` of `update_bars` (`AdvanceSymbol`,
`SkipExhaustedSymbol`), the start of the inner loop (`StartDraining`), one
event taken and handled (`ProcessMarket`, `ProcessSignal`, `ProcessOrder`,
`ProcessFillOrRisk`), the tail of an outer iteration (`EndBar`) or the end of
the run (`Finish`). `Construct` loads all files, `ConstructThrows` is an
exception that no `try` of the engine covers. The strategy is the constant
operator `Decide`, so the proofs hold for any strategy whose answers are
decisions; `EngineLoad` runs a small SMA strategy, `EnginePair` a small
RSI, and module `Signals` has all four. `CopySymbol` is the cut to 15 characters. A line of a
file is a row, or has a date that cannot be read, too few fields, or a field
that is not a number; `TimeOf` gives an unreadable date the time that
`parse_timestamp` gives it, which lies before all others. A sort may return equal timestamps in any order. `BarReplay` is
implemented under the mapping `Replay`: a bar counts as delivered once its
MARKET event has left the queue.

**Signals.** `DeliverBar` is what `update_bars` and `calculate_signals` do with
one bar of one symbol: the window slides, and `CalculateSignals` answers from
the window alone. The configurations are the edges of the ranges that the API's
catalogue gives, scaled to a window of 4: a period of exactly the window, one
beyond it, thresholds next to and at the RSI of 50 that stands for "not enough
history".

**Trading.** The engine never executes an order (section 5), so its runs never
reach `on_fill`. This harness is the loop that `Backtest.h:15-25` describes,
which hands an order that `evaluate` has approved to `execute_order`; an order
with the type `APPROVED` is one that `evaluate` has pushed again. There is one
queue, taken from its front. `Bar` marks all symbols and leaves the signals of
the bar in the queue, at most one per symbol, in any order; then all signals are
handled, then all orders evaluated, then all executed, then all booked
(`ProcessSignal`, `ProcessOrder`, `Execute`, `BookFill`), because each handler
pushes behind what waits. So every order of a bar is evaluated against the same
positions. Once the queue is empty, `Record` takes the snapshot. Buys and sells
of both sides, shorts and reversals occur.

**Worker.** `hash`, `expires`, `backtest_queue`, `channel` are Redis; `task[r]`
is the await at which the handler and then the task of run `r` stands;
`unpublished` and `unrecorded` count the run's progress coroutines;
`work_queue` and `engine` are the executor; `fate` is how the data make the
engine end. `Await` is the one shape of a step of a coroutine: the effect of
the command it awaits, or, when `RedisMayFail`, an exception before or after
that effect. `LockFree(p)` holds while no engine of process `p` computes:
`run_backtest` takes the lock from Python and never releases it, so Python code
of the process, other engines' callbacks included, runs only while an engine is
in its own callback or none runs. The effect of a command is tied to the moment
its coroutine runs, which leaves out commands that take effect while the
process that sent them is stopped by the lock.

**Stream** adds, per client, the handler `ws`, what it read (`current`) and
what the page shows (`page`). Each step of `Worker` is a step of `Stream` that
leaves these alone, and `RestartAll` takes the connections of a dead process
along.

A Redis error in a handler's subscription, reading or listening ends the
handler (`HandlerFails`).

**RunLife** is what remains of `Worker` for whoever uses the API: a run works,
settles with or without a result, is announced, and may be erased. `Worker`
implements it under `Life`: a run is `working` from its acceptance to the
storing of its result, and whatever fails settles it; a key that late writes
bring back after a deletion or at the end of its time to live is no result.

**DataDir.** A file is a sequence of chunks, each tagged with its upload. The
handler has no `await` between opening and answering, so it keeps its process's
event loop; but Python gives up the interpreter lock inside `open` and `write`,
and an engine that takes it then reads with the lock held, while the call under
way goes on. So `Open` and `WriteChunk` may fall between the steps of a loading
engine of the same process, and `StartWriting`, `EndUpload` may not. Two
processes share nothing but the files.

Abstractions: money and quantities are integers in a unit in which every amount
of a configuration is whole, and averages, profits and ratios are exact
fractions, where the code has doubles; timestamps are numbers; the strength of a Bollinger signal, an irrational number,
is rounded down to tenths; percentages and message texts are left out; a time
to live may run out as soon as it is set. `Backtest.cpp:87` applies `&&` to a call
that returns nothing, which no compiler accepts: the model takes what is
evidently meant, the call made when there is a callback.

## 3. Runs

| Run | Question | Bounds |
|---|---|---|
| `EngineLoad` | Does the engine survive any file, is the curve the replay's, does it ever trade? | one symbol, any file of at most 3 lines over 3 times, 2 prices, unreadable dates, short and bad lines, or no file; window 2 |
| `EnginePair` | No look-ahead, bounded queue, ordered curve, `BarReplay` implemented, a cut name silent, one snapshot per bar when the first symbol has run out, and does a run return when every order is vetoed? | three symbols, two with any subset of 3 times, one of 0, 1 or 3 bars; loss limit below 0 |
| `Signals` | Is a strategy silent until it is ready, does it alternate, does the window suffice, is the order capped? | eleven configurations, window 4, 7 bars, 3 prices |
| `TradingAccounts` | Do the books balance, do the position limit, sizes and metrics hold? | three symbols, prices 2 and 4, 3 fills, 3 bars, flat commission, at most two positions |
| `WorkerSettles` | Is every accepted run announced, once, its result given a time to live, and the listing answered? | two runs, one thread, one callback each; Redis works; deletions, expiries and restarts |
| `StreamFaults` | What holds, and is `RunLife` implemented, when anything fails at any step? | one run, one client, two processes; every command may raise, with or without effect |
| `StreamLive` | Does a client that comes in time see the end? | one run, one client, two processes, two callbacks |
| `DataUploads` | Can an engine load a torn file, is an answered upload stored, can it be run? | two processes, two uploads of at most 2 chunks, one engine, three names: capital, small, with a blank |
| `ClaimRunCompletes`, `ClaimRoundTrips`, `ClaimPolledComplete`, `ClaimRequestsAnswered` | four statements of the repository that the code does not keep (section 5) | small |

Why the bounds are enough. Three bars fill a window of two and slide it; three
times let two files overlap, interleave, end early or share nothing; the
progress callback comes every second bar and its estimate wraps at four, so
both are reached. A size of 0, 1 and 2 occurs. Three fills are the shortest
averaged purchase with a sale, or reversal of a position. A purchase is refused
at the limit even when its symbol is the one that is held, so an average needs a
limit of two: two units at 2 and one at 4 average 8/3, and are then sold in
part, or whole. Passing the limit needs a third symbol: one is held, two are
bought in the next bar, and three are held; two bought in the first bar are at
the limit, where the second bar buys nothing. With three bars a portfolio that
was untouched in the first makes one round trip, with a profit or a loss; curves
of more points, and winners and losers together, are left to
`DrawdownIsDeepest` and `StatsAlwaysExplain`. Two runs on one thread queue, and hold
the lock against each other; progress coroutines are interchangeable, so one or
two of them can be late at every place a hundred could. A loss limit below zero
can only be set from C++: the API does not pass one. Seven bars push three out
of a window of four, so each strategy decides with all it needs, with one bar
less, and with more history than the window has. Two uploads of two chunks can
cut each other off before, between and after their chunks, and be longer or
shorter than one another.

Fairness. `FairSpec` of `Backtest` is weak fairness of the engine's one thread.
`Fairness` of `Worker` says that a request once begun, a task, progress
coroutines and engine threads go on when they can, which the event loop, the
operating system and a working Redis give; requests, deletions, restarts and
leaving pages are never obliged to come. `StreamFairSpec` adds the handlers of
sockets. `StreamLive` assumes a Redis that works and engines that return.
`EveryRunAnnounced` allows for runs whose process dies: nothing takes those up.

Deadlock is not checked for `Worker`, `Stream`, `DataDir`, `Signals` and
`Trading`: a server with no requests left, and a harness at its bounds, stop. `Backtest` has a step for
having returned, and there deadlock is checked.

## 4. Proofs

For every list of symbols, contents of the directory, window, strategy and
configuration of the engine, every history of prices and fills, and every number
of runs, processes, uploads and clients of the service, that the assumptions
admit:

| Theorem | States |
|---|---|
| `TypeCorrect` | `Spec => []TypeOK`; among it: no FILL is ever queued, no window outgrows its size |
| `QueueStaysBounded` | `Spec => []QueueBounded` |
| `NoRunTrades` | `Spec => []NeverTrades` |
| `OrdersStay` | an order stays queued, if the loss limit is at least 0 and a position is allowed |
| `LongNamesStaySilent` | `Spec => []LongNamesNeverSignal`, if the strategy is silent without a window |
| `StrategySeesNoFuture` | `Spec => []NoLookAhead`, if no symbol is listed twice and none is cut to another's name |
| `CurveNeverGoesBack` | `Spec => []EquityTimestampsOrdered` |
| `OneSnapshotPerBar` | `Spec => []EquityCurveFollowsReplay`, if no symbol is listed twice |
| `EveryBarReplayed` | `Spec => ReplaysEveryBar`, that is, `BarReplay` is implemented, if no symbol is listed twice and no two have one name in events |
| `ResultsPrecedeAnnouncements` | `StreamSpec => []ResultBeforeAnnouncement` |
| `FailureIsFinal` | `StreamSpec => []NoSuccessAfterFailure` |
| `FailuresHaveNoResult` | `StreamSpec => []FailuresLeaveNoResult` |
| `PromisesKept` | `StreamSpec => KeepsPromises`, that is, `RunLife` is implemented |
| `TypesAndSubscriptions` | `StreamSpec => []StreamTypeOK`; among it: a handler is subscribed exactly as long as it lives |
| `ListingFindsDates` | `Spec => []ListingAnswers`, and `StreamSpec` too |
| `OneAnnouncement` | `Spec => []AnnouncedOnce`, and `StreamSpec` too, while Redis works |
| `StoredResultsExpire` | `Spec => []ResultExpires`, and `StreamSpec` too, while Redis works |
| `EnginesLoadOneUpload` | `Spec => []LoadsOneUpload` |
| `AnsweredUploadsStored` | `Spec => []AnsweredIsStored` |
| `AcceptedRunsFindFile` | `Spec => []AcceptedFindsFile` |
| `UploadsAreRunnable` | `Spec => []UploadedIsRunnable`, where capitals of capitals are the same |
| `WindowIsEnough` | `Spec => WindowSuffices`, for parameters of the catalogue |
| `NoSignalBeforeReady` | `Spec => []SilentUntilReady`, for the same |
| `NoSignalTwice` | `Spec => []SignalsAlternate`, for the same |
| `NoOrderAboveCap` | `Spec => []OrdersCapped`, for the same |
| `OrdersAreSized` | `Spec => []OrdersSized`, for strengths between 0 and 1 |
| `PurchasesFindRoom` | `Spec => []PurchasesFoundRoom`, for the same |
| `DrawdownIsDeepest` | `DrawdownIsWorstFall` in every state whose curve stays above 0, for the same |
| `BooksAlwaysBalance` | `Spec => []BooksBalance`, for the same |
| `StatsAlwaysExplain` | `Spec => []StatsExplainReturn`, for the same |
| `FiguresWithoutDebt` | `FiguresAreNumbers` in every state whose curve begins above 0 and whose last cash is not negative, for the same |

**The engine.** The first four rest on `IInv`. `TypeOK` alone is not inductive:
that no FILL is
queued depends on `evaluate` only passing orders on, that orders are never
refused depends on equity being the capital, which depends on nothing having
been bought. So `IInv` adds that the portfolio is untraded, that the day's start
is unset or the capital, and how long the queue is at each place: at most `k - 1`
while the first `k - 1` symbols have advanced, and at most one event per symbol
while draining, since each event handled leaves at most one behind. One lemma
per action shows that `IInv` is kept; `HeadReplaced`, which the four dispatch
actions share, says that the rest of the queue only moves up, and gives
`OrdersStay`. `LongNamesStaySilent` assumes of the strategy only what
`QuietOnNothing` in `SignalsProofs` shows of the four in the repository.

`StrategySeesNoFuture` needs `DataInv`: each window ends with the row its
cursor has just passed and holds only rows already passed, and each MARKET event
in the queue is still the latest row of its symbol. The second half is what
fails for a symbol listed twice, and the theorem's assumption is used exactly
there. The first half, `WindowInv`, holds for any list, and with it the order of
the curve: no snapshot is later than the first symbol's latest row. How *many*
snapshots there are needs `LockInv`: every cursor stands at the number of the
bar counted or at the end of its file, and one bar further for the symbols that
this round has advanced; a symbol listed twice is advanced twice a round, and
that is again what the assumption excludes. For `BarReplay` `RoundInv` adds
that a queued bar was taken in this round and that no symbol has two in the
queue, so that the queued bars are exactly the difference between what was read
and what counts as delivered.

**The service.** These theorems hold with any Redis command failing, before or
after its effect, and any process dying, unless the table says otherwise. That
the result precedes the announcement is not
inductive: it depends on the place at
which the task stands. `LifeInv` says, for each run, what may have been announced
at each place (nothing up to `announcing`, at most the success up to
`reporting`), that from `expiring` on the result is stored or the record has
been removed, and that an engine that failed never lets its task reach
`storing`. A step moves one run at most (`Moves`), so `MovesKeep` leaves that run
only, and three lemmas give the effect of an awaited HSET or PUBLISH, carried
out or not. `Advances` lists what such a step may be to a user of the API;
`AdvanceIsLife` turns each case into an action of `RunLife`, which proves the
refinement from the same case split as the invariant.

Even the types are not inductive by themselves: that an executor's queue
holds only runs whose task waits needs `QueuedOnce` (a run queued twice would be
in the queue still when its engine starts) and `NotBegun` (an engine at work
before its task waits would be queued with it). `DatesKept` is what the listing
rests on: a run has its time of creation, or it has nothing at all, no key and
nothing under way that could write one. `SettleInv` is about a Redis that works
(`RedisMayFail = FALSE`): then only a run whose engine failed takes the failure
path, with nothing announced, and a stored result has its time to live before
the run is announced, whatever deletions and late writes come in between.
Without that assumption both theorems are false: a command that takes effect
and raises sends the task on to announce an error after its success, or ends it
before `expire`.

**The data directory.** These theorems rest on `DirInv`. That an engine's chunks
come from one upload is not inductive: an upload may truncate the file after an
engine has read some of it. `FileInv` adds that a file served by one process
holds exactly what its last opener has written, and `Reads` that a loading
engine has read chunks of that opener, or else the opener has only truncated
the file and needs the lock, which the engine holds, to go on; the engine then
finds the end of the file and has loaded a part of the upload before. The lock
is used in `StartWritingKeeps` and nowhere else.

**Strategies.** `WindowIsEnd`, the window is the end of the history, is
inductive, and `WindowIsEnough` is then a lemma per indicator: what it computes
depends on the end of its argument only. `SignalsInv` adds that the remembered
position is what the last signal announced; `DecisionsSound` shows, for each
strategy in turn, that a signal changes it and has a strength between 0 and 1,
from which `NoSignalTwice` and `NoOrderAboveCap` follow. `ReadyInv` says that a
strategy that has signalled, or holds, has the history it looks back on. All are
about the parameters the catalogue allows (`Catalogued`, which includes them and
more: periods of at least 1, limits of an RSI on their own sides of 50, `k` at
least 0). Outside them the code signals without a history, as an RSI limit above
50 shows, or divides by a period of 0.

**Accounts.** A bar marks every symbol; `BarKeepsBooks` shows that, in whatever
order, this moves prices and unrealized gains and nothing else. `TradingInv` adds
to the types, for `OrdersSized`, that equity is a whole number and that the queue
is in order (`QueueInv`): signals, then orders, then what `evaluate` has left of
them, then fills, so that nothing is booked while an order waits, and what an
order was sized by has not moved (`AllSized`). `HandlerKeeps` says that once for
all handlers: the head goes, and at most one event of the next stage is pushed.
`PurchasesFoundRoom` looks back over the fills, and needs two things of the
present (`LimitInv`): fills of the bar are booked only after nothing is left to
evaluate (`FillsInTime`), so `evaluate` counts what the bar began with; and while
a purchase waits that was approved or executed, the bar began with room
(`BeganWithRoom`). What `evaluate` counts are positions and what the property
counts are nets of fills; `QuantityIsNet`, below, makes them the same.
`ProperStrengths` assumes of the signals what
`DecisionsSound` proves of the strategies. The drawdown is computed in one pass:
`SeenTo` says what the pass knows after `k` points, the highest and the deepest
fall, and `SeenNext` that no earlier point falls deeper to a new one than the
highest. It needs every point above 0, since a fall is a part of what there was.

**Books.** `BooksBalance` is not inductive by itself. It speaks of a portfolio
that was never short, and a fill tells a purchase that adds to a position from
one that covers a short by the quantity held, not by the history. So
`BooksKept` adds `QuantityIsNet`: what is held of a symbol is the net of its
fills, whoever was short. With it a fill of a history that was never short
either adds to what is held, at the new average, or takes a part of it away, at
the old one. `FillBooks` shows what each does to the cost, the profit and the
commission of its symbol, and `LedgerFill` that, with the cash, these changes
cancel. The amounts are fractions and the sums go over symbols in no known
order, so a `Ledger` is an equation of whole numbers, everything counted in
parts of size `1/D`, of which every average and profit is a whole number;
`LedgerBalances` turns it into the equation of `BooksBalance` and back. The
conditions of `StatsExplainReturn` make its return the difference of cash and
capital; winners and losers are the positions with a profit that is not 0
(`TotalSplits`), and the mean times the number is the sum again.

**Figures.** `FiguresAreNumbers` needs that the first equity is positive, so
that there is a return, and the last not negative. `CurveAboveCash` is
inductive: without a short, equity is at least the cash, at every snapshot.
Whether the cash stays at 0 or above is not a matter of the code alone: each
order is sized at a twentieth of the equity by the last price, but paid at the
next open with slippage and a flat commission, and orders are only limited by
the number of positions, not by the cash. An open more than twenty times the
last price, or more than twenty purchases of a symbol below the limit, take it
below 0. So
the theorem states that condition (`NotInDebt`), and the run shows the
invariant without it, for prices that at most double and three fills.

**Sums and folds.** The folds of the community modules are recursive functions
on the subsets of a set. Nothing is known of such a function until some function
is shown to satisfy its equation, and the library's induction theorems cannot be
used here. So `SumExists`, `MarksExist` and `DrawsExist` build a solution for the
sets of at most `n` elements, `n` by `n`, and each of these proofs, like those of
what the solution is, supposes a least counterexample (`LeastNatural`). `Total`
is the sum of whole numbers over a finite set. The element taken first does not
matter (`TotalTakes`), so one changed summand changes the sum by as much
(`TotalMoves`); and with `FiniteInduction`, which states that argument once for
what holds of all finite sets, a sum splits into parts and changes its sign with its
summands (`TotalSplits`, `TotalNegates`).

Of `Rat` the earlier proofs use that it divides both its arguments by one
positive number (`RatReduces`), so that signs and orders stay. Equal fractions
need more: the divisor is the greatest (`RatGreatest`), so what is left is in
lowest terms, and there is one such form (`LowestTerms`). `Worth(x, D, v)` says
that `x` is `v` parts of size `1/D`; two reduced fractions with the same worth are the
same (`SameWorth`), and finitely many have a `D` in common
(`CommonDenominator`), so that a sum of fractions is worth the `Total` of their
parts (`WorthSigma`). `Returns` is written as a function on the points that count, not with
`SelectSeq`, which is recursive inside and which the provers cannot open.

**Assumptions** on the constants are named in the modules that declare them and
evaluated in every run: `PortfolioAssumption`, `WindowAssumption`,
`BacktestAssumption`, `CopyAssumption` (a copied name is short enough to be copied unchanged),
`DecideAssumption` (a strategy answers with a decision), `TradingAssumption`
(prices are natural numbers, there are finitely many symbols),
`SignalsAssumption`, `WorkerAssumption`, `DataDirAssumption`, `UpperAssumption`
(capitals of capitals are the same). Those that only some theorems need are
hypotheses of these theorems: `Distinct(Symbols)`, `NoAlias` and `NamesDiffer` of
the list of symbols, `SilentOnNothing` of the strategy, `Catalogued` of the
configurations, `ProperStrengths` of the signals, `RedisMayFail = FALSE`. Section 5 says what
happens to a symbol listed twice and to parameters outside the catalogue.

**Only model-checked.** All liveness, which the prover does not handle:
`ReturnsUnlessOrdering`, `EveryRunReturns`, `EveryRunAnnounced`,
`EarlyClientsSeeTheEnd`, `EarlyHandlersClose`. And what two theorems leave out:
`FiguresAreNumbers` for a portfolio in debt, and `DrawdownIsWorstFall` for a
curve that falls to 0 or below.

## 5. Where the code and its documents disagree

Each of the first four is a run that ends in a counterexample.

1. `ClaimRunCompletes`. `evaluate` pushes an approved order back on the queue it
   came from and nothing calls `execute_order`, so the inner loop spins for
   ever. The integration tests expect such a run to succeed.
2. `ClaimRoundTrips`. Buying back a short realizes nothing, since only a SELL
   realizes; the tests say that profit is realized on round trips.
3. `ClaimPolledComplete`. `publish` stores RUNNING for every message with a
   percentage, and the complete message has one: COMPLETE is overwritten at
   once, and a client that polls never sees it.
4. `ClaimRequestsAnswered`. The engine holds the interpreter lock, although
   `worker.py` says the lock is released: an engine that does not return stops
   its process.

Met on the way and not checked by a run: when the first symbol runs out first,
its last timestamp is recorded once more for every further bar, while a test
expects timestamps to increase; the progress estimate starts again at 0 after
10000 bars, while a test expects it not to decrease; a symbol listed twice has
its second bar in the window before the first is handled; a deleted key comes
back as long as its task writes; a page that reads COMPLETE from the hash gets
no result with it; a page that connects after the end may read RUNNING and wait
for ever; the exposure limits that `Portfolio.h` lists, and the weight of 10 %
per position, are not implemented.

The task of a deleted run writes its hash again, without `created_at`, and with
another run in Redis `GET /backtests` then fails on sorting `None`
(`ListingAnswers` says that nothing but a removal brings this about). The FLAT
between thresholds that `Strategy.h` promises for the RSI strategy is never
emitted. The SMA strategy's first signal needs no crossing, and equal averages
count as a crossing down, with strength 0. The ranges of the catalogue are not
enforced: a period of 0 divides by 0. The command line passes `period` 14 for
the RSI to whatever strategy is asked for, and Bollinger bands take it for
theirs. A size of 0 drops a FLAT signal too, so a position in a symbol that has
become too dear cannot be closed, and a market that did not move has RSI 100. A
purchase is paid at the next open without a look at the cash.

`Portfolio.h` lists a maximum of open positions among the rules of the risk
manager. The orders of a bar are evaluated one after the other, before any of
them could be filled, against the same positions, so two purchases of one bar
pass a limit of one. What the code keeps is `PurchasesFoundRoom`: nothing is
bought in a bar that began at the limit. Sales are not counted by the limit, and a purchase that covers a short is refused at it like
any other. The start of the day's loss is set by the first order and never
reset, so the daily limit is one on the whole run. A strategy takes its signal
for a position even when the order is vetoed or dropped, and does not send it
again. Once shorts have lost more than there was, the annualized return is the
power of a negative number, NaN, which the page cannot parse.

Files whose names have small letters or blanks at an end are listed and cannot
be requested. Uploads of one symbol that reach two processes at once may mix,
and an engine may load the mixture or a file cut short. An upload that is not
UTF-8 is answered with 500 after it has replaced the file. An unreadable date
becomes a time in 1899 and its row comes first. A name of 16 characters or more
is cut in its events: its strategy never sees a window, its position is kept
under the cut name, and if that is the name of another symbol the two share
one. `EXPIRE` is a command of its own after the result is stored: if it fails,
the result stays without a time to live. `subscribe` lies outside the handler's
`try`, and an `unsubscribe` that raises skips `close`: the model takes it that
the subscription then goes with the handler's connection to Redis.

## 6. Not modelled

The figures of `compute_metrics` that need roots and powers, but for whether they
are NaN (that a power may exceed the range of a double, and be an infinity that
JSON cannot hold either, is not considered); `ema`, which has no caller; limit orders, which nothing makes; the
conversion of a Python configuration to C++; the archive in
PostgreSQL, which nothing writes; the dashboard, runner and upload pages; the
command line driver; deployment, of which only two facts are used: the API runs
as several processes, and they share one Redis.

## 7. Plan

The engine came first, since every result depends on its replay and its loop;
then the service around it; then the accounts; then the proofs, which now state
every safety property of the passing runs, two of them under a condition on the
state. What could come next: a bound on the constants (how far prices jump,
how many fills are booked) under which no portfolio is ever in debt, which would
free `FiguresWithoutDebt` of its condition; and a limit that counts the orders under
way, and sales, once the code has one.

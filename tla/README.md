# TLA+ models of the trade pipeline

The repository runs four Python services around one Postgres and one Redis: `stream` takes trades off a
Finnhub WebSocket, `rollup` turns them into one-minute candles, `api` serves candles and keeps users and
price alerts, `dashboard` shows it all. This directory holds TLA+ modules translated from that code, the TLC
configurations that model-check them, and proofs that TLAPS checks for every value of the constants.
`PROJECT.json` maps each definition to the lines it stands for.

    tlc -workers 2 -config stream_faults.cfg MCStream.tla
    tlapm StreamProofs.tla

## 1. Inventory

| Component | State it keeps | Operations | Talks to |
|---|---|---|---|
| stream, socket thread (`stream/socket_client.py`, `SocketEvents` in `stream/main.py`) | the queue, `trades_seen`, `error`, `closed`, `last_*_at` | `_on_message`, `_on_error`, `_on_close`, `record` | the main thread, by shared memory without locks beyond the queue's |
| stream, main thread (`stream/main.py`, `buffer.py`, `db.py`, `live_prices.py`, `writer.py`) | the drained batch, `needs_reseed`, `reported`, the session row, `raw_trades`, the Redis hashes | `run_once`, `flush_loop`, `load_live_prices`, `save_live_prices`, `merge` | Postgres (insert, heartbeat, seed), Redis (read, MULTI/EXEC write) |
| stream, alerts (`alerts.py`, `check_alerts`) | `price_alerts.triggered_*` | match a batch against the pending alerts | Postgres, the api's table |
| stream, reconnect (`backoff.py`, `market_status.py`) | attempts, last market status | delay, reset, fetch | main loop, heartbeat |
| rollup (`rollup/`) | `candles`, `rollup_runs` | one run: start, read the window, build, upsert, finish | Postgres; reads what stream writes |
| api (`api/`) | `users`, `price_alerts`, stateless tokens | register, login, create, list and delete alerts, candles | Postgres |
| dashboard (`dashboard/`) | the browser session's token and role, a 30 s cache of candles | board, charts, alerts page, pipeline status | Redis, Postgres, api |
| configuration, schemas, containers | environment, `restart: unless-stopped`, Redis without persistence | start-up validation | all |

What is hard here, component by component, and what would make it correct:

* **Flush against socket.** Two threads share a queue and counters without a lock over both; a message's
  trades are queued before they are counted, and the socket may close between any two steps of a flush.
  Correct means: a trade leaves the system only by a failed insert, a session's end or a crash; the counters
  and the verdict of a session row never lie about it.
* **Two stores, no common transaction.** Postgres commits first, Redis is written after; each call may fail,
  be applied with its answer lost, or be cut off by a crash, and Redis may restart empty. Correct means:
  Redis never covers a trade Postgres lacks, no trade is counted twice, and a hash that is trusted is complete.
* **Midnight and order.** Statistics belong to a day; a batch may span midnight or several symbols; trades may
  be late.
* **Trailing window.** The rollup rewrites a window of minutes while trades arrive late and runs are delayed or
  missed, with a `LIMIT` that may cut a read. Correct means: complete minutes are exact, no stored trade is
  skipped, and a finished candle stays finished.
* **Stateless tokens.** A token carries a role and an address for up to a day while the account behind it is
  demoted, deleted or registered anew; a login reads the row first and dates the token later. Correct means: old
  powers end with the tokens, one address is one account, starting the api never changes an account, and nobody
  registers the seed admin's address before the seed.
* **One alert table, two writers.** The api creates and deletes rows between the stream's read and its update,
  and a dead stream's commit may still arrive. Correct means: an alert fires once, at the first crossing it was
  offered, and a deleted one stays deleted.
* **Health from timestamps.** The dashboard judges a process it cannot see by the times in its newest row, which
  a crash, a failed write or a failed finish leaves as it was. Correct means: no old row reads healthy, and no
  quiet market reads dead.
* **One board, two stores.** Once a second the board is drawn from Redis or, if a hash is missing or Redis is away,
  from Postgres, between any two steps of a flush and across midnight. Correct means: it does not show which of
  the two answered, and a price on it goes back only while the stream has a write to catch up on.
* **A verdict of no single moment.** The pipeline page reads run and candles in separate transactions and judges
  them by the clock. Correct means: a dead rollup shows, and one that is on time is not called behind.

Each of these is a row of `hazards` in `PROJECT.json`, at its line, with the properties that would catch it.

## 2. Plan

Written: `Stream` with `LedgerCache` and `StreamProofs`; over it `LiveBoard`, the dashboard's board, with `BoardProofs`; `Rollup` with
`RollupProofs`; over it `PipelinePage` with `PipelineProofs`; `Accounts` with `AccountProofs` and, composed over
them, `PriceAlerts` with `AlertProofs`; `StreamHealth` with `HealthProofs`; `SumProofs`, the facts about sums that the
stream's and the rollup's proofs share. Every invariant and action property that a run checks is a theorem.
Next: `reconnects` in the session rows, a commit of a dead stream that lands after its successor has read its seed, and
a Redis write that is applied after the next flush has.

A module for the arithmetic of `merge` and `build_candles` is not planned any more: they are minima, maxima,
sums and first and last elements taken in one pass, which unit tests reach; what is hard about them is which
trades they are taken over and in which order, and that is in `Stream` and `Rollup`.

## 3. Stream

`Stream.tla` is one process with two threads. The main thread's position is `pc`
(`connect → drain → load → write → save → closed → …`), and one action is one step between two points where
the other thread, Redis or the container runtime can get in between.

| Code | Model |
|---|---|
| `run_once` up to the loop, `start_session` | `StartSession` |
| `drain` | `Drain` (`Take`, `LeaveRest`) |
| `load_live_prices`, `read_day_stats` | `Load`, `LoadFails` (`Read`, `Stale`, `Seed`) |
| the transaction of insert and heartbeat | `Write`, `WriteFails`, `WriteAmbiguous` |
| `save_live_prices`, `merge`, `write_live_prices` | `Save`, `SaveFails`, `SaveTimesOut` (`Merge`, `WriteHashes`) |
| `if events.closed.is_set(): break` | `CheckClosed` |
| `finally: finish_session`, then main's loop | `Finish`, `FinishFails` |
| `_on_message`: `queue.put`, then `record` | `PutTrade`, `RecordTrades` |
| `_on_error`, `_on_close` | `SocketError`, `SocketClose` |
| container death and restart, Redis restart | `Crash`, `RedisRestart` |

Abstractions. A trade is one delivery with a symbol, a timestamp and a day. A hash is the set of trades its
high and low were taken over (`seen`), the stored `trades_today` (`count`, added up as the code does, never
recomputed), the day, and the times of the trades that gave open and price. Thus a double count shows as
`count` differing from the size of `seen`, and a hash that is behind as a smaller `seen`. The session row keeps
status, `trades_received` and `rows_written`. Left out: sleeping, logging, the market status and the heartbeat's
times (section 6), `check_alerts` (section 5; it touches nothing of this module), `_on_open`.

Failures. `loadFails`, `insertFails`, `saveFails`: the call raises and nothing was done.
`ambiguousCommit`: Postgres committed, the client saw an exception. `saveTimesOut`: Redis applied the write,
the client timed out. `finishFails`, `crash`: the process exits and its container is restarted.
`redisRestart`: every hash is gone, as `--save '' --appendonly no` says. A Redis write applied only after the
next flush has read its seed is not modelled; nor is a COMMIT that a dying process has sent and Postgres applies after
the next one has read its seed, nor a call that never returns. The read of `trades_seen` and the commit are one
step: what is recorded between them waits for the next heartbeat, as if recorded after it.

`LedgerCache.tla` is what the two stores together promise, without threads or batches: an append-only ledger,
and per symbol an entry of ledger trades that each publication grows or rebuilds for a whole day, or that the
cache loses. `ImplementsLedger` is `Stream ⇒ LedgerCache` under `ledger ← rawTrades`, `cache ← hash.seen`.

### Runs

| Run | Instance | Shows |
|---|---|---|
| `stream_faults` | 4 trades, 2 symbols, midnight after the first, batches of 2, 2 sessions, all failures; about 3.4 million states | `TypeOK`, `CacheNeverAhead`, `NoDoubleCount`, `RowsWrittenMatch`, `LossIsAccounted`, `VerdictIsFinal`, `ReseedRebuildsBatch`, `ImplementsLedger` |
| `stream_one_symbol` | 4 trades, 1 symbol, midnight before the last, no failed or ambiguous inserts, with the board; about 2.4 million states | `TrustedHashIsComplete`, `StatsFollowSeen`, `BacklogIsWaiting`; of the board `BoardTypeOK`, `SameBoard`, `PriceGoesBackOnlyBehind` |
| `stream_liveness` | 3 trades, batches of 1, failing loads, inserts and saves, fairness, with the board | `QueuedTradeSettles`, `ClosedSessionIsReplaced`, `StoredPriceIsShown` |
| `stream_reseed` | 3 trades, 2 symbols, failing saves | **violates** `TrustedHashIsComplete` |
| `stream_close` | 3 trades, no failures | **violates** `NoTradeLost` |

Four trades give two full batches and a queue longer than a batch; two symbols are the least that make one
symbol's batch clear the other's flag; two sessions are the least in which a crash or a close leaves state for
a successor. `MaxSessions` bounds sessions, and the last one neither closes nor crashes, so that no behaviour
stops; `MaxReceived` bounds ambiguous commits only, because each of them leaves `reported` behind and would
count the same trades again for ever. `InOrder` says whether the feed delivers a symbol's trades in time order;
`StatsFollowSeen` needs it (late trades leave an older price, `live_prices.py:31-44`), the others do not.

`stream_one_symbol` and `stream_liveness` run `Stream` inside `LiveBoard`, described below, whose steps leave it alone;
the other three run it by itself.

Fairness (`BoardFairness`, used by `stream_liveness` alone): weak fairness of the main thread's steps, which one OS
thread takes in program order with calls that return or raise, and of `RecordTrades`, the rest of a callback
already running, and of a refresh of an open board (`Refresh`). `Refresh` leaves out the misses of a Redis that has
every hash: were they in it, the fairness of the page would force Redis to fail and Postgres to be asked, which
nothing in the code does. Nothing is assumed of the feed, of Redis or of the container runtime, and the liveness
properties are checked with calls that may fail for ever. Postgres calls have no client timeout in the code;
that they return is an assumption.

### A rebuild and midnight

`ReseedRebuildsBatch` says what a flush under `needs_reseed` writes for a symbol of its batch: the rows of the
batch's last day, the batch's own trades, and nothing else. That is the symbol's whole day in all cases but one, and the
property does not hide it: `load_live_prices` takes one day for the whole batch (`main.py:80`), so that when all trades of a symbol
are of the day before, its hash counts as stale, the seed of the new day is empty, and `merge` starts the old day
over with the batch alone, under its date. The flag is cleared and the hash trusted. No failure is needed: the instance
of `stream_reseed` with `MidnightLate`, two sessions and no faults violates `TrustedHashIsComplete`. What a
reader sees of it is little, since of a hash of another day the board shows just the price, and the symbol's first trade of the
new day seeds it again; but it is short and trusted all the same. The comment at
`main.py:124-125` ("every loop starts by rebuilding from Postgres") and `README.md:267` promise more. `SameBoard` and
`TrustedHashIsComplete` are checked with one symbol, where the batch's last day is the symbol's.

### Two disagreements

`stream_reseed`: `needs_reseed` is one flag for all symbols (`main.py:126,159`). A failed Redis write for A
sets it; the next batch, holding B only, reseeds B and clears it; A's hash now lacks the failed batch and is
trusted until midnight or a reconnect. `README.md:267` and `:418` promise a rebuild. With one symbol the flag is
exact, which `stream_one_symbol` checks.

`stream_close`: the loop breaks as soon as `closed` is set (`main.py:175`), and the queue dies with the
session. What was put after that iteration's drain, or was over `FLUSH_MAX_ROWS`, is never stored, although
`README.md:5` says every tick is. `LossIsAccounted` bounds the damage: nowhere else is a trade lost silently, and a failed
insert loses its own batch and nothing that waits behind it.

### The live board

`LiveBoard.tla` extends `Stream` with the Markets page. `ReadRedis` is `read_live_board` on one EXEC, atomic because
the stream writes with one; `RedisMisses` is a missing hash, a timeout or a stopped Redis, and `ReadPostgres` the
query that follows, at any later moment. `Midnight` changes the date of the dashboard and of Postgres at once;
trades of a day come after it. The price is represented by its trade's time, so which of two trades of the same time gave it
is not compared. A card is the time of its price, and the trades, count and open of its statistics,
from the hash (`RedisCard`, blank when the hash is of another day) or by the query's own definition over
`raw_trades` (`SqlCard`).

`SameBoard` is "same board, a bit slower" (`README.md:259`) made precise: whenever Redis answers and no flush is between
its two stores or has failed to write, the two boards agree in price, count and open. There is one exception, which
the property bounds: a batch over midnight is counted in the new day as a whole, so Redis shows up to one
batch less one trade more than the query. `PriceGoesBackOnlyBehind` is about the alternation: after a failed Redis
write the query shows newer prices than the hash, and if Redis then answers the price on the screen goes back. That
happens in the run, until the next flush that has trades: a failed write is not repeated before. With no such
write pending it does not happen, whichever store answers and whatever restarted in between.
`StoredPriceIsShown` says that a price that reached both stores also reaches the screen. It starts from a flush that
left them in step, since without further trades a failed write stays missing, and with several symbols the
flag of `stream_reseed` breaks all three; hence the one symbol. An ambiguous insert is left out
too: it stores rows the flag knows nothing of, so that the hash lacks them with no write pending.

## 4. Rollup

`Rollup.tla` has a clock in ticks, minutes of `MinuteLen` ticks, and one process whose run is `StartRun`
(window and row), `Read`, `Upsert`, `FinishOk`, or the failing variants. The read and the upsert are one
transaction at READ COMMITTED, so trades are inserted between them: two actions. `StartRunFails` and
`FinishRaises` reach main's catch-all; `RollupAmbiguous` commits without the client knowing; `Crash` restarts
straight into `run_once`. A candle is the set of trades it was built from, so that OHLCV and `trade_count`
follow; the order of rows with equal symbol and time, which `LIMIT` may cut between, is left open.
`Insert` is the stream's commit of one trade, at most `MaxLate` ticks after its `trade_ts`. The window is a whole
number of minutes, but its start is not floored, as in `main.py:15`. A start-of-run commit whose answer is lost
is left out: it leaves a row 'running', as a crash after it does.

`fresh`, `touched`, `counted` and `missed` are history variables: no action's guard reads them, except that
`missed` stops counting beyond `MaxMissed`.

| Run | Instance | Shows |
|---|---|---|
| `rollup_window` | 4 trades, 2 symbols, 2 trades at one tick, window of 2 minutes, `LIMIT` 3, all failures, 8 ticks, with the page and a grace of 3; about 3.3 million states | `TypeOK`, `RunRowAddsUp`, `FullMinutesExact`, `ShrinksOnlyAtEdge`, `DeadRollupIsNoticed` |
| `rollup_timely` | 3 trades, window 8 ticks = `ReachBack`, delays of 1, lateness 2, 1 missed run in a row, 15 ticks, with the page and a grace of 11 | `FailedWroteNothing`, `NoTradeSkipped`, `PageTypeOK`, `BehindIsReal` |
| `rollup_edge` | 3 trades, window of 1 minute, no failures | **violates** `OldCandlesKeepTheirTrades` |

The clock stops at `MaxTime`, and a sleep that would outlast it ends with it; runs then go on at the last tick.
Eight ticks are four minutes: windows begin both on and inside a minute, and minutes fall behind
them. `rollup_timely` uses `TimelyPageSpec`, the steps that are `OnTime`: wake-ups and runs are at most `MaxDelay`
late and at most `MaxMissed` runs in a row write nothing. That is an assumption on scheduling, not a claim; it
turns "a late trade, or a missed run, is picked up next time" (`README.md:273`) into a width,
`ReachBack = MaxLate + (MaxMissed + 1) * (Interval + 2 * MaxDelay)`. The instance's window has exactly that
width, and one tick less fails. With the defaults (10 minutes, 60 s) and a second of lateness and delay, eight
missed runs in a row are covered; a window equal to the interval, which `load_config` accepts, covers none.
`RunRowAddsUp` and `FailedWroteNothing` relate the run log to the candles: `FailedWroteNothing` needs commits
that are not ambiguous, and its run has none.

`rollup_edge`: each run rewrites the minute its window starts in from that minute's last trades only. With
runs every 60 s, every minute is at the window's edge once, about ten minutes after it ended, and its finished
candle is replaced unless no trade fell into the remaining part. The rollup design (line 155) says those minutes
"are rewritten with identical values". `ShrinksOnlyAtEdge` shows that this minute, and reads cut by `LIMIT`,
are the only candles that lose trades.

### The pipeline page

`PipelinePage.tla` extends `Rollup` with `health` and `rollup_status`. `ReadRun` and `ReadCandles` are two transactions with
any number of rollup steps, failures and ticks between them; the verdict is taken when the second returns. The session
row comes from the stream, and nothing else here depends on it: the verdict (`RollupVerdict`) is a function of
its `last_trade_at`, and the properties speak of every time it may hold up to now. That leaves out no
behaviour and spares a step and a clock.

`DeadRollupIsNoticed` holds without any assumption on time: a rollup that hangs, or dies and leaves 'running' or
'ok', reads "Behind" as soon as its last commit is older than the grace and trades arrive. `BehindIsReal` is the
other side, for a rollup that is on time: "Behind" is never drawn for a trade it had to have counted
(`CountedWithin = ReachBack + MaxDelay`) whose minute began within the grace. The grace of 11 ticks is just
wide enough for trades between the two. What remains is real: a candle's age is counted from the start of its minute and a
trade's from its arrival (`status.py:125-132`), so in a market that falls silent "Behind" shows for up to a
minute before the grace has passed for the trades too, and the first trade after a silence reads "Behind" until the next
run. The comment above these lines (`status.py:128-130`) argues that an alarm that fires every night is one nobody reads.

## 5. Accounts and price alerts

`Accounts.tla` is the api's `users` table, its tokens and the dashboard's browser sessions; `PriceAlerts.tla`
extends it with `price_alerts` and the stream's check. The state of a module it extends changes by that
module's own actions (`AccountStep`), restricted as the foreign key of `price_alerts.user_id` restricts them.

| Code | Model |
|---|---|
| `lifespan`, `prepare_database` | `Start`, `StartUnprepared` (Postgres away: the api serves anyway) |
| `POST /auth/register` | `Register` |
| `POST /auth/login`, `render_login` | `LoginRead`, then `LoginAnswer` or `LoginFails` |
| "Log out", 401 and `end_dead_session` | `LogOut`, `ExpiredRequest`, `AccountGone` |
| what only an operator with a database shell can do | `SetRole`, `DeleteAccount` (external) |
| `POST /alerts`, `DELETE /alerts/{id}` with `require_admin` | `CreateAlert`, `DeleteAlert` |
| `check_alerts`: pending rows and `find_triggered`; `mark_triggered` | `Match`; `Mark`, `CheckFails` |
| container death, a commit already sent | `Crash`, `LateCommit` |

Abstractions. An address is a spelling with its canonical form; a password verifies if it equals the stored one;
a token is the role, address and expiry it was issued with, valid until its time. A trade has a symbol, a
price and a time, an alert a symbol, a direction and a threshold; of two first crossings with equal times either
may be taken, which stands for the order of the batch. The stream's flush is a set of trades not drained before.
A seed admin is assumed to be configured. `lostAdmin`, `known`, `offered` and `deleted` are history variables.

| Run | Instance | Shows |
|---|---|---|
| `accounts` | 2 people with 2 spellings each, one the seed's, 2 browsers (symmetric), 2 passwords, tokens and answers of one tick, 3 ticks, all an operator may do | `AccountsTypeOK`, `OneAccountPerAddress`, `DemotedLosesPower`, `SeedIsNotTaken`, `AccountsKeepWhatTheyAre` |
| `alerts` | 2 alerts, 3 trades that cross upwards and fall back, batches of 2, 1 browser, operator deletions, failing checks, crashes, late commits; about 2.4 million states | `TypeOK`, `DeletedStaysDeleted`, `FirstCrossingFires`, `FiresOnce`, `RemovedByAdmins` |

Two spellings each are the least in which one person could hold two accounts; three ticks let a token be issued
a tick after its role was read, live a tick and expire. Two alerts let one id be deleted while the other is
marked, three trades let a crossing come, go and come again over two batches. In `alerts` a browser that is the
seed admin's creates and deletes, and accounts come and go under its token.

`DemotedLosesPower` has the api's answer time in its bound: `LoginRead` takes the role from the row, the token is
dated later, so the lifetime alone, which `api/config.py:14` calls "the longest a demoted admin keeps the old
powers", is short by the time a login takes: read, demoted, dated a tick later, the role lives past `lostAdmin + Expiry`.
`ApiTimeout` stands for the wait for that answer; `requests` bounds the connect and each read by it, which for this small answer is
the same, and a client other than the dashboard may wait longer.
`SeedIsNotTaken` is about a start that finds Postgres away. The api serves all the same, and whoever asks may register; but the
tables come in one transaction with the seed's row (`prepare_database`), so as long as there is no seed there is no
table to register in, and after that the address is taken until an operator demotes or deletes it. That every alert's owner has
an account is the foreign key's doing (`AccountStep`) and not stated as a property. `FirstCrossingFires` speaks of checks that committed: a failed
check is printed and its batch is not offered again, which bounds "checks every incoming trade" (`README.md:55`).

## 6. Stream health

`StreamHealth.tla` follows the two timestamps of `SocketEvents` through the flush's heartbeat into the newest row
of `stream_sessions` and into `stream_status`. It has `Stream`'s two threads again, with what `Stream` leaves
out and without the trades: a callback is `Record`, the stamp, and `Recorded`, the rest of `record`; a flush is
`FetchMarket`, `ReadMessageAt`, `ReadTradeAt` and `Write` or `WriteFails`, since the heartbeat's arguments are
read one by one while the other thread runs; then `CheckClosed`, `Finish`, `Backoff` and `WakeUp`. `Crash` also
stands for a `finish_session` that raises. The rate of flushes is not fixed: any time may pass between two
steps, so the properties do not count on the one-second interval. `Verdict` is the page's answer in any state.

| Run | Instance | Shows |
|---|---|---|
| `health` | clock of 3 ticks, stale after 1, all failures; about 3.3 million states | `TypeOK`, `HealthyIsRecent`, `StaleIsSilent`, `TradeAgeIsReal` |
| `health_backoff` | delays from 1 to 4 ticks, 4 ticks, no failures | **violates** `WaitsDouble` |

Three ticks are enough for an event, its verdict turning stale, and a later session with an event of its own.
`lastEvent`, `flushed`, `heard` and `silent` are history variables.

`health_backoff`: `record` stamps `last_message_at` for `failed` and `closed` too, so it is set after every session
and main's `backoff.reset()` runs after every session (`main.py:226`). The wait never doubles, contrary to
`README.md:213`. Only a session that ended without any callback would let it grow, and the loop leaves only when
`closed` was recorded. `HealthyIsRecent` depends on the same stamp: "an event" there may be `closed`, so for
up to `STALE_AFTER_SECONDS` a session that has ended reads "Connected and healthy" (`status.py:104`).

## 7. Proofs

`StreamProofs`, `BoardProofs`, `RollupProofs`, `PipelineProofs`, `AccountProofs`, `AlertProofs` and `HealthProofs` hold the theorems of
`PROJECT.json`, and `SumProofs` lemmas they cite, for every set of trades, symbols, people and browsers, every limit, window and lifetime, and
every combination of failures. They rest on the named assumptions of the modules (trades have a symbol, a time
and a day that grows with time; a canonical address is its own canonical form; limits are positive; what
`load_config` refuses does not occur), which TLC evaluates in every run.

**Stream.** `TypeOK` is not inductive: heartbeats add `seen - reported`, so `TypeInv` adds `reported <= tradesSeen`
and finite batches. `FlowInv` says where a trade can be: on the queue at one position, in the batch, or stored,
never two of these, and the batch is empty where no flush is under way. `SessionInv` says rows after the current
one are untouched and only the current one can be live with a running loop. `CacheInv` says what the loop's local
`stored` may hold at `write` and `save`: trades of `rawTrades`, disjoint from the batch before the merge, with
`count` equal to their number. `IInv` is their conjunction; from it follow `CacheBehindLedger`,
`EachTradeCountedOnce`, `NoSilentLoss`, `VerdictHolds` and, step by step, `LedgerImplemented`. `ReseedIsComplete` adds
`SeedOnlyInv`: under the flag, what was loaded is of the batch's day alone, since a distrusted hash is never read.

`RowsAddUp` is about a sum over session rows. `MapThenSumSet` removes one chosen element after the other, by a recursive
function over subsets; `SumProofs` shows that its equation has exactly one solution (`SumExists`, `SumUnique`) and
that the sum grows with each of its terms, whichever is chosen first (`TotalGrows`). The inductions go over
sets of naturals (`NatSetInduction`), since the library's principles take operators. The step is then that a commit adds
as many to one row as to `raw_trades`, from which the batch is disjoint by `FlowInv`.

`BacklogBounded` adds `BacklogInv`: while a session runs, what is written, in flight and queued is what was recorded and
put, and the row's `trades_received` is `reported`. It assumes that no insert fails or is ambiguous: after a failed
insert the trades are received and never written, and the page's backlog keeps them.

`TrustInv` says what `needs_reseed = FALSE` is worth at each step: outside `save` each hash covers its day, and in `write`
and `save` what was loaded for the batch holds all earlier rows of the batch's day (`Seeded`), so that
the merge completes it. The property alone is not inductive: it says nothing between the insert and the Redis
write. `TrustIsJustified` assumes one symbol, since `stream_reseed` is a counterexample with two, and no ambiguous
commit, since that stores rows and leaves the flag alone. `TrustOfAllSymbols` says how far that goes with any
number of symbols: all hashes stay whole (`WholeInv`) if all trades are of one day, no load or Redis write fails, the process
is not killed and no commit is ambiguous. None of these can be dropped: in the instance of `stream_reseed` with two
sessions, each of the four failures alone, and midnight without any failure, gives TLC a counterexample. The last is
the batch over midnight of section 3.

`PriceIsLatest` assumes `InOrder`, and holds for all symbols and failures. `OrderInv` says that each symbol's trades are in
time order along their way, rows before batch before queue; `StatsInv` that the loaded hashes have their day's open.
A merge then takes the price from the batch and leaves the open, and both are right.

**Live board.** Every step of the composition is a step of the stream or a stutter (`BoardOnlyReads`), so the stream's
theorems and invariants hold with the board. `BoardTypeCorrect` needs `TypeInv`, for the query's count is that of a finite table.
`StoresAgree` takes completeness from `TrustInv` and price and open from `StatsInv`, and adds two invariants of the stream.
`DayInv`: a hash is of the day of one of its trades, none is of a later day, and those of an earlier one are fewer than
`MaxRows`, since they came in the batch that started the day and a later batch has no trade before those the hash holds.
`NewestInv`: no row is of a later day than a trusted hash. So a hash of today has all of today's rows, and a hash of
an earlier day means that there are none. `PriceHolds` adds `PriceInv`, that a price on the screen is at most that of some
row; rows are never deleted, so the query cannot show less, nor Redis where the two agree. Both assume a feed in time
order and `TrustIsKept`, which is what `TrustIsJustified` assumes, as the run does, or what `TrustOfAllSymbols` assumes.

**Rollup.** `IInv` says that candles hold stored trades of their own minute, and that at the upsert the rows are
all of the window's trades stored before the read unless `LIMIT` was reached, while no candle holds a trade
stored since (`fresh`). `UpsertIsExact` and `OnlyTheEdgeShrinks` follow from it. `OkRowsAddUp` adds `ReportInv`: at the end of the
transaction the candles of the run's minutes partition its rows, so their counts add up to what was read (`TotalOfParts`). `FailedRunsRollBack` assumes no
ambiguous commit. `NoTradeIsSkipped` adds `TimeInv`: at each step of the process it bounds the time reached by
each trade not yet counted, `trade_ts + MaxLate` plus a `Period` for each miss. It assumes the window to be at
least `ReachBack` and fewer trades than `LIMIT`.

**Pipeline page.** Every step of the composition is a step of the rollup or a stutter (`PageOnlyReads`), so `IInv` and
`TimeInv` carry over. `PageInv` adds that stored trades have happened and that a candle was committed no earlier than its
minute began, from which `DeadRollupShows` follows; `NewestMinute` is a maximum, which exists because minutes end with
the clock. `BehindMeansBehind` takes from `TimeInv` that an uncounted trade is at most `CountedWithin` old
(`UncountedIsRecent`), and adds `CountedInv`: a minute with a counted trade has a candle for good. It has the
assumptions of `NoTradeIsSkipped`.

**Accounts.** `AccountsInv` says that accounts are stored under canonical addresses only, from which
`OneAccountPerAddress` follows, and where an admin's role in a browser comes from: a row that still is an
admin's, or a login whose row was read no later than the address lost the role (`LoginInv`). A token is dated
within `ApiTimeout` of that read, so it ends by `lostAdmin + ApiTimeout + Expiry` (`TokenInv`), the bound of
`DemotedLosesPower`. `DemotedLosesPower` alone is not inductive: it says nothing of the login under way.
`SeedKeepsItsAddress` adds `SeedInv`, that before there are tables there is no account.

**Price alerts.** Every step is one of `Accounts` or leaves its variables alone, so `AccountsInv` carries over.
`TableInv` adds `FreshInv` (ids not given out have no row and no history, so none is reused), `MatchInv` (between
match and mark, a row that was matched and still waits fires exactly with a first crossing of the batch, though
rows came, went and fired since) and `LateInv` (rows held by a dead process's commit exist, and the trade it
carries crosses). `FirstCrossingFires` is part of it and not inductive without the last two.

**Stream health.** `TypeInv` adds that the newest row exists from the first session on. `PastInv` says that what
was read for a heartbeat and what the row holds is never later than the events themselves, which gives
`HealthyIsRecent`; `FlushInv` says that an event is in the heartbeat after the flush that read it and in the row
two committed flushes after it, which gives `StaleIsSilent` and `TradeAgeIsReal`.

**Only model-checked.** The liveness properties `QueuedTradeSettles`, `ClosedSessionIsReplaced` and
`StoredPriceIsShown`: fairness and ENABLED are beyond the prover. That the disagreements of sections 3 to 6 are real is
shown by TLC's counterexamples, which no theorem replaces.

## 8. Not modelled

The dashboard's charts, sparklines and its 30 s cache of candles; the sizes on the pipeline page; a board whose query
raises or finds no table; the api's reads. Trades that the feed delivers twice are two trades. `reconnects`. Numbers: prices,
volumes and their rounding through NUMERIC, float and Redis strings. The order of `open` and `close` among trades
with equal timestamps. Start-up: `apply_schema` of the stream and the rollup, configuration parsing, waiting for containers. Layout, charts,
logging, CI.

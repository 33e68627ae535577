------------------------------- MODULE Rollup -------------------------------
(***************************************************************************)
(* The rollup service (rollup/): one process that, after every sleep,      *)
(* re-reads the trailing window of raw_trades and overwrites the candle of *)
(* every (symbol, minute) it saw.  A run is three transactions: its row in *)
(* rollup_runs, the read together with the upsert, and the row's verdict.  *)
(* The stream service inserts trades between any two of its steps, also    *)
(* between the read and the upsert, which the database does not serialise. *)
(*                                                                         *)
(* Time is counted in ticks.  Minutes are MinuteLen ticks long and named   *)
(* by the tick they start at, so that windows may begin inside a minute.   *)
(***************************************************************************)
EXTENDS Integers, FiniteSets, FiniteSetsExt

CONSTANTS
  Trade,      \* trades the stream may insert
  Symbol,     \* their symbols: numbers, in the database's order of names
  SymbolOf,   \* the symbol of a trade
  TsOf,       \* its trade_ts
  MinuteLen,  \* ticks of a minute
  WindowMinutes, \* ROLLUP_WINDOW_MINUTES, a whole number of minutes
  Interval,   \* ROLLUP_INTERVAL_SECONDS, in ticks
  MaxRows,    \* ROLLUP_MAX_ROWS
  MaxTime,    \* bound: the tick at which the clock stops
  MaxLate,    \* ticks after its trade_ts at which a trade may be stored
  MaxDelay,   \* on time: ticks a wake-up may be late, and a run may last
  MaxMissed,  \* on time: runs in a row that may fail to write candles
  Faults      \* the failures that may happen

FaultKinds == {"startFails", "rollupFails", "ambiguousCommit", "finishFails",
               "crash"}

ASSUME TradeAssumption ==
  /\ Symbol \subseteq Nat
  /\ MaxTime \in Nat
  /\ SymbolOf \in [Trade -> Symbol]
  /\ TsOf \in [Trade -> 0..MaxTime]
  /\ IsFiniteSet(Trade)

\* ROLLUP_WINDOW_MINUTES in ticks.
Window == WindowMinutes * MinuteLen

\* load_config: the interval is positive, the window and the row limit are at
\* least one, and a window shorter than the interval is refused.
ASSUME ConfigAssumption ==
  /\ MinuteLen \in Nat \ {0}
  /\ Interval \in Nat \ {0}
  /\ WindowMinutes \in Nat \ {0}
  /\ Window >= Interval
  /\ MaxRows \in Nat \ {0}

ASSUME BoundAssumption ==
  /\ MaxLate \in Nat /\ MaxDelay \in Nat /\ MaxMissed \in Nat
  /\ Faults \subseteq FaultKinds

VARIABLES
  now,        \* the clock
  rawTrades,  \* Postgres: the rows of raw_trades
  candles,    \* Postgres: the trades each candle row was built from
  run,        \* Postgres: the newest row of rollup_runs
  pc,         \* the process's next step
  wake,       \* when its sleep ends
  rows,       \* run_once: trades, the rows of the window
  fresh,      \* history: trades stored since rows was read
  touched,    \* history: the candles the newest run wrote
  counted,    \* history: trades some committed run put in a candle
  missed      \* history: runs in a row that wrote no candles, capped

dbVars == <<rawTrades, candles, run>>
history == <<fresh, touched, counted, missed>>
vars == <<now, dbVars, pc, wake, rows, history>>

----------------------------------------------------------------------------
\* build_candles' dt.floor("min").
Floor(ts) == ts - (ts % MinuteLen)
Minutes == {Floor(ts) : ts \in 0..MaxTime}

Keys == Symbol \X Minutes
KeyOf(t) == <<SymbolOf[t], Floor(TsOf[t])>>
OfKey(B, k) == {t \in B : KeyOf(t) = k}
KeysIn(B) == {KeyOf(t) : t \in B}

NoRun == [status |-> "none", start |-> 0, read |-> 0, written |-> 0]

\* ORDER BY symbol, trade_ts.
Before(t, u) ==
  \/ SymbolOf[t] < SymbolOf[u]
  \/ SymbolOf[t] = SymbolOf[u] /\ TsOf[t] < TsOf[u]

\* Mutant: the read begins after the start of the window.
AfterStart == {t \in rawTrades : TsOf[t] > run.start}

\* WHERE trade_ts >= :window_start.
InWindow == {t \in rawTrades : TsOf[t] >= run.start}

\* LIMIT :max_rows, which leaves the order of equal rows to the database.
Limited(B) ==
  {R \in SUBSET B :
     /\ Cardinality(R) <= MaxRows
     /\ R # B => Cardinality(R) = MaxRows
     /\ \A t \in R, u \in B \ R : ~Before(u, t)}

\* Mutant: each run rewrites the minutes it has no trades of as well.
UpsertAll(B) == [k \in Keys |-> OfKey(B, k)]

\* ON CONFLICT DO UPDATE: every candle built replaces the stored row.
Upserted(B) ==
  [k \in Keys |-> IF k \in KeysIn(B) THEN OfKey(B, k) ELSE candles[k]]

----------------------------------------------------------------------------
Init ==
  /\ now = 0
  /\ rawTrades = {}
  /\ candles = [k \in Keys |-> {}]
  /\ run = NoRun
  /\ pc = "sleep"
  /\ wake = 0
  /\ rows = {}
  /\ fresh = {}
  /\ touched = {}
  /\ counted = {}
  /\ missed = 0

\* run_once is left; main sleeps whether it returned or raised.  A sleep that
\* outlasts the clock ends with it.
Sleep ==
  /\ pc' = "sleep"
  /\ wake' = IF now + Interval > MaxTime THEN MaxTime ELSE now + Interval
  /\ rows' = {}

\* The count stops where OnTime has been broken.
Missed ==
  /\ missed' = IF missed > MaxMissed THEN missed ELSE missed + 1
  /\ UNCHANGED <<fresh, touched, counted>>

\* Mutant: the window reaches back one tick less than configured.
ShortWindow == now - Window + 1

\* window_end - timedelta(minutes=config.window_minutes).
WindowStart == now - Window

\* run_once computes the window and commits the run's row.
StartRun ==
  /\ pc = "sleep" /\ now >= wake
  /\ run' = [status |-> "running", start |-> WindowStart,
             read |-> 0, written |-> 0]
  /\ touched' = {}
  /\ pc' = "read"
  /\ UNCHANGED <<now, rawTrades, candles, wake, rows, fresh, counted, missed>>

\* The row's transaction raises out of run_once, to main's except.
StartRunFails ==
  /\ pc = "sleep" /\ now >= wake
  /\ "startFails" \in Faults
  /\ Sleep
  /\ Missed
  /\ UNCHANGED <<now, dbVars>>

\* read_recent_trades.
Read ==
  /\ pc = "read"
  /\ rows' \in Limited(InWindow)
  /\ fresh' = {}
  /\ pc' = "upsert"
  /\ UNCHANGED <<now, dbVars, wake, touched, counted, missed>>

WriteCandles ==
  /\ candles' = Upserted(rows)
  /\ touched' = KeysIn(rows)
  /\ counted' = counted \cup rows
  /\ missed' = 0
  /\ UNCHANGED <<now, rawTrades, run, wake, fresh>>

\* build_candles and upsert_candles on the rows read; the commit.
Upsert ==
  /\ pc = "upsert"
  /\ WriteCandles
  /\ pc' = "ok"
  /\ UNCHANGED rows

\* Mutant: each candle is committed on its own, and some were.
PartWritten ==
  /\ pc \in {"read", "upsert"}
  /\ "rollupFails" \in Faults
  /\ WriteCandles
  /\ rows' = {}
  /\ pc' = "failed"

\* Anything in the read's transaction raises: it is rolled back.
RollupFails ==
  /\ pc \in {"read", "upsert"}
  /\ "rollupFails" \in Faults
  /\ pc' = "failed"
  /\ rows' = {}
  /\ Missed
  /\ UNCHANGED <<now, dbVars, wake>>

\* The server commits the candles but the client sees its connection drop.
RollupAmbiguous ==
  /\ pc = "upsert"
  /\ "ambiguousCommit" \in Faults
  /\ WriteCandles
  /\ rows' = {}
  /\ pc' = "failed"

\* Mutant: the number of rows read is reported as candles written.
CountRows(B) == Cardinality(B)

\* Mutant: the driver's rowcount, -1 after executemany.
Rowcount(B) == IF B = {} THEN 0 ELSE -1

\* upsert_candles returns len(candles).
CandlesIn(B) == Cardinality(KeysIn(B))

\* finish_run(..., "ok", len(trades), written).
FinishOk ==
  /\ pc = "ok"
  /\ run' = [run EXCEPT !.status = "ok", !.read = Cardinality(rows),
                        !.written = CandlesIn(rows)]
  /\ Sleep
  /\ UNCHANGED <<now, rawTrades, candles, history>>

\* finish_run(..., "failed", error_message=message).
FinishFailed ==
  /\ pc = "failed"
  /\ run' = [run EXCEPT !.status = "failed"]
  /\ Sleep
  /\ UNCHANGED <<now, rawTrades, candles, history>>

\* finish_run raises: main catches it and the row stays 'running'.
FinishRaises ==
  /\ pc \in {"ok", "failed"}
  /\ "finishFails" \in Faults
  /\ Sleep
  /\ UNCHANGED <<now, dbVars, history>>

\* A run is due or has not committed its candles.
Pending == pc \in {"read", "upsert"} \/ (pc = "sleep" /\ now >= wake)

\* The container dies and is restarted; main goes straight to run_once.
Crash ==
  /\ "crash" \in Faults
  /\ pc' = "sleep"
  /\ wake' = now
  /\ rows' = {}
  /\ IF Pending THEN Missed ELSE UNCHANGED history
  /\ UNCHANGED <<now, dbVars>>

\* The stream commits a trade that happened at most MaxLate ticks ago.
Insert(t) ==
  /\ t \notin rawTrades
  /\ TsOf[t] <= now /\ now <= TsOf[t] + MaxLate
  /\ rawTrades' = rawTrades \cup {t}
  /\ fresh' = fresh \cup {t}
  /\ UNCHANGED <<now, candles, run, pc, wake, rows, touched, counted, missed>>

Tick ==
  /\ now < MaxTime
  /\ now' = now + 1
  /\ UNCHANGED <<dbVars, pc, wake, rows, history>>

Next ==
  \/ StartRun \/ StartRunFails
  \/ Read \/ Upsert \/ RollupFails \/ RollupAmbiguous
  \/ FinishOk \/ FinishFailed \/ FinishRaises
  \/ Crash
  \/ \E t \in Trade : Insert(t)
  \/ Tick

Spec == Init /\ [][Next]_vars

\* What "on time" means: the process wakes up and finishes its runs at most
\* MaxDelay late, and at most MaxMissed runs in a row write no candles.
Due == MaxDelay + (IF pc = "sleep" THEN wake ELSE run.start + Window)

OnTime == (now' # now => now < Due) /\ missed' <= MaxMissed

TimelySpec == Init /\ [][Next /\ OnTime]_vars

----------------------------------------------------------------------------
(***************************************************************************)
(* Properties.                                                             *)
(***************************************************************************)
TypeOK ==
  /\ now \in 0..MaxTime
  /\ rawTrades \subseteq Trade
  /\ candles \in [Keys -> SUBSET Trade]
  /\ run \in [status : {"none", "running", "ok", "failed"}, start : Int,
             read : Nat, written : Nat]
  /\ pc \in {"sleep", "read", "upsert", "ok", "failed"}
  /\ wake \in 0..MaxTime
  /\ rows \subseteq Trade
  /\ fresh \subseteq Trade
  /\ touched \subseteq Keys
  /\ counted \subseteq Trade
  /\ missed \in Nat

Full == Cardinality(rows) = MaxRows

\* After an upsert the candle of every minute that lies wholly in the window
\* holds exactly the minute's trades stored before the read, whatever was
\* stored, rolled up or rolled back before, unless LIMIT cut the read short.
FullMinutesExact ==
  [][Upsert /\ ~Full =>
       \A k \in Keys : k[2] >= run.start =>
         candles'[k] = OfKey(rawTrades \ fresh, k)]_vars

\* A candle loses trades only when the window begins inside its minute or
\* LIMIT cut the read short: minutes behind the window are never touched.
ShrinksOnlyAtEdge ==
  [][\A k \in Keys :
       \/ candles[k] \subseteq candles'[k]
       \/ k[2] < run.start /\ run.start < k[2] + MinuteLen
       \/ Full]_vars

\* The row of an 'ok' run agrees with the candles it left: trades_read is the
\* sum of their trade_count, minutes_written their number.
RunRowAddsUp ==
  run.status = "ok" =>
    /\ run.read = MapThenSumSet(LAMBDA k : Cardinality(candles[k]), touched)
    /\ run.written = Cardinality(touched)

\* A 'failed' run changed no candle, wherever in its transaction it failed.
FailedWroteNothing == run.status = "failed" => touched = {}

\* On time, "a late trade, or a missed run, is picked up next time"
\* (README.md:273): every trade no run has counted yet lies in the window of
\* the run that reads next, however the misses and the delays fall.
ReachBack == MaxLate + (MaxMissed + 1) * (Interval + 2 * MaxDelay)

NoTradeSkipped ==
  (pc = "read" /\ Window >= ReachBack) =>
    \A t \in rawTrades \ counted : TsOf[t] >= run.start

\* A rewritten candle only gains late trades ("The older nine minutes are
\* rewritten with identical values", candle rollup design, line 155).
OldCandlesKeepTheirTrades ==
  [][\A k \in Keys : candles[k] \subseteq candles'[k]]_vars

=============================================================================

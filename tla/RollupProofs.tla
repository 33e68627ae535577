---------------------------- MODULE RollupProofs ----------------------------
(***************************************************************************)
(* Theorems about Rollup, for every set of trades, window, interval, row   *)
(* limit, length of a minute and combination of failures.                  *)
(***************************************************************************)
EXTENDS Rollup, FiniteSetTheorems, TLAPS, SumProofs

----------------------------------------------------------------------------
(***************************************************************************)
(* Lemmas about the operators of the model.                                *)
(***************************************************************************)
LEMMA ConstantTypes ==
  /\ MinuteLen \in Nat \ {0}
  /\ Window \in Nat
  /\ Interval \in Nat \ {0}
  /\ MaxTime \in Nat
  /\ MaxRows \in Nat \ {0}
  /\ MaxLate \in Nat /\ MaxDelay \in Nat /\ MaxMissed \in Nat
<1>1. WindowMinutes \in Nat /\ MinuteLen \in Nat
  BY ConfigAssumption
<1>2. WindowMinutes * MinuteLen \in Nat
  BY <1>1
<1>3. QED
  BY <1>2, ConfigAssumption, BoundAssumption, TradeAssumption DEF Window

\* A trade lies in the minute that its time is floored to.
LEMMA FloorBounds ==
  ASSUME NEW ts \in Nat
  PROVE  /\ Floor(ts) \in Nat
         /\ Floor(ts) <= ts
         /\ ts < Floor(ts) + MinuteLen
<1>1. MinuteLen \in Nat /\ MinuteLen > 0
  BY ConstantTypes
<1>2. ts % MinuteLen \in 0..(MinuteLen - 1)
  BY <1>1
<1>3. ts - (ts % MinuteLen) >= 0
  BY <1>1
<1>4. QED
  BY <1>1, <1>2, <1>3 DEF Floor

\* Every trade belongs to one of the candle keys, at or before its time.
LEMMA KeyProperties ==
  ASSUME NEW t \in Trade
  PROVE  /\ KeyOf(t) \in Keys
         /\ TsOf[t] \in Nat
         /\ KeyOf(t)[2] \in Nat
         /\ KeyOf(t)[2] <= TsOf[t]
         /\ TsOf[t] < KeyOf(t)[2] + MinuteLen
<1>1. TsOf[t] \in 0..MaxTime /\ SymbolOf[t] \in Symbol /\ MaxTime \in Nat
  BY TradeAssumption
<1>2. /\ Floor(TsOf[t]) \in Nat
      /\ Floor(TsOf[t]) <= TsOf[t]
      /\ TsOf[t] < Floor(TsOf[t]) + MinuteLen
  BY <1>1, FloorBounds
<1>3. Floor(TsOf[t]) \in Minutes
  BY <1>1 DEF Minutes
<1>4. QED
  BY <1>1, <1>2, <1>3 DEF KeyOf, Keys

LEMMA MinutesNat == \A k \in Keys : k[2] \in Nat
<1>1. \A m \in Minutes : m \in Nat
  <2>1. SUFFICES ASSUME NEW ts \in 0..MaxTime
                 PROVE  Floor(ts) \in Nat
    BY DEF Minutes
  <2>2. ts \in Nat
    BY ConstantTypes
  <2>3. QED
    BY <2>2, FloorBounds
<1>2. QED
  BY <1>1 DEF Keys

\* The upsert maps candles to candles; a key it writes has a trade read.
LEMMA UpsertedType ==
  ASSUME candles \in [Keys -> SUBSET Trade], rows \subseteq Trade
  PROVE  /\ Upserted(rows) \in [Keys -> SUBSET Trade]
         /\ KeysIn(rows) \subseteq Keys
         /\ Cardinality(rows) \in Nat
         /\ CandlesIn(rows) \in Nat
<1>1. KeysIn(rows) \subseteq Keys
  BY KeyProperties DEF KeysIn
<1>2. IsFiniteSet(rows)
  BY TradeAssumption, FS_Subset
<1>3. IsFiniteSet(KeysIn(rows))
  <2> DEFINE key == [t \in rows |-> KeyOf(t)]
  <2>1. key \in Surjection(rows, KeysIn(rows))
    BY DEF Surjection, KeysIn
  <2>2. QED
    BY <1>2, <2>1, FS_Surjection
<1>4. Upserted(rows) \in [Keys -> SUBSET Trade]
  BY DEF Upserted, OfKey
<1>5. QED
  BY <1>1, <1>2, <1>3, <1>4, FS_CardinalityType DEF CandlesIn

----------------------------------------------------------------------------
(***************************************************************************)
(* Type correctness.                                                       *)
(***************************************************************************)
LEMMA InitType == Init => TypeOK
<1> SUFFICES ASSUME Init PROVE TypeOK
  OBVIOUS
<1>1. 0 \in 0..MaxTime
  BY ConstantTypes
<1>2. QED
  BY <1>1 DEF Init, TypeOK, NoRun

LEMMA SleepType ==
  ASSUME TypeOK, Sleep
  PROVE  /\ pc' \in {"sleep", "read", "upsert", "ok", "failed"}
         /\ wake' \in 0..MaxTime
         /\ rows' \subseteq Trade
<1>1. wake' \in 0..MaxTime
  BY ConstantTypes DEF TypeOK, Sleep
<1>2. QED
  BY <1>1 DEF Sleep

LEMMA MissedType ==
  ASSUME TypeOK, Missed
  PROVE  missed' \in Nat /\ UNCHANGED <<fresh, touched, counted>>
BY ConstantTypes DEF TypeOK, Missed

LEMMA WriteCandlesType ==
  ASSUME TypeOK, WriteCandles
  PROVE  /\ candles' \in [Keys -> SUBSET Trade]
         /\ touched' \subseteq Keys
         /\ counted' \subseteq Trade
         /\ missed' \in Nat
         /\ UNCHANGED <<now, rawTrades, run, wake, fresh>>
<1>1. candles \in [Keys -> SUBSET Trade] /\ rows \subseteq Trade
  BY DEF TypeOK
<1>2. candles' \in [Keys -> SUBSET Trade] /\ touched' \subseteq Keys
  BY <1>1, UpsertedType DEF WriteCandles
<1>3. QED
  BY <1>2 DEF WriteCandles, TypeOK

LEMMA NextType == TypeOK /\ [Next]_vars => TypeOK'
<1> SUFFICES ASSUME TypeOK, [Next]_vars PROVE TypeOK'
  OBVIOUS
<1>1. CASE StartRun
  <2>1. WindowStart \in Int
    BY ConstantTypes DEF WindowStart, TypeOK
  <2>2. QED
    BY <1>1, <2>1 DEF StartRun, TypeOK
<1>2. CASE StartRunFails
  BY <1>2, SleepType, MissedType DEF StartRunFails, TypeOK, dbVars
<1>3. CASE Read
  <2>1. rows' \subseteq Trade
    BY <1>3 DEF Read, Limited, InWindow, TypeOK
  <2>2. QED
    BY <1>3, <2>1 DEF Read, TypeOK, dbVars
<1>4. CASE Upsert
  BY <1>4, WriteCandlesType DEF Upsert, TypeOK
<1>5. CASE RollupFails
  BY <1>5, MissedType DEF RollupFails, TypeOK, dbVars
<1>6. CASE RollupAmbiguous
  BY <1>6, WriteCandlesType DEF RollupAmbiguous, TypeOK
<1>7. CASE FinishOk
  <2>1. candles \in [Keys -> SUBSET Trade] /\ rows \subseteq Trade
    BY DEF TypeOK
  <2>2. Cardinality(rows) \in Nat /\ CandlesIn(rows) \in Nat
    BY <2>1, UpsertedType
  <2>3. run' \in [status : {"none", "running", "ok", "failed"}, start : Int,
                  read : Nat, written : Nat]
    BY <1>7, <2>2 DEF FinishOk, TypeOK
  <2>4. QED
    BY <1>7, <2>3, SleepType DEF FinishOk, TypeOK, history
<1>8. CASE FinishFailed
  <2>1. run' \in [status : {"none", "running", "ok", "failed"}, start : Int,
                  read : Nat, written : Nat]
    BY <1>8 DEF FinishFailed, TypeOK
  <2>2. QED
    BY <1>8, <2>1, SleepType DEF FinishFailed, TypeOK, history
<1>9. CASE FinishRaises
  BY <1>9, SleepType DEF FinishRaises, TypeOK, dbVars, history
<1>10. CASE Crash
  <2>1. missed' \in Nat /\ UNCHANGED <<fresh, touched, counted>>
    BY <1>10, MissedType DEF Crash, history, TypeOK
  <2>2. QED
    BY <1>10, <2>1 DEF Crash, TypeOK, dbVars
<1>11. CASE \E t \in Trade : Insert(t)
  BY <1>11 DEF Insert, TypeOK
<1>12. CASE Tick
  <2>1. now' \in 0..MaxTime
    BY <1>12, ConstantTypes DEF Tick, TypeOK
  <2>2. QED
    BY <1>12, <2>1 DEF Tick, TypeOK, dbVars, history
<1>13. CASE UNCHANGED vars
  BY <1>13 DEF vars, dbVars, history, TypeOK
<1>14. QED
  BY <1>1, <1>2, <1>3, <1>4, <1>5, <1>6, <1>7, <1>8, <1>9, <1>10, <1>11,
     <1>12, <1>13 DEF Next

\* Every variable keeps its type, whatever fails.
THEOREM TypeCorrect == Spec => []TypeOK
BY InitType, NextType, PTL DEF Spec

----------------------------------------------------------------------------
(***************************************************************************)
(* What a run knows.  Between the read and the upsert other trades are     *)
(* stored; the invariant separates them (fresh) from the rows the read     *)
(* returned, and no candle holds them, since only runs write candles.      *)
(***************************************************************************)
Snapshot == {t \in rawTrades \ fresh : TsOf[t] >= run.start}

CandleInv == \A k \in Keys : candles[k] \subseteq OfKey(rawTrades, k)

ReadInv ==
  pc = "upsert" =>
    /\ rows \subseteq Snapshot
    /\ ~Full => rows = Snapshot
    /\ \A k \in Keys : candles[k] \cap fresh = {}

RowsInv == rows \subseteq rawTrades

IInv == TypeOK /\ CandleInv /\ ReadInv /\ RowsInv

\* The rows of the window that LIMIT lets through are all of them or MaxRows.
LEMMA LimitedRows ==
  ASSUME NEW B, NEW R \in Limited(B)
  PROVE  R \subseteq B /\ (Cardinality(R) # MaxRows => R = B)
BY DEF Limited

\* Writing what was read keeps every candle within its minute's trades.
LEMMA WriteCandlesSound ==
  ASSUME IInv, WriteCandles
  PROVE  CandleInv'
<1>1. ASSUME NEW k \in Keys
      PROVE  candles'[k] \subseteq OfKey(rawTrades, k)
  <2>1. candles'[k] = IF k \in KeysIn(rows) THEN OfKey(rows, k) ELSE candles[k]
    BY DEF WriteCandles, Upserted
  <2>2. OfKey(rows, k) \subseteq OfKey(rawTrades, k)
    BY DEF IInv, RowsInv, OfKey
  <2>3. QED
    BY <2>1, <2>2 DEF IInv, CandleInv
<1>2. rawTrades' = rawTrades
  BY DEF WriteCandles
<1>3. QED
  BY <1>1, <1>2 DEF CandleInv, OfKey

LEMMA InitInv == Init => IInv
<1> SUFFICES ASSUME Init PROVE IInv
  OBVIOUS
<1>1. TypeOK
  BY InitType
<1>2. QED
  BY <1>1 DEF Init, IInv, CandleInv, ReadInv, RowsInv

\* A step that leaves the tables alone and is not at the upsert.
LEMMA QuietStep ==
  ASSUME IInv, UNCHANGED <<rawTrades, candles>>, pc' # "upsert",
         rows' \subseteq rows
  PROVE  CandleInv' /\ ReadInv' /\ RowsInv'
<1>1. CandleInv'
  BY DEF IInv, CandleInv, OfKey
<1>2. QED
  BY <1>1 DEF IInv, ReadInv, RowsInv

LEMMA NextInv == IInv /\ [Next]_vars => IInv'
<1> SUFFICES ASSUME IInv, [Next]_vars PROVE IInv'
  OBVIOUS
<1>0. TypeOK'
  BY NextType DEF IInv
<1>1. CASE StartRun
  BY <1>0, <1>1, QuietStep DEF StartRun, IInv
<1>2. CASE StartRunFails
  BY <1>0, <1>2, QuietStep DEF StartRunFails, Sleep, dbVars, IInv
<1>3. CASE Read
  <2>1. UNCHANGED <<rawTrades, candles, run>> /\ fresh' = {}
    BY <1>3 DEF Read, dbVars
  <2>2. rows' \subseteq InWindow /\ (Cardinality(rows') # MaxRows => rows' = InWindow)
    BY <1>3, LimitedRows DEF Read
  <2>3. Snapshot' = InWindow
    BY <2>1 DEF Snapshot, InWindow
  <2>4. CandleInv'
    BY <2>1 DEF IInv, CandleInv, OfKey
  <2>5. ReadInv'
    BY <2>1, <2>2, <2>3 DEF ReadInv, Full
  <2>6. RowsInv'
    BY <2>1, <2>2 DEF RowsInv, InWindow
  <2>7. QED
    BY <1>0, <2>4, <2>5, <2>6 DEF IInv
<1>4. CASE Upsert
  <2>1. CandleInv'
    BY <1>4, WriteCandlesSound DEF Upsert
  <2>2. ReadInv'
    BY <1>4 DEF Upsert, ReadInv
  <2>3. RowsInv'
    BY <1>4 DEF Upsert, WriteCandles, RowsInv, IInv
  <2>4. QED
    BY <1>0, <2>1, <2>2, <2>3 DEF IInv
<1>5. CASE RollupFails
  BY <1>0, <1>5, QuietStep DEF RollupFails, dbVars, IInv
<1>6. CASE RollupAmbiguous
  <2>1. CandleInv'
    BY <1>6, WriteCandlesSound DEF RollupAmbiguous
  <2>2. ReadInv'
    BY <1>6 DEF RollupAmbiguous, ReadInv
  <2>3. RowsInv'
    BY <1>6 DEF RollupAmbiguous, RowsInv
  <2>4. QED
    BY <1>0, <2>1, <2>2, <2>3 DEF IInv
<1>7. CASE FinishOk
  BY <1>0, <1>7, QuietStep DEF FinishOk, Sleep, IInv
<1>8. CASE FinishFailed
  BY <1>0, <1>8, QuietStep DEF FinishFailed, Sleep, IInv
<1>9. CASE FinishRaises
  BY <1>0, <1>9, QuietStep DEF FinishRaises, Sleep, dbVars, IInv
<1>10. CASE Crash
  BY <1>0, <1>10, QuietStep DEF Crash, dbVars, IInv
<1>11. CASE \E t \in Trade : Insert(t)
  <2>1. PICK t \in Trade : Insert(t)
    BY <1>11
  <2>2. /\ t \notin rawTrades
        /\ rawTrades' = rawTrades \cup {t} /\ fresh' = fresh \cup {t}
        /\ UNCHANGED <<candles, run, pc, rows>>
    BY <2>1 DEF Insert
  <2>3. CandleInv'
    BY <2>2 DEF IInv, CandleInv, OfKey
  <2>4. Snapshot' = Snapshot
    BY <2>2 DEF Snapshot
  <2>5. ReadInv'
    <3>1. \A k \in Keys : t \notin candles[k]
      BY <2>2 DEF IInv, CandleInv, OfKey
    <3>2. QED
      BY <2>2, <2>4, <3>1 DEF IInv, ReadInv, Full
  <2>6. RowsInv'
    BY <2>2 DEF IInv, RowsInv
  <2>7. QED
    BY <1>0, <2>3, <2>5, <2>6 DEF IInv
<1>12. CASE Tick \/ UNCHANGED vars
  <2>1. UNCHANGED <<rawTrades, candles, run, pc, rows, fresh>>
    BY <1>12 DEF Tick, vars, dbVars, history
  <2>2. Snapshot' = Snapshot
    BY <2>1 DEF Snapshot
  <2>3. CandleInv' /\ ReadInv' /\ RowsInv'
    BY <2>1, <2>2 DEF IInv, CandleInv, ReadInv, RowsInv, OfKey, Full
  <2>4. QED
    BY <1>0, <2>3 DEF IInv
<1>13. QED
  BY <1>1, <1>2, <1>3, <1>4, <1>5, <1>6, <1>7, <1>8, <1>9, <1>10, <1>11,
     <1>12 DEF Next

LEMMA Invariance == Spec => []IInv
BY InitInv, NextInv, PTL DEF Spec

----------------------------------------------------------------------------
(***************************************************************************)
(* Which candles an upsert may change.                                     *)
(***************************************************************************)
\* A minute that starts in the window has its trades after the window start,
\* so an uncut read returned all of them.
LEMMA FullMinuteRows ==
  ASSUME IInv, pc = "upsert", ~Full, NEW k \in Keys, k[2] >= run.start
  PROVE  OfKey(rows, k) = OfKey(rawTrades \ fresh, k)
<1>1. rows = Snapshot
  BY DEF IInv, ReadInv
<1>2. ASSUME NEW t \in OfKey(rawTrades \ fresh, k)
      PROVE  t \in Snapshot
  <2>1. t \in rawTrades \ fresh /\ KeyOf(t) = k /\ t \in Trade
    BY DEF OfKey, IInv, TypeOK
  <2>2. k[2] <= TsOf[t] /\ k[2] \in Nat /\ TsOf[t] \in Nat
    BY <2>1, KeyProperties
  <2>3. run.start \in Int
    BY DEF IInv, TypeOK
  <2>4. QED
    BY <2>1, <2>2, <2>3 DEF Snapshot
<1>3. QED
  BY <1>1, <1>2 DEF OfKey, Snapshot

LEMMA UpsertExact ==
  ASSUME IInv, pc = "upsert", ~Full, WriteCandles,
         NEW k \in Keys, k[2] >= run.start
  PROVE  candles'[k] = OfKey(rawTrades \ fresh, k)
<1>1. OfKey(rows, k) = OfKey(rawTrades \ fresh, k)
  BY FullMinuteRows
<1>2. candles'[k] = IF k \in KeysIn(rows) THEN OfKey(rows, k) ELSE candles[k]
  BY DEF WriteCandles, Upserted
<1>3. CASE k \in KeysIn(rows)
  BY <1>1, <1>2, <1>3
<1>4. CASE k \notin KeysIn(rows)
  <2>1. OfKey(rows, k) = {}
    BY <1>4 DEF OfKey, KeysIn
  <2>2. candles[k] \subseteq OfKey(rawTrades \ fresh, k)
    BY DEF IInv, CandleInv, ReadInv, OfKey
  <2>3. QED
    BY <1>1, <1>2, <1>4, <2>1, <2>2
<1>5. QED
  BY <1>3, <1>4

\* After every upsert, under any failures before it and any inserts during
\* it, the minutes wholly in the window are exactly those of raw_trades.
THEOREM UpsertIsExact == Spec => FullMinutesExact
<1>1. ASSUME IInv, [Next]_vars
      PROVE  [Upsert /\ ~Full =>
                \A k \in Keys : k[2] >= run.start =>
                  candles'[k] = OfKey(rawTrades \ fresh, k)]_vars
  <2>1. SUFFICES ASSUME Upsert, ~Full, NEW k \in Keys, k[2] >= run.start
                 PROVE  candles'[k] = OfKey(rawTrades \ fresh, k)
    OBVIOUS
  <2>2. pc = "upsert" /\ WriteCandles
    BY <2>1 DEF Upsert
  <2>3. QED
    BY <1>1, <2>1, <2>2, UpsertExact
<1>2. QED
  BY <1>1, Invariance, PTL DEF Spec, FullMinutesExact

\* A minute behind the window has no row, so its candle is left alone.
LEMMA BehindUntouched ==
  ASSUME IInv, pc = "upsert", WriteCandles,
         NEW k \in Keys, k[2] + MinuteLen <= run.start
  PROVE  candles'[k] = candles[k]
<1>1. k \notin KeysIn(rows)
  <2>1. SUFFICES ASSUME NEW t \in rows, KeyOf(t) = k PROVE FALSE
    BY DEF KeysIn
  <2>2. t \in Trade /\ TsOf[t] >= run.start
    BY DEF IInv, ReadInv, Snapshot, TypeOK
  <2>3. /\ TsOf[t] < k[2] + MinuteLen
        /\ TsOf[t] \in Nat /\ k[2] \in Nat /\ MinuteLen \in Nat
    BY <2>1, <2>2, KeyProperties, ConstantTypes
  <2>4. run.start \in Int
    BY DEF IInv, TypeOK
  <2>5. QED
    BY <2>2, <2>3, <2>4
<1>2. QED
  BY <1>1 DEF WriteCandles, Upserted

Edge(k) ==
  \/ candles[k] \subseteq candles'[k]
  \/ k[2] < run.start /\ run.start < k[2] + MinuteLen
  \/ Full

LEMMA WriteCandlesEdge ==
  ASSUME IInv, pc = "upsert", WriteCandles, NEW k \in Keys
  PROVE  Edge(k)
<1>1. k[2] \in Nat /\ MinuteLen \in Nat /\ run.start \in Int
  BY MinutesNat, ConstantTypes DEF IInv, TypeOK
<1>2. CASE k[2] >= run.start /\ ~Full
  <2>1. candles'[k] = OfKey(rawTrades \ fresh, k)
    BY <1>2, UpsertExact
  <2>2. candles[k] \subseteq OfKey(rawTrades \ fresh, k)
    BY DEF IInv, CandleInv, ReadInv, OfKey
  <2>3. QED
    BY <2>1, <2>2 DEF Edge
<1>3. CASE k[2] + MinuteLen <= run.start
  BY <1>3, BehindUntouched DEF Edge
<1>4. CASE Full
  BY <1>4 DEF Edge
<1>5. QED
  BY <1>1, <1>2, <1>3, <1>4 DEF Edge

\* No step, failed or not, takes trades out of a candle whose minute lies
\* wholly in the window or wholly behind it, unless LIMIT cut the read.
THEOREM OnlyTheEdgeShrinks == Spec => ShrinksOnlyAtEdge
<1>1. ASSUME IInv, [Next]_vars
      PROVE  \A k \in Keys : Edge(k)
  <2>1. SUFFICES ASSUME NEW k \in Keys PROVE Edge(k)
    OBVIOUS
  <2>2. CASE Upsert
    BY <1>1, <2>2, WriteCandlesEdge DEF Upsert
  <2>3. CASE RollupAmbiguous
    BY <1>1, <2>3, WriteCandlesEdge DEF RollupAmbiguous
  <2>4. CASE ~Upsert /\ ~RollupAmbiguous
    <3>1. UNCHANGED candles
      BY <1>1, <2>4 DEF Next, StartRun, StartRunFails, Read, RollupFails,
         FinishOk, FinishFailed, FinishRaises, Crash, Insert, Tick, vars, dbVars
    <3>2. QED
      BY <3>1 DEF Edge
  <2>5. QED
    BY <2>2, <2>3, <2>4
<1>2. ASSUME IInv, [Next]_vars
      PROVE  [\A k \in Keys : Edge(k)]_vars
  BY <1>1, <1>2
<1>3. QED
  BY <1>2, Invariance, PTL DEF Spec, ShrinksOnlyAtEdge, Edge

----------------------------------------------------------------------------
(***************************************************************************)
(* The log of runs.                                                        *)
(***************************************************************************)
LogInv ==
  /\ pc \in {"read", "upsert", "ok", "failed"} => run.status = "running"
  /\ pc \in {"read", "upsert", "failed"} \/ run.status = "failed" => touched = {}

LEMMA LogInitInv == Init => LogInv
BY DEF Init, LogInv, NoRun

LEMMA LogNextInv ==
  ASSUME "ambiguousCommit" \notin Faults, TypeOK, LogInv, [Next]_vars
  PROVE  LogInv'
<1>0. run \in [status : {"none", "running", "ok", "failed"}, start : Int,
              read : Nat, written : Nat]
  BY DEF TypeOK
<1>1. CASE StartRun
  BY <1>1 DEF StartRun, LogInv
<1>2. CASE StartRunFails
  BY <1>2 DEF StartRunFails, Sleep, Missed, dbVars, LogInv
<1>3. CASE Read
  BY <1>3 DEF Read, dbVars, LogInv
<1>4. CASE Upsert
  BY <1>4 DEF Upsert, WriteCandles, LogInv
<1>5. CASE RollupFails
  BY <1>5 DEF RollupFails, Missed, dbVars, LogInv
<1>6. CASE RollupAmbiguous
  BY <1>6 DEF RollupAmbiguous
<1>7. CASE FinishOk
  BY <1>0, <1>7 DEF FinishOk, Sleep, history, LogInv
<1>8. CASE FinishFailed
  BY <1>0, <1>8 DEF FinishFailed, Sleep, history, LogInv
<1>9. CASE FinishRaises
  BY <1>9 DEF FinishRaises, Sleep, dbVars, history, LogInv
<1>10. CASE Crash
  BY <1>10 DEF Crash, Missed, dbVars, history, LogInv
<1>11. CASE (\E t \in Trade : Insert(t)) \/ Tick \/ UNCHANGED vars
  BY <1>11 DEF Insert, Tick, vars, dbVars, history, LogInv
<1>12. QED
  BY <1>1, <1>2, <1>3, <1>4, <1>5, <1>6, <1>7, <1>8, <1>9, <1>10, <1>11 DEF Next

\* As long as no commit is ambiguous, a run logged as failed changed nothing.
THEOREM FailedRunsRollBack ==
  ASSUME "ambiguousCommit" \notin Faults
  PROVE  Spec => []FailedWroteNothing
<1>1. TypeOK /\ LogInv /\ [Next]_vars => LogInv'
  BY LogNextInv
<1>2. LogInv => FailedWroteNothing
  BY DEF LogInv, FailedWroteNothing
<1>3. QED
  BY <1>1, <1>2, LogInitInv, TypeCorrect, PTL DEF Spec

----------------------------------------------------------------------------
(***************************************************************************)
(* What an 'ok' row reports.  Between the upsert and the verdict the rows  *)
(* that were read are cut into the candles they were written to, so that   *)
(* the candles' sizes add up to the number of rows; after the verdict no   *)
(* step changes a candle before a new run has replaced the row.            *)
(***************************************************************************)
Counts == [k \in touched |-> Cardinality(candles[k])]

ReportInv ==
  /\ IsFiniteSet(touched)
  /\ pc \in {"read", "upsert", "ok", "failed"} => run.status = "running"
  /\ pc = "ok" =>
       touched = KeysIn(rows) /\ \A k \in touched : candles[k] = OfKey(rows, k)
  /\ run.status = "ok" =>
       run.read = Total(Counts, touched) /\ run.written = Cardinality(touched)

\* Trades and the keys they are spread over are finitely many.
LEMMA RowsFinite ==
  ASSUME NEW B, B \subseteq Trade
  PROVE  /\ IsFiniteSet(B) /\ Cardinality(B) \in Nat
         /\ IsFiniteSet(KeysIn(B))
<1>1. IsFiniteSet(B)
  BY TradeAssumption, FS_Subset
<1> DEFINE key == [t \in B |-> KeyOf(t)]
<1>2. key \in Surjection(B, KeysIn(B))
  BY DEF Surjection, KeysIn
<1>3. QED
  BY <1>1, <1>2, FS_Surjection, FS_CardinalityType

\* trade_count added up over the candles of a set of rows counts each row
\* in exactly one candle.
LEMMA CandlesAddUp ==
  ASSUME NEW B, B \subseteq Trade, NEW w,
         \A k \in KeysIn(B) : w[k] = Cardinality(OfKey(B, k))
  PROVE  Total(w, KeysIn(B)) = Cardinality(B)
<1> DEFINE key == [t \in B |-> KeyOf(t)]
<1>1. IsFiniteSet(B) /\ IsFiniteSet(KeysIn(B))
  BY RowsFinite
<1>2. \A k \in KeysIn(B) : w[k] = Cardinality({t \in B : key[t] = k})
  <2>1. \A k : OfKey(B, k) = {t \in B : key[t] = k}
    BY DEF OfKey
  <2>2. QED
    BY <2>1
<1>3. {t \in B : key[t] \in KeysIn(B)} = B
  BY DEF KeysIn
<1> HIDE DEF key
<1>4. Total(w, KeysIn(B)) = Cardinality({t \in B : key[t] \in KeysIn(B)})
  BY <1>1, <1>2, TotalOfParts
<1>5. QED
  BY <1>3, <1>4

\* The sum of the property is the same fold over the values of a function.
LEMMA CountsTotal ==
  ASSUME TypeOK, IsFiniteSet(touched)
  PROVE  MapThenSumSet(LAMBDA k : Cardinality(candles[k]), touched)
           = Total(Counts, touched)
<1> DEFINE Row(g, s) ==
             IF s = {} THEN 0
             ELSE Cardinality(candles[Picked(s)]) + g[s \ {Picked(s)}]
           c == CHOOSE g : g = [s \in SUBSET touched |-> Row(g, s)]
<1>1. MapThenSumSet(LAMBDA k : Cardinality(candles[k]), touched) = c[touched]
  BY DEF MapThenSumSet, MapThenFoldSet, Picked
<1>2. \A k \in touched : /\ Counts[k] = Cardinality(candles[k])
                         /\ Counts[k] \in Nat
  <2>1. \A k \in touched : candles[k] \subseteq Trade
    BY DEF TypeOK
  <2>2. QED
    BY <2>1, RowsFinite DEF Counts
<1>3. ASSUME NEW g, NEW s \in SUBSET touched
      PROVE  Row(g, s) = SumStep(Counts, g, s)
  BY <1>2, PickedIsElement DEF SumStep
<1>4. PICK g \in [SUBSET touched -> Nat] : IsSum(g, Counts, touched)
  BY <1>2, SumExists
<1>5. g = [s \in SUBSET touched |-> Row(g, s)]
  BY <1>3, <1>4 DEF IsSum
<1>6. c = [s \in SUBSET touched |-> Row(c, s)]
  <2> HIDE DEF Row
  <2>1. QED
    BY <1>5
<1>7. IsSum(c, Counts, touched)
  <2> HIDE DEF Row, c
  <2>1. QED
    BY <1>3, <1>6 DEF IsSum
<1>8. QED
  <2> HIDE DEF Row, c
  <2>1. QED
    BY <1>1, <1>2, <1>7, TotalIsSum

\* A step that leaves the newest row and its candles alone.
LEMMA ReportSame ==
  ASSUME ReportInv, UNCHANGED <<run, candles, touched>>,
         pc' = "ok" => pc = "ok" /\ rows' = rows,
         pc' \in {"read", "upsert", "failed"} =>
           pc \in {"read", "upsert", "failed"}
  PROVE  ReportInv'
<1>1. Counts' = Counts
  BY DEF Counts
<1>2. KeysIn(rows)' = KeysIn(rows') /\ \A k : OfKey(rows, k)' = OfKey(rows', k)
  BY DEF KeysIn, OfKey
<1>3. QED
  BY <1>1 DEF ReportInv

LEMMA ReportNext == TypeOK /\ ReportInv /\ [Next]_vars => ReportInv'
<1> SUFFICES ASSUME TypeOK, ReportInv, [Next]_vars PROVE ReportInv'
  OBVIOUS
<1>0. /\ run \in [status : {"none", "running", "ok", "failed"}, start : Int,
                  read : Nat, written : Nat]
      /\ rows \subseteq Trade
  BY DEF TypeOK
<1>1. CASE StartRun
  BY <1>1, FS_EmptySet DEF StartRun, ReportInv
<1>2. CASE StartRunFails
  BY <1>2, ReportSame DEF StartRunFails, Sleep, Missed, dbVars
<1>3. CASE Read
  BY <1>3, ReportSame DEF Read, dbVars
<1>4. CASE Upsert
  <2>1. /\ touched' = KeysIn(rows) /\ rows' = rows /\ run' = run
        /\ candles' = Upserted(rows) /\ pc' = "ok"
        /\ run.status = "running"
    BY <1>4 DEF Upsert, WriteCandles, ReportInv
  <2>2. touched' \subseteq Keys /\ IsFiniteSet(touched')
    BY <1>0, <2>1, KeyProperties, RowsFinite DEF KeysIn
  <2>3. \A k \in touched' : candles'[k] = OfKey(rows, k)
    BY <2>1, <2>2 DEF Upserted
  <2>4. KeysIn(rows)' = KeysIn(rows) /\ \A k : OfKey(rows, k)' = OfKey(rows, k)
    BY <2>1 DEF KeysIn, OfKey
  <2>5. QED
    BY <2>1, <2>2, <2>3, <2>4 DEF ReportInv
<1>5. CASE RollupFails
  BY <1>5, ReportSame DEF RollupFails, Missed, dbVars
<1>6. CASE RollupAmbiguous
  <2>1. /\ touched' = KeysIn(rows) /\ run' = run /\ pc' = "failed"
        /\ run.status = "running"
    BY <1>6 DEF RollupAmbiguous, WriteCandles, ReportInv
  <2>2. QED
    BY <1>0, <2>1, RowsFinite DEF ReportInv
<1>7. CASE FinishOk
  <2>1. /\ pc = "ok" /\ UNCHANGED <<candles, touched>> /\ pc' = "sleep"
        /\ run' = [run EXCEPT !.status = "ok", !.read = Cardinality(rows),
                              !.written = CandlesIn(rows)]
    BY <1>7 DEF FinishOk, Sleep, history
  <2>2. run'.read = Cardinality(rows) /\ run'.written = Cardinality(KeysIn(rows))
    BY <1>0, <2>1 DEF CandlesIn
  <2>3. /\ touched = KeysIn(rows)
        /\ \A k \in KeysIn(rows) : Counts[k] = Cardinality(OfKey(rows, k))
    BY <2>1 DEF ReportInv, Counts
  <2>4. Total(Counts, touched) = Cardinality(rows)
    BY <1>0, <2>3, CandlesAddUp
  <2>5. Counts' = Counts
    BY <2>1 DEF Counts
  <2>6. QED
    BY <2>1, <2>2, <2>3, <2>4, <2>5 DEF ReportInv
<1>8. CASE FinishFailed
  BY <1>0, <1>8 DEF FinishFailed, Sleep, history, ReportInv
<1>9. CASE FinishRaises
  BY <1>9, ReportSame DEF FinishRaises, Sleep, dbVars, history
<1>10. CASE Crash
  BY <1>10, ReportSame DEF Crash, Missed, dbVars, history
<1>11. CASE (\E t \in Trade : Insert(t)) \/ Tick \/ UNCHANGED vars
  BY <1>11, ReportSame DEF Insert, Tick, vars, dbVars, history
<1>12. QED
  BY <1>1, <1>2, <1>3, <1>4, <1>5, <1>6, <1>7, <1>8, <1>9, <1>10, <1>11 DEF Next

\* The newest run's row, once 'ok', agrees with the candles it left behind,
\* for every window, row limit and failure, and whatever is stored meanwhile.
THEOREM OkRowsAddUp == Spec => []RunRowAddsUp
<1>1. Init => ReportInv
  BY FS_EmptySet DEF Init, ReportInv, NoRun
<1>2. TypeOK /\ ReportInv /\ [Next]_vars => ReportInv'
  BY ReportNext
<1>3. TypeOK /\ ReportInv => RunRowAddsUp
  BY CountsTotal DEF ReportInv, RunRowAddsUp
<1>4. QED
  BY <1>1, <1>2, <1>3, TypeCorrect, PTL DEF Spec

----------------------------------------------------------------------------
(***************************************************************************)
(* Timeliness.  Consecutive runs start at most a Period apart, so after    *)
(* missed runs the next one starts at most missed + 1 periods after the    *)
(* last one that wrote its candles.  A trade still uncounted was stored    *)
(* after that one's start, and happened at most MaxLate before it was      *)
(* stored.  TimeInv states this bound for each step of the process, in     *)
(* terms of the trade alone.                                               *)
(***************************************************************************)
Period == Interval + 2 * MaxDelay
Slack(m) == m * Period

RunStart == run.start + Window

\* The latest time the step at hand can have reached, seen from trade t.
NotTooLate(t) ==
  /\ pc = "sleep" =>
       wake <= TsOf[t] + MaxLate + MaxDelay + Interval + Slack(missed)
  /\ pc \in {"read", "upsert"} =>
       RunStart <= TsOf[t] + MaxLate + Slack(missed + 1)
  /\ pc \in {"ok", "failed"} =>
       RunStart <= TsOf[t] + MaxLate + Slack(missed)

TimeInv ==
  /\ missed <= MaxMissed
  /\ now <= Due
  /\ pc = "sleep" => wake <= now + Interval
  /\ pc # "sleep" => RunStart <= now
  /\ pc = "upsert" => \A t \in fresh : RunStart <= TsOf[t] + MaxLate
  /\ \A t \in rawTrades \ counted : NotTooLate(t)

Types ==
  /\ now \in Nat /\ wake \in Nat /\ missed \in Nat
  /\ run.start \in Int /\ RunStart \in Int /\ Period \in Nat
  /\ now <= MaxTime /\ wake <= MaxTime
  /\ rawTrades \subseteq Trade
  /\ \A t \in Trade : TsOf[t] \in Nat
  /\ pc \in {"sleep", "read", "upsert", "ok", "failed"}

LEMMA TypesHold == TypeOK => Types
<1> SUFFICES ASSUME TypeOK PROVE Types
  OBVIOUS
<1>1. \A t \in Trade : TsOf[t] \in Nat
  BY KeyProperties
<1>2. QED
  BY <1>1, ConstantTypes DEF TypeOK, Types, RunStart, Period

LEMMA SlackProperties ==
  ASSUME NEW m \in Nat
  PROVE  /\ Slack(m) \in Nat
         /\ Slack(m + 1) = Slack(m) + Period
         /\ m <= MaxMissed => Slack(m + 1) <= Slack(MaxMissed + 1)
<1>1. Period \in Nat /\ MaxMissed \in Nat
  BY ConstantTypes DEF Period
<1>2. Slack(m) \in Nat
  BY <1>1 DEF Slack
<1>3. Slack(m + 1) = Slack(m) + Period
  BY <1>1 DEF Slack
<1>4. m <= MaxMissed => Slack(m + 1) <= Slack(MaxMissed + 1)
  <2>1. SUFFICES ASSUME NEW d \in Nat, MaxMissed = m + d
                 PROVE  Slack(m + 1) <= Slack(MaxMissed + 1)
    <3>1. m <= MaxMissed => MaxMissed - m \in Nat /\ MaxMissed = m + (MaxMissed - m)
      BY <1>1
    <3>2. QED
      BY <3>1
  <2>2. d * Period \in Nat
    BY <1>1
  <2>3. (m + d + 1) * Period = (m + 1) * Period + d * Period
    BY <1>1
  <2>4. (m + 1) * Period \in Nat
    BY <1>1
  <2>5. QED
    BY <2>1, <2>2, <2>3, <2>4 DEF Slack
<1>5. QED
  BY <1>2, <1>3, <1>4

\* What NoTradeSkipped says, at the read and at the upsert.
LEMMA WindowReaches ==
  ASSUME Types, TimeInv, Window >= ReachBack, pc \in {"read", "upsert"},
         NEW t \in rawTrades \ counted
  PROVE  TsOf[t] >= run.start
<1>1. RunStart <= TsOf[t] + MaxLate + Slack(missed + 1)
  BY DEF TimeInv, NotTooLate
<1>2. Slack(missed + 1) <= Slack(MaxMissed + 1)
  BY SlackProperties DEF Types, TimeInv
<1>3. ReachBack = MaxLate + Slack(MaxMissed + 1)
  BY DEF ReachBack, Slack, Period
<1>4. Slack(missed + 1) \in Nat /\ Slack(MaxMissed + 1) \in Nat
  BY SlackProperties, ConstantTypes DEF Types
<1>5. TsOf[t] \in Nat /\ run.start \in Int
  BY DEF Types
<1>6. QED
  BY <1>1, <1>2, <1>3, <1>4, <1>5, ConstantTypes DEF RunStart

\* On time, a miss is one more miss.
LEMMA MissedOnTime ==
  ASSUME Types, TimeInv, Missed, OnTime
  PROVE  /\ missed' = missed + 1 /\ missed' <= MaxMissed
         /\ counted' = counted /\ fresh' = fresh
         /\ Slack(missed') = Slack(missed) + Period
<1>1. missed' = missed + 1
  BY ConstantTypes DEF Types, TimeInv, Missed
<1>2. Slack(missed + 1) = Slack(missed) + Period
  BY SlackProperties DEF Types
<1>3. QED
  BY <1>1, <1>2 DEF Missed, OnTime

\* After a sleep begins, before the end of time.
LEMMA SleepOnTime ==
  ASSUME Types, Sleep
  PROVE  /\ pc' = "sleep"
         /\ wake' \in Nat /\ wake' <= now + Interval
         /\ now <= wake' + MaxDelay
BY ConstantTypes DEF Types, Sleep

\* The process is asleep: what remains to be shown of TimeInv.
LEMMA AsleepOnTime ==
  ASSUME pc' = "sleep", missed' <= MaxMissed, now' <= wake' + MaxDelay,
         wake' <= now' + Interval, wake' \in Nat,
         \A t \in rawTrades' \ counted' :
           wake' <= TsOf[t] + MaxLate + MaxDelay + Interval + Slack(missed')
  PROVE  TimeInv'
<1>1. now' <= Due'
  BY ConstantTypes DEF Due
<1>2. QED
  BY <1>1 DEF TimeInv, NotTooLate

LEMMA TimeInit == Init => TimeInv
<1> SUFFICES ASSUME Init PROVE TimeInv
  OBVIOUS
<1>1. now <= Due
  BY ConstantTypes DEF Init, Due
<1>2. QED
  BY <1>1, ConstantTypes DEF Init, TimeInv

\* Falling asleep, from each of the steps that can.
LEMMA AsleepNext ==
  ASSUME Types, Types', TimeInv, OnTime,
         StartRunFails \/ FinishOk \/ FinishFailed \/ FinishRaises \/ Crash
  PROVE  TimeInv'
<1> DEFINE Late(w, t, m) ==
      w <= TsOf[t] + MaxLate + MaxDelay + Interval + Slack(m)
<1>0. Slack(missed) \in Nat /\ Slack(missed + 1) = Slack(missed) + Period
  BY SlackProperties DEF Types
<1>1. CASE StartRunFails
  <2>1. Sleep /\ Missed /\ pc = "sleep" /\ UNCHANGED <<now, rawTrades>>
    BY <1>1 DEF StartRunFails, dbVars
  <2>2. /\ missed' <= MaxMissed /\ counted' = counted
        /\ Slack(missed') = Slack(missed) + Period
    BY <2>1, MissedOnTime
  <2>3. /\ pc' = "sleep" /\ wake' \in Nat /\ wake' <= now + Interval
        /\ now <= wake' + MaxDelay
    BY <2>1, SleepOnTime
  <2>4. now <= wake + MaxDelay
    BY <2>1, ConstantTypes DEF TimeInv, Due, Types
  <2>5. ASSUME NEW t \in rawTrades \ counted PROVE Late(wake', t, missed')
    <3>1. Late(wake, t, missed) /\ TsOf[t] \in Nat
      BY <2>1 DEF TimeInv, NotTooLate, Types
    <3>2. QED
      BY <1>0, <2>2, <2>3, <2>4, <3>1, ConstantTypes DEF Types, Period
  <2>6. QED
    BY <2>1, <2>2, <2>3, <2>5, AsleepOnTime
<1>2. CASE FinishOk \/ FinishFailed \/ FinishRaises
  <2>1. /\ Sleep /\ pc \in {"ok", "failed"}
        /\ UNCHANGED <<now, rawTrades, counted, missed>>
    BY <1>2 DEF FinishOk, FinishFailed, FinishRaises, dbVars, history
  <2>2. /\ pc' = "sleep" /\ wake' \in Nat /\ wake' <= now + Interval
        /\ now <= wake' + MaxDelay
    BY <2>1, SleepOnTime
  <2>3. now <= RunStart + MaxDelay /\ missed <= MaxMissed
    BY <2>1, ConstantTypes DEF TimeInv, Due, Types, RunStart
  <2>4. ASSUME NEW t \in rawTrades \ counted PROVE Late(wake', t, missed')
    <3>1. RunStart <= TsOf[t] + MaxLate + Slack(missed) /\ TsOf[t] \in Nat
      BY <2>1 DEF TimeInv, NotTooLate, Types
    <3>2. QED
      BY <1>0, <2>1, <2>2, <2>3, <3>1, ConstantTypes DEF Types
  <2>5. QED
    BY <2>1, <2>2, <2>3, <2>4, AsleepOnTime
<1>3. CASE Crash
  <2>1. pc' = "sleep" /\ wake' = now /\ UNCHANGED <<now, rawTrades>>
    BY <1>3 DEF Crash, dbVars
  <2>2. /\ Pending => missed' <= MaxMissed /\ Slack(missed') = Slack(missed) + Period
        /\ ~Pending => missed' = missed /\ missed' <= MaxMissed
        /\ counted' = counted
    BY <1>3, MissedOnTime DEF Crash, history, TimeInv
  <2>3. ASSUME NEW t \in rawTrades \ counted PROVE Late(wake', t, missed')
    <3>0. TsOf[t] \in Nat /\ NotTooLate(t)
      BY DEF TimeInv, Types
    <3>1. CASE pc = "sleep" /\ Pending
      <4>1. now <= wake + MaxDelay /\ Late(wake, t, missed)
        BY <3>0, <3>1, ConstantTypes DEF TimeInv, Due, NotTooLate, Types
      <4>2. QED
        BY <1>0, <2>1, <2>2, <3>0, <3>1, <4>1, ConstantTypes DEF Types, Period
    <3>2. CASE pc = "sleep" /\ ~Pending
      <4>1. now < wake /\ Late(wake, t, missed)
        BY <3>0, <3>2, ConstantTypes DEF Pending, NotTooLate, Types
      <4>2. QED
        BY <1>0, <2>1, <2>2, <3>0, <3>2, <4>1, ConstantTypes DEF Types
    <3>3. CASE pc \in {"read", "upsert"}
      <4>1. /\ now <= RunStart + MaxDelay
            /\ RunStart <= TsOf[t] + MaxLate + Slack(missed + 1)
        BY <3>0, <3>3, ConstantTypes DEF TimeInv, Due, NotTooLate, Types, RunStart
      <4>2. Pending
        BY <3>3 DEF Pending
      <4>3. QED
        BY <1>0, <2>1, <2>2, <3>0, <4>1, <4>2, ConstantTypes DEF Types
    <3>4. CASE pc \in {"ok", "failed"}
      <4>1. /\ now <= RunStart + MaxDelay
            /\ RunStart <= TsOf[t] + MaxLate + Slack(missed)
        BY <3>0, <3>4, ConstantTypes DEF TimeInv, Due, NotTooLate, Types, RunStart
      <4>2. ~Pending
        BY <3>4 DEF Pending
      <4>3. QED
        BY <1>0, <2>1, <2>2, <3>0, <4>1, <4>2, ConstantTypes DEF Types
    <3>5. pc \in {"sleep", "read", "upsert", "ok", "failed"}
      BY DEF Types
    <3>6. QED
      BY <3>1, <3>2, <3>3, <3>4, <3>5
  <2>4. /\ missed' <= MaxMissed /\ now' <= wake' + MaxDelay
        /\ wake' <= now' + Interval /\ wake' \in Nat
    BY <2>1, <2>2, ConstantTypes DEF Types
  <2>5. QED
    BY <2>1, <2>2, <2>3, <2>4, AsleepOnTime
<1>4. QED
  BY <1>1, <1>2, <1>3

\* A commit counts every trade the run can have been late for: what it did
\* not read was stored after its start.
LEMMA CommitNext ==
  ASSUME TypeOK, ReadInv, Types, TimeInv, Window >= ReachBack,
         Cardinality(Trade) < MaxRows,
         pc = "upsert", pc' \in {"ok", "failed"}, WriteCandles
  PROVE  TimeInv'
<1>1. /\ missed' = 0 /\ counted' = counted \cup rows
      /\ UNCHANGED <<now, rawTrades, run, wake, fresh>>
  BY DEF WriteCandles
<1>2. ~Full
  <2>1. IsFiniteSet(Trade) /\ rows \subseteq Trade
    BY TradeAssumption DEF TypeOK
  <2>2. Cardinality(rows) <= Cardinality(Trade)
        /\ Cardinality(rows) \in Nat /\ Cardinality(Trade) \in Nat
    BY <2>1, FS_Subset, FS_CardinalityType
  <2>3. QED
    BY <2>2, ConstantTypes DEF Full
<1>3. rows = Snapshot
  BY <1>2 DEF ReadInv
<1>4. ASSUME NEW t \in rawTrades \ counted'
      PROVE  RunStart <= TsOf[t] + MaxLate + Slack(0)
  <2>1. t \in rawTrades \ counted /\ t \notin rows
    BY <1>1
  <2>2. TsOf[t] >= run.start
    BY <2>1, WindowReaches
  <2>3. t \in fresh
    BY <1>3, <2>1, <2>2 DEF Snapshot
  <2>4. RunStart <= TsOf[t] + MaxLate /\ TsOf[t] \in Nat
    BY <2>1, <2>3 DEF TimeInv, Types
  <2>5. Slack(0) \in Nat
    BY SlackProperties
  <2>6. QED
    BY <2>4, <2>5, ConstantTypes DEF Types
<1>5. now' <= Due' /\ missed' <= MaxMissed /\ RunStart' <= now'
  BY <1>1, ConstantTypes DEF TimeInv, Due, RunStart
<1>6. QED
  BY <1>1, <1>4, <1>5 DEF TimeInv, NotTooLate, RunStart

LEMMA TimeNext ==
  ASSUME TypeOK, TypeOK', ReadInv, TimeInv, Next, OnTime,
         Window >= ReachBack, Cardinality(Trade) < MaxRows
  PROVE  TimeInv'
<1>0. Types /\ Types'
  <2>1. Types
    BY TypesHold
  <2>2. ASSUME NEW t \in Trade PROVE TsOf[t] \in Nat
    BY KeyProperties
  <2>3. Types'
    BY <2>2, ConstantTypes DEF TypeOK, Types, RunStart, Period
  <2>4. QED
    BY <2>1, <2>3
<1>1. Slack(missed) \in Nat /\ Slack(missed + 1) = Slack(missed) + Period
      /\ Slack(missed + 1) \in Nat
  BY <1>0, SlackProperties DEF Types
<1>2. CASE StartRun
  <2>1. /\ pc = "sleep" /\ pc' = "read" /\ RunStart' = now
        /\ UNCHANGED <<now, rawTrades, counted, missed, fresh>>
    BY <1>0, <1>2, ConstantTypes DEF StartRun, RunStart, WindowStart, Types
  <2>2. now <= wake + MaxDelay
    BY <1>0, <2>1, ConstantTypes DEF TimeInv, Due, Types
  <2>3. ASSUME NEW t \in rawTrades \ counted
        PROVE  now <= TsOf[t] + MaxLate + Slack(missed + 1)
    <3>1. wake <= TsOf[t] + MaxLate + MaxDelay + Interval + Slack(missed)
          /\ TsOf[t] \in Nat
      BY <1>0, <2>1 DEF TimeInv, NotTooLate, Types
    <3>2. QED
      BY <1>0, <1>1, <2>2, <3>1, ConstantTypes DEF Types, Period
  <2>4. now' <= Due'
    BY <1>0, <2>1, ConstantTypes DEF Due, RunStart, Types
  <2>5. QED
    BY <1>0, <2>1, <2>3, <2>4 DEF TimeInv, NotTooLate, Types
<1>3. CASE Read
  <2>1. /\ pc = "read" /\ pc' = "upsert" /\ fresh' = {}
        /\ UNCHANGED <<now, rawTrades, run, wake, counted, missed>>
    BY <1>3 DEF Read, dbVars
  <2>2. QED
    BY <2>1 DEF TimeInv, NotTooLate, Due, RunStart
<1>4. CASE Upsert
  BY <1>0, <1>4, CommitNext DEF Upsert
<1>5. CASE RollupFails
  <2>1. /\ pc \in {"read", "upsert"} /\ pc' = "failed"
        /\ UNCHANGED <<now, rawTrades, run, wake>> /\ Missed
    BY <1>5 DEF RollupFails, dbVars
  <2>2. missed' = missed + 1 /\ missed' <= MaxMissed /\ counted' = counted
    BY <1>0, <2>1, MissedOnTime
  <2>3. QED
    BY <2>1, <2>2 DEF TimeInv, NotTooLate, Due, RunStart
<1>6. CASE RollupAmbiguous
  BY <1>0, <1>6, CommitNext DEF RollupAmbiguous
<1>7. CASE StartRunFails \/ FinishOk \/ FinishFailed \/ FinishRaises \/ Crash
  BY <1>0, <1>7, AsleepNext
<1>8. CASE \E t \in Trade : Insert(t)
  <2>1. PICK t \in Trade : Insert(t)
    BY <1>8
  <2>2. /\ now <= TsOf[t] + MaxLate /\ TsOf[t] \in Nat
        /\ rawTrades' = rawTrades \cup {t} /\ fresh' = fresh \cup {t}
        /\ UNCHANGED <<now, run, pc, wake, counted, missed>>
    BY <1>0, <2>1 DEF Insert, Types
  <2>3. NotTooLate(t)
    BY <1>0, <1>1, <2>2, ConstantTypes DEF TimeInv, NotTooLate, Types
  <2>4. pc = "upsert" => \A u \in fresh' : RunStart <= TsOf[u] + MaxLate
    BY <1>0, <2>2, ConstantTypes DEF TimeInv, Types
  <2>5. \A u \in rawTrades' \ counted' : NotTooLate(u)
    BY <2>2, <2>3 DEF TimeInv
  <2>6. QED
    BY <2>2, <2>4, <2>5 DEF TimeInv, NotTooLate, Due, RunStart
<1>9. CASE Tick
  <2>1. now' = now + 1 /\ UNCHANGED <<rawTrades, run, pc, wake, fresh, counted, missed>>
    BY <1>9 DEF Tick, dbVars, history
  <2>2. Due' = Due /\ Due \in Int
    BY <1>0, <2>1, ConstantTypes DEF Due, Types
  <2>3. now < Due
    BY <1>0, <2>1, <2>2 DEF OnTime, Types
  <2>4. /\ now' <= Due'
        /\ pc = "sleep" => wake <= now' + Interval
        /\ pc # "sleep" => RunStart <= now'
    BY <1>0, <2>1, <2>2, <2>3, ConstantTypes DEF TimeInv, Types
  <2>5. QED
    BY <2>1, <2>4 DEF TimeInv, NotTooLate, RunStart
<1>10. QED
  BY <1>2, <1>3, <1>4, <1>5, <1>6, <1>7, <1>8, <1>9 DEF Next

\* Runs that wake up and end on time, with at most MaxMissed misses in a row,
\* read every stored trade before it leaves the window, as soon as the window
\* is as wide as ReachBack and LIMIT is never reached.
THEOREM NoTradeIsSkipped ==
  ASSUME Window >= ReachBack, Cardinality(Trade) < MaxRows
  PROVE  TimelySpec => []NoTradeSkipped
<1>1. Init => IInv /\ TimeInv
  BY InitInv, TimeInit
<1>2. ASSUME IInv /\ TimeInv, [Next /\ OnTime]_vars
      PROVE  (IInv /\ TimeInv)'
  <2>1. IInv'
    BY <1>2, NextInv
  <2>2. CASE Next /\ OnTime
    BY <1>2, <2>1, <2>2, TimeNext DEF IInv
  <2>3. CASE UNCHANGED vars
    <3>1. UNCHANGED <<now, rawTrades, run, pc, wake, fresh, counted, missed>>
      BY <2>3 DEF vars, dbVars, history
    <3>2. Due' = Due /\ RunStart' = RunStart
      BY <3>1 DEF Due, RunStart
    <3>3. TimeInv'
      BY <1>2, <3>1, <3>2 DEF TimeInv, NotTooLate
    <3>4. QED
      BY <2>1, <3>3
  <2>4. QED
    BY <1>2, <2>1, <2>2, <2>3
<1>3. ASSUME IInv, TimeInv PROVE NoTradeSkipped
  BY <1>3, TypesHold, WindowReaches DEF IInv, NoTradeSkipped
<1>4. QED
  BY <1>1, <1>2, <1>3, PTL DEF TimelySpec

=============================================================================

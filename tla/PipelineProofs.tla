--------------------------- MODULE PipelineProofs ---------------------------
(***************************************************************************)
(* Theorems about PipelinePage: what the page's verdict on the rollup is   *)
(* worth, for every grace and every constant of Rollup.                    *)
(***************************************************************************)
EXTENDS PipelinePage, RollupProofs

----------------------------------------------------------------------------
(***************************************************************************)
(* Lemmas about the operators of the model.                                *)
(***************************************************************************)
\* Max returns the greatest element of a bounded set of naturals: the one
\* that is nearest to the bound.
LEMMA MaxOfBounded ==
  ASSUME NEW S, S \subseteq Nat, S # {}, NEW b \in Nat, \A y \in S : y <= b
  PROVE  Max(S) \in S /\ \A y \in S : y <= Max(S)
<1> DEFINE Gaps == {b - y : y \in S}
<1>1. Gaps \subseteq Nat /\ Gaps # {}
  <2>1. \A y \in S : b - y \in Nat
    OBVIOUS
  <2>2. QED
    BY <2>1
<1>2. PICK g \in Gaps : \A h \in Gaps : ~(<<h, g>> \in OpToRel(<, Nat))
  BY <1>1, WFMin, NatLessThanWellFounded
<1>3. PICK x \in S : g = b - x
  BY <1>2
<1>4. ASSUME NEW y \in S PROVE x >= y
  <2>1. b - y \in Gaps /\ b - y \in Nat /\ g \in Nat
    BY <1>1, <1>2
  <2>2. ~(b - y < g)
    BY <1>2, <2>1 DEF OpToRel
  <2>3. QED
    BY <1>3, <2>2
<1>5. QED
  BY <1>4 DEF Max

\* Candles are of minutes that begin before the clock stops.
LEMMA MinutesBounded == \A k \in Keys : k[2] \in Nat /\ k[2] <= MaxTime
<1>1. SUFFICES ASSUME NEW ts \in 0..MaxTime
               PROVE  Floor(ts) \in Nat /\ Floor(ts) <= MaxTime
  BY DEF Keys, Minutes
<1>2. ts \in Nat /\ ts <= MaxTime
  BY ConstantTypes
<1>3. QED
  BY <1>2, FloorBounds, ConstantTypes

\* The newest minute is that of some candle, and no candle has a newer one.
LEMMA NewestMinuteIs ==
  /\ NewestMinute # Never =>
       \E k \in Keys : candles[k] # {} /\ k[2] = NewestMinute
  /\ \A k \in Keys : candles[k] # {} =>
       NewestMinute \in Nat /\ k[2] <= NewestMinute
<1> DEFINE minutes == {k[2] : k \in {j \in Keys : candles[j] # {}}}
<1>1. minutes \subseteq Nat /\ \A m \in minutes : m <= MaxTime
  BY MinutesBounded
<1>2. CASE minutes = {}
  BY <1>2 DEF NewestMinute
<1>3. CASE minutes # {}
  <2>1. Max(minutes) \in minutes /\ \A m \in minutes : m <= Max(minutes)
    BY <1>1, <1>3, MaxOfBounded, ConstantTypes
  <2>2. NewestMinute = Max(minutes)
    BY <1>3 DEF NewestMinute
  <2>3. QED
    BY <1>1, <2>1, <2>2
<1>4. QED
  BY <1>2, <1>3

----------------------------------------------------------------------------
(***************************************************************************)
(* The rollup under the page.                                              *)
(***************************************************************************)
\* Every step of the composition is one of the rollup, or none of its own.
LEMMA PageStepIsRollupStep == [PageNext]_pipelineVars => [Next]_vars
BY DEF PageNext, PipelineStep, ReadRun, ReadCandles, pipelineVars

\* The page does not disturb the rollup: with it, the rollup behaves as it
\* does alone, so that all that is proved of Rollup holds here.
THEOREM PageOnlyReads == PageSpec => Spec
<1>1. PageInit => Init
  BY DEF PageInit
<1>2. QED
  BY <1>1, PageStepIsRollupStep, PTL DEF PageSpec, Spec

\* Only the two commits write candles.
LEMMA OnlyCommitsWrite ==
  ASSUME Next, ~Upsert, ~RollupAmbiguous
  PROVE  UNCHANGED <<candles, counted>>
BY DEF Next, StartRun, StartRunFails, Read, RollupFails, FinishOk, FinishFailed,
       FinishRaises, Crash, Insert, Tick, Missed, dbVars, history

\* The clock does not go back, and trades are stored after they happened.
LEMMA TradesPast ==
  ASSUME TypeOK, Next
  PROVE  /\ now' >= now
         /\ \A t \in rawTrades' \ rawTrades : TsOf[t] <= now
<1>1. now \in Nat
  BY ConstantTypes DEF TypeOK
<1>2. QED
  BY <1>1 DEF Next, StartRun, StartRunFails, Read, Upsert, RollupFails,
     RollupAmbiguous, WriteCandles, FinishOk, FinishFailed, FinishRaises,
     Crash, Insert, Tick, dbVars, history

----------------------------------------------------------------------------
(***************************************************************************)
(* A dead rollup.  A candle in the table was committed after its minute    *)
(* began, since it was built from trades that had happened.                *)
(***************************************************************************)
PastInv == \A t \in rawTrades : TsOf[t] <= now

CommitInv ==
  /\ committedAt \in Int /\ Never <= committedAt /\ committedAt <= now
  /\ \A k \in Keys : candles[k] # {} => k[2] <= committedAt

SawInv == saw \in {"unread", "none", "running", "ok", "failed"}

PageInv == IInv /\ PastInv /\ CommitInv /\ SawInv

LEMMA PageInvInit == PageInit => PageInv
<1> SUFFICES ASSUME PageInit PROVE PageInv
  OBVIOUS
<1>1. IInv
  BY InitInv DEF PageInit
<1>2. QED
  BY <1>1 DEF PageInit, Init, Never, PageInv, PastInv, CommitInv, SawInv

\* What a commit leaves in a candle has happened by now.
LEMMA CommittedCandlesPast ==
  ASSUME PastInv, CandleInv', UNCHANGED <<now, rawTrades>>, TypeOK,
         NEW k \in Keys, candles'[k] # {}
  PROVE  k[2] <= now
<1>1. PICK t \in candles'[k] : t \in rawTrades /\ KeyOf(t) = k
  BY DEF CandleInv, OfKey
<1>2. t \in Trade /\ TsOf[t] <= now /\ now \in Nat
  BY <1>1, ConstantTypes DEF PastInv, TypeOK
<1>3. QED
  BY <1>1, <1>2, KeyProperties

LEMMA PageInvNext == PageInv /\ [PageNext]_pipelineVars => PageInv'
<1> SUFFICES ASSUME PageInv, [PageNext]_pipelineVars PROVE PageInv'
  OBVIOUS
<1>1. IInv'
  BY PageStepIsRollupStep, NextInv DEF PageInv
<1>2. TypeOK /\ now \in Nat /\ CandleInv'
  BY <1>1, ConstantTypes DEF PageInv, IInv, TypeOK
<1>3. CASE PipelineStep
  <2>1. Next /\ UNCHANGED saw
    BY <1>3 DEF PipelineStep
  <2>2. now' \in Nat /\ now' >= now
    BY <1>1, <1>2, <2>1, TradesPast, ConstantTypes DEF IInv, TypeOK
  <2>3. PastInv'
    <3>1. ASSUME NEW t \in rawTrades' PROVE TsOf[t] <= now /\ TsOf[t] \in Nat
      <4>1. t \in Trade
        BY <1>1 DEF IInv, TypeOK
      <4>2. QED
        BY <1>2, <2>1, <4>1, TradesPast, KeyProperties DEF PageInv, PastInv
    <3>2. QED
      BY <1>2, <2>2, <3>1 DEF PastInv
  <2>4. CASE Upsert \/ RollupAmbiguous
    <3>1. UNCHANGED <<now, rawTrades>> /\ committedAt' = now
      BY <1>3, <2>4 DEF PipelineStep, Upsert, RollupAmbiguous, WriteCandles
    <3>2. CommitInv'
      BY <1>2, <3>1, CommittedCandlesPast DEF PageInv, CommitInv, Never
    <3>3. QED
      BY <1>1, <2>1, <2>3, <3>2 DEF PageInv, SawInv
  <2>5. CASE ~Upsert /\ ~RollupAmbiguous
    <3>1. UNCHANGED <<candles, committedAt>>
      BY <1>3, <2>1, <2>5, OnlyCommitsWrite DEF PipelineStep
    <3>2. CommitInv'
      BY <1>2, <2>2, <3>1 DEF PageInv, CommitInv
    <3>3. QED
      BY <1>1, <2>1, <2>3, <3>2 DEF PageInv, SawInv
  <2>6. QED
    BY <2>4, <2>5
<1>4. CASE ReadRun \/ ReadCandles \/ UNCHANGED pipelineVars
  <2>1. UNCHANGED <<now, rawTrades, candles, committedAt>>
    BY <1>4 DEF ReadRun, ReadCandles, pipelineVars, vars, dbVars
  <2>2. SawInv'
    BY <1>2, <1>4 DEF ReadRun, ReadCandles, pipelineVars, PageInv, SawInv, TypeOK
  <2>3. QED
    BY <1>1, <2>1, <2>2 DEF PageInv, PastInv, CommitInv
<1>5. QED
  BY <1>3, <1>4 DEF PageNext

LEMMA PageInvariance == PageSpec => []PageInv
BY PageInvInit, PageInvNext, PTL DEF PageSpec

\* Every variable keeps its type while the page reads.
THEOREM PageTypeCorrect == PageSpec => []PageTypeOK
<1>1. PageInv => PageTypeOK
  BY ConstantTypes DEF PageInv, IInv, CommitInv, SawInv, PageTypeOK, Never, TypeOK
<1>2. QED
  BY <1>1, PageInvariance, PTL

\* While trades arrive, a rollup that has committed no candles within the
\* grace is never called up to date: what the page read, in whichever order
\* with the rollup's steps, shows it.
THEOREM DeadRollupShows == PageSpec => []DeadRollupIsNoticed
<1>1. ASSUME PageInv PROVE DeadRollupIsNoticed
  <2>1. SUFFICES ASSUME NEW at \in 0..now, TradesFlowing(at),
                        RollupVerdict(at) = "upToDate"
                 PROVE  committedAt # Never /\ now - committedAt <= Grace
    BY DEF DeadRollupIsNoticed
  <2>2. NewestMinute # Never /\ ~(now - NewestMinute > Grace)
    BY <2>1 DEF RollupVerdict, CandlesBehind
  <2>3. PICK k \in Keys : candles[k] # {} /\ k[2] = NewestMinute
    BY <2>2, NewestMinuteIs
  <2>4. /\ k[2] \in Nat /\ k[2] <= committedAt
        /\ committedAt \in Int /\ now \in Nat /\ Grace \in Nat
    BY <1>1, <2>3, MinutesNat, ConstantTypes, GraceAssumption
       DEF PageInv, IInv, CommitInv, TypeOK
  <2>5. QED
    BY <2>2, <2>3, <2>4 DEF Never
<1>2. QED
  BY <1>1, PageInvariance, PTL

----------------------------------------------------------------------------
(***************************************************************************)
(* A rollup that is on time.  A trade is counted within CountedWithin      *)
(* (TimeInv), and from then on its minute has a candle.                    *)
(***************************************************************************)
CountedInv == \A t \in counted : candles[KeyOf(t)] # {}

LEMMA CountedNext ==
  ASSUME TypeOK, CountedInv, [Next]_vars
  PROVE  CountedInv'
<1>1. CASE Upsert \/ RollupAmbiguous
  <2>1. candles' = Upserted(rows) /\ counted' = counted \cup rows
    BY <1>1 DEF Upsert, RollupAmbiguous, WriteCandles
  <2>2. ASSUME NEW t \in counted' PROVE candles'[KeyOf(t)] # {}
    <3>1. t \in Trade /\ KeyOf(t) \in Keys
      BY <2>1, KeyProperties DEF TypeOK
    <3>2. candles'[KeyOf(t)] = IF KeyOf(t) \in KeysIn(rows)
                               THEN OfKey(rows, KeyOf(t)) ELSE candles[KeyOf(t)]
      BY <2>1, <3>1 DEF Upserted
    <3>3. CASE KeyOf(t) \in KeysIn(rows)
      BY <3>2, <3>3 DEF KeysIn, OfKey
    <3>4. CASE KeyOf(t) \notin KeysIn(rows)
      BY <2>1, <3>2, <3>4 DEF KeysIn, CountedInv
    <3>5. QED
      BY <3>3, <3>4
  <2>3. QED
    BY <2>2 DEF CountedInv
<1>2. CASE Next /\ ~Upsert /\ ~RollupAmbiguous
  BY <1>2, OnlyCommitsWrite DEF CountedInv
<1>3. CASE UNCHANGED vars
  BY <1>3 DEF vars, dbVars, history, CountedInv
<1>4. QED
  BY <1>1, <1>2, <1>3

\* A trade not counted yet is at most CountedWithin old.
LEMMA UncountedIsRecent ==
  ASSUME Types, TimeInv, NEW t \in rawTrades \ counted
  PROVE  now <= TsOf[t] + CountedWithin
<1>1. /\ Slack(missed) \in Nat /\ Slack(missed + 1) = Slack(missed) + Period
      /\ Slack(missed + 1) <= Slack(MaxMissed + 1)
  BY SlackProperties DEF Types, TimeInv
<1>2. ReachBack = MaxLate + Slack(MaxMissed + 1) /\ Slack(MaxMissed + 1) \in Nat
  BY SlackProperties, ConstantTypes DEF ReachBack, Slack, Period
<1>3. /\ TsOf[t] \in Nat /\ now \in Nat /\ wake \in Nat
      /\ RunStart \in Int /\ Period \in Nat
  BY DEF Types
<1>4. NotTooLate(t) /\ now <= Due
  BY DEF TimeInv
<1>5. CASE pc = "sleep"
  <2>1. now <= wake + MaxDelay
    BY <1>3, <1>4, <1>5, ConstantTypes DEF Due
  <2>2. wake <= TsOf[t] + MaxLate + MaxDelay + Interval + Slack(missed)
    BY <1>4, <1>5 DEF NotTooLate
  <2>3. QED
    BY <1>1, <1>2, <1>3, <2>1, <2>2, ConstantTypes DEF CountedWithin, Period
<1>6. CASE pc # "sleep"
  <2>1. now <= RunStart + MaxDelay
    BY <1>3, <1>4, <1>6, ConstantTypes DEF Due, RunStart
  <2>2. RunStart <= TsOf[t] + MaxLate + Slack(missed + 1)
    <3>1. pc \in {"read", "upsert"} \/ pc \in {"ok", "failed"}
      BY <1>6 DEF Types
    <3>2. CASE pc \in {"read", "upsert"}
      BY <1>4, <3>2 DEF NotTooLate
    <3>3. CASE pc \in {"ok", "failed"}
      <4>1. RunStart <= TsOf[t] + MaxLate + Slack(missed)
        BY <1>4, <3>3 DEF NotTooLate
      <4>2. QED
        BY <1>1, <1>3, <4>1, ConstantTypes
    <3>4. QED
      BY <3>1, <3>2, <3>3
  <2>3. QED
    BY <1>1, <1>2, <1>3, <2>1, <2>2, ConstantTypes DEF CountedWithin
<1>7. QED
  BY <1>5, <1>6

\* A rollup that is on time, with a window as wide as ReachBack and a LIMIT
\* that is not reached, is called behind only for trades that it had no time
\* to count or whose minute began before the grace.
THEOREM BehindMeansBehind ==
  ASSUME Window >= ReachBack, Cardinality(Trade) < MaxRows
  PROVE  TimelyPageSpec => []BehindIsReal
<1> DEFINE Inv == IInv /\ TimeInv /\ CountedInv
<1>1. PageInit => Inv
  <2>1. Init => CountedInv
    BY DEF Init, CountedInv
  <2>2. QED
    BY <2>1, InitInv, TimeInit DEF PageInit
<1>2. ASSUME Inv, [PageNext /\ OnTime]_pipelineVars PROVE Inv'
  <2>1. [Next]_vars
    BY <1>2, PageStepIsRollupStep
  <2>2. IInv' /\ CountedInv'
    BY <1>2, <2>1, NextInv, CountedNext DEF IInv
  <2>3. CASE Next /\ OnTime
    BY <1>2, <2>2, <2>3, TimeNext DEF IInv
  <2>4. CASE UNCHANGED vars
    <3>1. UNCHANGED <<now, rawTrades, run, pc, wake, fresh, counted, missed>>
      BY <2>4 DEF vars, dbVars, history
    <3>2. Due' = Due /\ RunStart' = RunStart
      BY <3>1 DEF Due, RunStart
    <3>3. TimeInv'
      BY <1>2, <3>1, <3>2 DEF TimeInv, NotTooLate
    <3>4. QED
      BY <2>2, <3>3
  <2>5. (Next /\ OnTime) \/ UNCHANGED vars
    BY <1>2 DEF PageNext, PipelineStep, ReadRun, ReadCandles, pipelineVars
  <2>6. QED
    BY <2>3, <2>4, <2>5
<1>3. ASSUME Inv PROVE BehindIsReal
  <2>1. SUFFICES ASSUME NEW at \in 0..now, NEW t \in rawTrades,
                        RollupVerdict(at) = "behind",
                        TsOf[t] + CountedWithin < now
                 PROVE  now - Floor(TsOf[t]) > Grace
    BY DEF BehindIsReal
  <2>2. Types /\ t \in Trade
    BY <1>3, TypesHold DEF IInv, TypeOK
  <2>3. t \in counted
    <3>1. CountedWithin \in Nat /\ TsOf[t] \in Nat /\ now \in Nat
      <4>1. (MaxMissed + 1) * (Interval + 2 * MaxDelay) \in Nat
        BY ConstantTypes
      <4>2. QED
        BY <2>2, <4>1, ConstantTypes DEF CountedWithin, ReachBack, Types
    <3>2. QED
      BY <1>3, <2>1, <2>2, <3>1, UncountedIsRecent
  <2>4. /\ KeyOf(t) \in Keys /\ candles[KeyOf(t)] # {}
        /\ KeyOf(t)[2] = Floor(TsOf[t]) /\ Floor(TsOf[t]) \in Nat
    BY <1>3, <2>2, <2>3, KeyProperties DEF CountedInv, KeyOf
  <2>5. NewestMinute \in Nat /\ Floor(TsOf[t]) <= NewestMinute
    BY <2>4, NewestMinuteIs
  <2>6. now - NewestMinute > Grace
    BY <2>1, <2>5 DEF RollupVerdict, CandlesBehind, Never
  <2>7. QED
    BY <2>2, <2>4, <2>5, <2>6, GraceAssumption DEF Types
<1>4. QED
  BY <1>1, <1>2, <1>3, PTL DEF TimelyPageSpec

=============================================================================

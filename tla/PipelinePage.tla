---------------------------- MODULE PipelinePage ----------------------------
(***************************************************************************)
(* What the dashboard's Pipeline page tells of the rollup.  Every refresh  *)
(* reads the newest session row, the newest run row and the newest candle  *)
(* in transactions of their own (health in views/pipeline.py), and judges  *)
(* them by the clock as soon as the last one is read (rollup_status in     *)
(* status.py).  The rollup and the stream go on between the reads.         *)
(*                                                                         *)
(* The session row is the stream's, which module StreamHealth follows.     *)
(* All that is known of it here is that its last_trade_at is no time to    *)
(* come: reading it is no step, and the verdict is taken for every time    *)
(* it may have held.                                                       *)
(***************************************************************************)
EXTENDS Rollup

CONSTANT Grace  \* CANDLE_LAG_GRACE_SECONDS, in ticks

ASSUME GraceAssumption == Grace \in Nat \ {0}

VARIABLES
  saw,         \* health: the status of run, "unread" between two refreshes
  committedAt  \* history: when candles were last committed

pipelineVars == <<vars, saw, committedAt>>

----------------------------------------------------------------------------
\* NULL in Postgres, None in Python.
Never == -1

\* CANDLE_STATUS_SQL: max(minute), of all symbols.
NewestMinute ==
  LET minutes == {k[2] : k \in {j \in Keys : candles[j] # {}}}
  IN IF minutes = {} THEN Never ELSE Max(minutes)

TradesFlowing(lastTradeAt) == lastTradeAt # Never /\ now - lastTradeAt < Grace

\* Mutant: without any candle there is nothing that could be behind.
BehindIfAny == NewestMinute # Never /\ now - NewestMinute > Grace

CandlesBehind == NewestMinute = Never \/ now - NewestMinute > Grace

\* rollup_status, in the order of its tests.
RollupVerdict(lastTradeAt) ==
  CASE saw = "none" -> "notStarted"
    [] saw = "failed" -> "failed"
    [] OTHER -> IF TradesFlowing(lastTradeAt) /\ CandlesBehind
                THEN "behind" ELSE "upToDate"

PageInit == Init /\ saw = "unread" /\ committedAt = Never

\* data.rollup_runs(engine)
ReadRun ==
  /\ saw = "unread"
  /\ saw' = run.status
  /\ UNCHANGED <<vars, committedAt>>

\* Mutant: the verdict takes the place of the run.
KeepsVerdict ==
  /\ saw # "unread"
  /\ saw' = RollupVerdict(now)
  /\ UNCHANGED <<vars, committedAt>>

\* data.candle_status(engine).  RollupVerdict is drawn, and the page waits for
\* its next refresh.
ReadCandles ==
  /\ saw # "unread"
  /\ saw' = "unread"
  /\ UNCHANGED <<vars, committedAt>>

\* The stream, the rollup or the clock goes on.
PipelineStep ==
  /\ Next
  /\ committedAt' = IF Upsert \/ RollupAmbiguous THEN now ELSE committedAt
  /\ UNCHANGED saw

PageNext == PipelineStep \/ ReadRun \/ ReadCandles

PageSpec == PageInit /\ [][PageNext]_pipelineVars

TimelyPageSpec == PageInit /\ [][PageNext /\ OnTime]_pipelineVars

----------------------------------------------------------------------------
PageTypeOK ==
  /\ TypeOK
  /\ saw \in {"unread", "none", "running", "ok", "failed"}
  /\ committedAt \in Never..MaxTime

\* A dead rollup is noticed: while trades arrive, the page calls it up to date
\* only if it has committed candles within the grace, however its runs
\* failed, hung or were restarted, and whatever status they left behind.
DeadRollupIsNoticed ==
  saw # "unread" =>
    \A at \in 0..now :
      TradesFlowing(at) /\ RollupVerdict(at) = "upToDate" =>
        committedAt # Never /\ now - committedAt <= Grace

\* The time after which a rollup that is on time has counted a trade.
CountedWithin == ReachBack + MaxDelay

\* "An alarm that fires every night is one nobody reads" (status.py:130): a
\* rollup that is on time is called behind only if every trade that it had
\* to have counted is of a minute that began before the grace.  It leaves the
\* alarm the code cannot avoid: a candle's age runs from the start of its
\* minute and a trade's from its arrival, so in a market that falls silent the
\* page says "Behind" for up to a minute before the grace has passed for the
\* trades too, and at the first trade after a silence until the next run.
BehindIsReal ==
  saw # "unread" /\ Window >= ReachBack =>
    \A at \in 0..now, t \in rawTrades :
      RollupVerdict(at) = "behind" /\ TsOf[t] + CountedWithin < now =>
        now - Floor(TsOf[t]) > Grace

=============================================================================

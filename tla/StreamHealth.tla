---------------------------- MODULE StreamHealth ----------------------------
(***************************************************************************)
(* What the dashboard can tell of the stream's health: the callbacks of    *)
(* the socket thread stamp times on the shared SocketEvents (main.py,      *)
(* record), every flush copies them to the newest row of stream_sessions   *)
(* (writer.py, heartbeat) together with the market status it last fetched  *)
(* (market_status.py), and the pipeline page turns that row into a verdict *)
(* (dashboard/status.py).  Between sessions the main thread waits as its   *)
(* ExponentialBackoff says (backoff.py).                                   *)
(*                                                                         *)
(* Module Stream models the trades of the same loop; here a flush is only  *)
(* its market fetch, its heartbeat and its look at closed.  Time is        *)
(* counted in ticks and may pass between any two steps.                    *)
(***************************************************************************)
EXTENDS Integers, FiniteSetsExt

CONSTANTS
  StaleAfter,   \* STALE_AFTER_SECONDS
  StatusEvery,  \* MARKET_STATUS_INTERVAL_SECONDS
  MinDelay,     \* RECONNECT_MIN_SECONDS
  MaxDelay,     \* RECONNECT_MAX_SECONDS
  MaxTime,      \* bound: the tick at which the clock stops
  MaxSilent,    \* bound: silent sessions counted
  Faults        \* the failures that may happen

FaultKinds == {"fetchFails", "writeFails", "finishFails",
               "crash"}

\* What load_config lets through.
ValidSettings ==
  /\ StaleAfter \in Nat \ {0}
  /\ StatusEvery \in Nat \ {0}
  /\ MinDelay \in Nat \ {0}
  /\ MaxDelay \in Nat
  /\ MinDelay <= MaxDelay

ASSUME HealthAssumption ==
  /\ ValidSettings
  /\ MaxTime \in Nat
  /\ MaxSilent \in Nat
  /\ Faults \subseteq FaultKinds

VARIABLES
  now,        \* the clock
  row,        \* Postgres: the newest row of stream_sessions, or NoSession
  pc,         \* the main thread's next step
  status,     \* flush_loop: status, the market as last fetched
  nextStatus, \* flush_loop: next_status_at
  beat,       \* the times read for the heartbeat under way
  attempts,   \* ExponentialBackoff.attempts
  wake,       \* when the wait before the next session ends
  sock,       \* the socket thread: "up" until its on_close callback
  callback,   \* the event that record is handling
  messageAt,  \* SocketEvents.last_message_at
  tradeAt,    \* SocketEvents.last_trade_at
  closed,     \* SocketEvents.closed
  error,      \* SocketEvents.error is set
  lastEvent,  \* history: when the newest session's last callback began
  flushed,    \* history: flushes committed since that callback began, and
              \* since the session's last trade was recorded (2: or more)
  heard,      \* history: the newest session had a message from the feed
  silent      \* history: sessions in a row that had none

loopVars == <<status, nextStatus, beat>>
eventVars == <<messageAt, tradeAt, closed, error>>
history == <<lastEvent, flushed, heard, silent>>
vars == <<now, row, pc, loopVars, attempts, wake, sock, callback, eventVars,
          history>>

----------------------------------------------------------------------------
\* NULL in Postgres and None in Python: before any time.
Never == -1
Time == Never..MaxTime
Later(a, b) == IF a >= b THEN a ELSE b

\* The regular session is open or an extended one is on; or neither.
Market == {"open", "closed"}
Unknown == "unknown"

NoSession == [status |-> "none"]

Event == {"open", "message", "trade", "failed", "closed"}
Idle == "none"

Init ==
  /\ now = 0
  /\ row = NoSession
  /\ pc = "connect"
  /\ status = Unknown /\ nextStatus = 0
  /\ beat = [messageAt |-> Never, tradeAt |-> Never]
  /\ attempts = 0 /\ wake = 0
  /\ sock = "down" /\ callback = Idle
  /\ messageAt = Never /\ tradeAt = Never
  /\ closed = FALSE /\ error = FALSE
  /\ lastEvent = Never
  /\ flushed = [event |-> 0, trade |-> 0]
  /\ heard = FALSE /\ silent = 0

----------------------------------------------------------------------------
(***************************************************************************)
(* The socket thread.  record first stamps the message, then does what the *)
(* event asks for; the main thread may look in between.                    *)
(***************************************************************************)
\* A callback begins: record's first line.
Record(e) ==
  /\ sock = "up" /\ callback = Idle
  /\ callback' = e
  /\ messageAt' = now
  /\ lastEvent' = now
  /\ heard' = (heard \/ e \in {"message", "trade"})
  /\ flushed' = [flushed EXCEPT !.event = 0]
  /\ UNCHANGED <<now, row, pc, loopVars, attempts, wake, sock, tradeAt, closed,
                 error, silent>>

\* The rest of record.
Recorded ==
  /\ callback # Idle
  /\ callback' = Idle
  /\ tradeAt' = IF callback = "trade" THEN messageAt ELSE tradeAt
  /\ error' = (error \/ callback = "failed")
  /\ closed' = (closed \/ callback = "closed")
  /\ sock' = IF callback = "closed" THEN "down" ELSE sock
  /\ flushed' = IF callback = "trade" THEN [flushed EXCEPT !.trade = 0] ELSE flushed
  /\ UNCHANGED <<now, row, pc, loopVars, attempts, wake, messageAt, lastEvent,
                 heard, silent>>

----------------------------------------------------------------------------
(***************************************************************************)
(* The main thread.                                                        *)
(***************************************************************************)
\* run_once up to flush_loop: new events, the session's row, the thread.
StartSession ==
  /\ pc = "connect"
  /\ row' = [status |-> "live", messageAt |-> Never, tradeAt |-> Never,
             market |-> Unknown]
  /\ pc' = "fetch"
  /\ status' = Unknown /\ nextStatus' = 0
  /\ beat' = [messageAt |-> Never, tradeAt |-> Never]
  /\ sock' = "up" /\ callback' = Idle
  /\ messageAt' = Never /\ tradeAt' = Never
  /\ closed' = FALSE /\ error' = FALSE
  /\ lastEvent' = Never
  /\ flushed' = [event |-> 0, trade |-> 0]
  /\ heard' = FALSE
  /\ UNCHANGED <<now, attempts, wake, silent>>

\* safe_market_status() or status: the answer, or the old one when the call
\* fails.
FetchedStatus == Market \cup (IF "fetchFails" \in Faults THEN {status} ELSE {})

\* The market is asked for when next_status_at has come.
FetchMarket ==
  /\ pc = "fetch"
  /\ IF now >= nextStatus
     THEN /\ nextStatus' = now + StatusEvery
          /\ status' \in FetchedStatus
     ELSE UNCHANGED <<status, nextStatus>>
  /\ pc' = "readMessage"
  /\ UNCHANGED <<now, row, beat, attempts, wake, sock, callback, eventVars,
                 history>>

\* Mutant: the heartbeat is dated by the clock.
MessageTime == now

\* events.last_message_at
LastMessage == messageAt

\* The arguments of the heartbeat, read one after the other.
ReadMessageAt ==
  /\ pc = "readMessage"
  /\ beat' = [beat EXCEPT !.messageAt = LastMessage]
  /\ pc' = "readTrade"
  /\ UNCHANGED <<now, row, status, nextStatus, attempts, wake, sock, callback,
                 eventVars, history>>

ReadTradeAt ==
  /\ pc = "readTrade"
  /\ beat' = [beat EXCEPT !.tradeAt = tradeAt]
  /\ pc' = "write"
  /\ UNCHANGED <<now, row, status, nextStatus, attempts, wake, sock, callback,
                 eventVars, history>>

\* Mutant: no heartbeat when no trade has come since the last one.
OnlyWithTrades ==
  IF beat.tradeAt = row.tradeAt THEN row
  ELSE [row EXCEPT !.messageAt = Later(@, beat.messageAt),
                   !.tradeAt   = Later(@, beat.tradeAt),
                   !.market    = IF status = Unknown THEN @ ELSE status]

\* Mutant: a plain COALESCE keeps the first trade's time.
KeepsFirstTrade ==
  [row EXCEPT !.messageAt = Later(@, beat.messageAt),
              !.tradeAt   = IF @ = Never THEN beat.tradeAt ELSE @,
              !.market    = IF status = Unknown THEN @ ELSE status]

\* HEARTBEAT_SQL: GREATEST and COALESCE, which ignore NULL.
Heartbeat ==
  [row EXCEPT !.messageAt = Later(@, beat.messageAt),
              !.tradeAt   = Later(@, beat.tradeAt),
              !.market    = IF status = Unknown THEN @ ELSE status]

\* The flush commits.  An exception after the commit is caught as well and
\* makes no difference here.
Write ==
  /\ pc = "write"
  /\ row' = Heartbeat
  /\ flushed' = [f \in {"event", "trade"} |-> Min({flushed[f] + 1, 2})]
  /\ pc' = "closed"
  /\ UNCHANGED <<now, loopVars, attempts, wake, sock, callback, eventVars,
                 lastEvent, heard, silent>>

\* The insert or the heartbeat raises: printed, and nothing was written.
WriteFails ==
  /\ pc = "write"
  /\ "writeFails" \in Faults
  /\ pc' = "closed"
  /\ UNCHANGED <<now, row, loopVars, attempts, wake, sock, callback, eventVars,
                 history>>

\* if events.closed.is_set(): break
CheckClosed ==
  /\ pc = "closed"
  /\ pc' = IF closed THEN "finish" ELSE "fetch"
  /\ UNCHANGED <<now, row, loopVars, attempts, wake, sock, callback, eventVars,
                 history>>

\* Mutant: a status that the pages do not know.
UnknownStatus == IF error THEN "error" ELSE "closed"

FinalStatus == IF error THEN "failed" ELSE "closed"

\* finish_session in its own transaction.
Finish ==
  /\ pc = "finish"
  /\ row' = [row EXCEPT !.status = FinalStatus]
  /\ pc' = "backoff"
  /\ UNCHANGED <<now, loopVars, attempts, wake, sock, callback, eventVars,
                 history>>

\* capped: the longest next_delay may return.  Its exponent stops growing
\* when MaxDelay is reached, as with MAX_EXPONENT.
Capped(n) == Min({MinDelay * 2 ^ n, MaxDelay})

\* Reset when anything was recorded in the session.
AttemptsNow == IF messageAt # Never THEN 0 ELSE attempts

\* main's loop: reset, next_delay with its jitter, and the sleep.
Backoff ==
  /\ pc = "backoff"
  /\ \E d \in 1..MaxDelay :
       /\ Capped(AttemptsNow) <= 2 * d /\ d <= Capped(AttemptsNow)
       /\ wake' = now + d
  /\ attempts' = AttemptsNow + 1
  /\ silent' = IF heard THEN 0 ELSE Min({silent + 1, MaxSilent})
  /\ pc' = "wait"
  /\ UNCHANGED <<now, row, loopVars, sock, callback, eventVars, lastEvent,
                 flushed, heard>>

\* The sleep ends; once the clock has stopped, whenever it would have.
WakeUp ==
  /\ pc = "wait"
  /\ now >= Min({wake, MaxTime})
  /\ pc' = "connect"
  /\ UNCHANGED <<now, row, loopVars, attempts, wake, sock, callback, eventVars,
                 history>>

\* The process dies, or finish_session raises; its row is left as it is, and
\* its successor starts with a backoff of its own.
Crash ==
  /\ \/ "crash" \in Faults
     \/ "finishFails" \in Faults /\ pc = "finish"
  /\ pc' = "connect"
  /\ attempts' = 0 /\ wake' = 0
  /\ sock' = "down" /\ callback' = Idle
  /\ silent' = 0
  /\ UNCHANGED <<now, row, loopVars, eventVars, lastEvent, flushed, heard>>

Tick ==
  /\ now < MaxTime
  /\ now' = now + 1
  /\ UNCHANGED <<row, pc, loopVars, attempts, wake, sock, callback, eventVars,
                 history>>

----------------------------------------------------------------------------
SocketNext == Recorded \/ \E e \in Event : Record(e)

MainNext ==
  \/ StartSession \/ FetchMarket \/ ReadMessageAt \/ ReadTradeAt
  \/ Write \/ WriteFails \/ CheckClosed \/ Finish \/ Backoff \/ WakeUp

Next == SocketNext \/ MainNext \/ Crash \/ Tick

Spec == Init /\ [][Next]_vars

----------------------------------------------------------------------------
\* stream_status, in the order of its tests; the page reads the newest row.
Verdict ==
  CASE row = NoSession -> "notStarted"
    [] row # NoSession /\ row.status = "failed" -> "failed"
    [] OTHER ->
         CASE row.messageAt = Never -> "connecting"
           [] row.messageAt # Never /\ now - row.messageAt > StaleAfter -> "stale"
           [] OTHER -> IF row.market = "open"
                       THEN "live" ELSE "marketClosed"

Healthy == Verdict \in {"live", "marketClosed"}

Times == [messageAt : Time, tradeAt : Time]

TypeOK ==
  /\ now \in 0..MaxTime
  /\ row \in {NoSession} \cup
       [status : {"live", "closed", "failed"}, messageAt : Time,
        tradeAt : Time, market : Market \cup {Unknown}]
  /\ pc \in {"connect", "fetch", "readMessage", "readTrade", "write", "closed",
             "finish", "backoff", "wait"}
  /\ status \in Market \cup {Unknown}
  /\ nextStatus \in Nat
  /\ beat \in Times
  /\ attempts \in Nat /\ wake \in Nat
  /\ sock \in {"up", "down"}
  /\ callback \in Event \cup {Idle}
  /\ messageAt \in Time /\ tradeAt \in Time
  /\ closed \in BOOLEAN /\ error \in BOOLEAN
  /\ lastEvent \in Time
  /\ flushed \in [event : 0..2, trade : 0..2]
  /\ heard \in BOOLEAN /\ silent \in 0..MaxSilent

\* "Separates 'quiet market' from 'dead socket'" (status.py): a verdict that
\* calls the stream healthy rests on a callback of the newest session at most
\* StaleAfter ago, whatever died, failed or was restarted since.
HealthyIsRecent ==
  Healthy => lastEvent # Never /\ now - lastEvent <= StaleAfter

\* No false alarm (writer.py: the heartbeat "runs on every flush, including
\* flushes with zero trades"): a stream is called stale only if its socket
\* has been silent that long, or has spoken since its last flush but one.
StaleIsSilent ==
  Verdict = "stale" =>
    now - lastEvent > StaleAfter \/ flushed.event < 2

\* The age of the last trade, from which the page also tells whether the
\* rollup is behind (status.py, rollup_status): the row never dates a trade
\* that the session has not had, and misses only those since its last flush
\* but one.
TradeAgeIsReal ==
  row # NoSession =>
    /\ row.tradeAt <= tradeAt
    /\ tradeAt # row.tradeAt => flushed.trade < 2

\* "The wait doubles each time", "reset to 1s after any successful message"
\* (README.md:213): after the n-th session in a row without a message the
\* stream waits at least half of MinDelay * 2^(n-1), or of MaxDelay.
WaitsDouble ==
  [][pc = "backoff" /\ pc' = "wait" /\ ~heard =>
       2 * (wake' - now) >= Capped(silent' - 1)]_pc

=============================================================================

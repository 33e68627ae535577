------------------------------- MODULE Stream -------------------------------
(***************************************************************************)
(* The stream service (stream/): one process with two threads.  The socket *)
(* thread puts every trade it parses on a queue and then records the       *)
(* message in a shared SocketEvents object; the main thread runs           *)
(* flush_loop, which once a second drains the queue, inserts the batch in  *)
(* Postgres together with a heartbeat on the session row, and only then    *)
(* merges the batch into the per-symbol price hashes in Redis.  Between    *)
(* any two steps of the main thread the socket thread, Redis, and the      *)
(* container runtime may act.                                              *)
(*                                                                         *)
(* An element of Trade is one delivery of a trade: the feed may deliver    *)
(* equal trades again after a reconnect, raw_trades has no unique key, and *)
(* two deliveries are two elements of Trade with equal attributes.         *)
(***************************************************************************)
EXTENDS Integers, Sequences, FiniteSets, FiniteSetsExt

CONSTANTS
  Trade,        \* deliveries the feed may make
  Symbol,       \* subscribed symbols
  SymbolOf,     \* the symbol of a trade
  TsOf,         \* its trade_ts
  DayOf,        \* the UTC date of its trade_ts
  MaxTs,        \* the largest timestamp parse_trade accepts (year 9999)
  MaxRows,      \* FLUSH_MAX_ROWS
  MaxSessions,  \* bound: sessions of a behaviour; the last one never ends
  MaxReceived,  \* bound: trades_received at which no more commit is ambiguous
  InOrder,      \* TRUE: the feed delivers each symbol's trades in time order
  Faults        \* the failures that may happen

FaultKinds == {"loadFails", "insertFails", "ambiguousCommit", "saveFails",
               "saveTimesOut", "redisRestart", "crash", "finishFails"}

ASSUME TradeAssumption ==
  /\ MaxTs \in Nat
  /\ SymbolOf \in [Trade -> Symbol]
  /\ TsOf \in [Trade -> 1..MaxTs]
  /\ DayOf \in [Trade -> Nat \ {0}]
  /\ \A t, u \in Trade : TsOf[t] <= TsOf[u] => DayOf[t] <= DayOf[u]

ASSUME BoundAssumption ==
  /\ MaxRows \in Nat \ {0}
  /\ MaxSessions \in Nat \ {0}
  /\ MaxReceived \in Nat
  /\ InOrder \in BOOLEAN
  /\ Faults \subseteq FaultKinds

VARIABLES
  rawTrades,    \* Postgres: the rows of raw_trades
  session,      \* Postgres: the rows of stream_sessions
  sid,          \* session_id of the newest row, 0 before the first
  hash,         \* Redis: the hash price:<symbol>, or NoHash
  pc,           \* the main thread's next step
  batch,        \* flush_loop: the drained trades not yet flushed
  stored,       \* flush_loop: load_live_prices' result
  loaded,       \* flush_loop: FALSE when that result was None
  needsReseed,  \* flush_loop: needs_reseed
  reported,     \* flush_loop: reported
  queue,        \* trades_queue, shared by the two threads
  sock,         \* the socket thread: "up" until its on_close callback
  unrecorded,   \* trades of the current message put but not yet recorded
  tradesSeen,   \* SocketEvents.trades_seen
  closed,       \* SocketEvents.closed
  error,        \* SocketEvents.error is set
  arrived       \* history: every trade ever put on a queue

dbVars    == <<rawTrades, session, sid>>
flushVars == <<batch, stored, loaded, needsReseed, reported>>
eventVars == <<tradesSeen, closed, error>>
vars == <<dbVars, hash, pc, flushVars, queue, sock, unrecorded, eventVars,
          arrived>>

----------------------------------------------------------------------------
(***************************************************************************)
(* Redis hashes.  high and low of the day are determined by the set of     *)
(* trades they were taken over, kept in seen; count is the stored          *)
(* trades_today, which the code adds up and never recomputes.  The day's   *)
(* open is represented by the time of the trade it was taken from, price   *)
(* and volume by trade_ts, the time of the trade they came from.           *)
(***************************************************************************)
HashType == [day : Nat, seen : SUBSET Trade, count : Nat,
             openTs : Nat, tradeTs : Nat]

NoHash == [day |-> 0, seen |-> {}, count |-> 0, openTs |-> 0, tradeTs |-> 0]

Sessions == 1..MaxSessions
NoRow == [status |-> "none", received |-> 0, written |-> 0]

Times(B) == {TsOf[t] : t \in B}
OfSymbol(B, s) == {t \in B : SymbolOf[t] = s}
SymbolsIn(B) == {SymbolOf[t] : t \in B}
BatchDay(B) == Max({DayOf[t] : t \in B})

\* Mutant: every merge takes the open from its own batch.
OpenOfBatch(old, B) == Min(Times(B))

\* The day's open is kept; without old values it is the batch's earliest.
OpenAfter(old, B) == IF old.day = 0 THEN Min(Times(B)) ELSE old.openTs

\* merge(): one symbol's old values, or none, and its trades of the batch.
Merge(old, B) ==
  [day     |-> BatchDay(B),
   seen    |-> old.seen \cup B,
   count   |-> old.count + Cardinality(B),
   openTs  |-> OpenAfter(old, B),
   tradeTs |-> Max(Times(B))]

\* Mutant: the seed is read after the insert, so it already holds the batch.
SeedRowsWithBatch(s, d) ==
  {t \in rawTrades \cup batch : SymbolOf[t] = s /\ DayOf[t] = d}

SeedRows(s, d) == {t \in rawTrades : SymbolOf[t] = s /\ DayOf[t] = d}

\* Mutant: stale symbols start over instead of being seeded.
SeedNothing(s, d) == NoHash

\* read_day_stats for one symbol: {} when raw_trades has no trade of that day.
Seed(s, d) ==
  LET rows == SeedRows(s, d)
  IN IF rows = {} THEN NoHash
     ELSE [day |-> d, seen |-> rows, count |-> Cardinality(rows),
           openTs |-> Min(Times(rows)), tradeTs |-> 0]

----------------------------------------------------------------------------
Init ==
  /\ rawTrades = {}
  /\ session = [i \in Sessions |-> NoRow]
  /\ sid = 0
  /\ hash = [s \in Symbol |-> NoHash]
  /\ pc = "connect"
  /\ batch = {}
  /\ stored = [s \in Symbol |-> NoHash]
  /\ loaded = TRUE
  /\ needsReseed = TRUE
  /\ reported = 0
  /\ queue = <<>>
  /\ sock = "down"
  /\ unrecorded = 0
  /\ tradesSeen = 0
  /\ closed = FALSE
  /\ error = FALSE
  /\ arrived = {}

(***************************************************************************)
(* The main thread.                                                        *)
(***************************************************************************)
\* The rest of the iteration has no use for the batch and its hashes.
Discard ==
  /\ batch' = {}
  /\ stored' = [s \in Symbol |-> NoHash]
  /\ loaded' = TRUE

\* Mutant: flush_loop starts by trusting the hashes it finds.
TrustAtStart == FALSE

\* A crash between an insert and its Redis write leaves a hash short, so
\* every loop starts with needs_reseed = True.
ReseedAtStart == TRUE

\* run_once up to flush_loop's first iteration: a new queue and events, the
\* session row in a transaction of its own, then the socket thread.  When the
\* transaction fails the process dies with nothing changed.
StartSession ==
  /\ pc = "connect"
  /\ sid < MaxSessions
  /\ sid' = sid + 1
  /\ session' = [session EXCEPT ![sid + 1] =
                   [status |-> "live", received |-> 0, written |-> 0]]
  /\ queue' = <<>>
  /\ tradesSeen' = 0 /\ closed' = FALSE /\ error' = FALSE
  /\ sock' = "up"
  /\ unrecorded' = 0
  /\ reported' = 0
  /\ needsReseed' = ReseedAtStart
  /\ pc' = "drain"
  /\ Discard
  /\ UNCHANGED <<rawTrades, hash, arrived>>

\* Mutant: an off-by-one that always leaves one trade on the queue.
TakeOneLess == Max({0, Min({MaxRows, Len(queue)}) - 1})

Take == Min({MaxRows, Len(queue)})

\* Mutant: what is over the limit is dropped instead of left for later.
DropRest == <<>>

LeaveRest == SubSeq(queue, Take + 1, Len(queue))

\* buffer.drain: the oldest trades, at most MaxRows of them.  The socket
\* thread may put more while it runs, which is a put before or after it.
Drain ==
  /\ pc = "drain"
  /\ batch' = {queue[i] : i \in 1..Take}
  /\ queue' = LeaveRest
  /\ pc' = "load"
  /\ UNCHANGED <<dbVars, hash, stored, loaded, needsReseed, reported, sock,
                 unrecorded, eventVars, arrived>>

\* Mutant: the reseed flag is ignored.
ReadAnyway(s) == hash[s]

\* What the loop trusts of Redis before looking at the day.
Read(s) == IF needsReseed THEN NoHash ELSE hash[s]

\* The hash is missing, of another day than the batch, or not to be trusted.
Stale(s) == Read(s).day # BatchDay(batch)

\* load_live_prices: each batch symbol's hash, seeded where it is stale.
Load ==
  /\ pc = "load"
  /\ stored' = [s \in Symbol |->
                  IF s \notin SymbolsIn(batch) THEN NoHash
                  ELSE IF Stale(s) THEN Seed(s, BatchDay(batch))
                  ELSE Read(s)]
  /\ loaded' = TRUE
  /\ pc' = "write"
  /\ UNCHANGED <<dbVars, hash, batch, needsReseed, reported, queue, sock,
                 unrecorded, eventVars, arrived>>

\* Redis or the seeding query raises: this flush will skip Redis.
LoadFails ==
  /\ pc = "load"
  /\ "loadFails" \in Faults
  /\ batch # {}
  /\ stored' = [s \in Symbol |-> NoHash]
  /\ loaded' = FALSE
  /\ pc' = "write"
  /\ UNCHANGED <<dbVars, hash, batch, needsReseed, reported, queue, sock,
                 unrecorded, eventVars, arrived>>

\* Mutant: rows still on the queue are counted as written.
CountQueueToo == Cardinality(batch) + Len(queue)

\* Mutant: the driver's rowcount, -1 after executemany.
Rowcount == IF batch = {} THEN 0 ELSE -1

\* insert_trades returns len(trades).
RowsInserted == Cardinality(batch)

\* The insert and the heartbeat, which commit together.
CommitBatch ==
  /\ rawTrades' = rawTrades \cup batch
  /\ session' = [session EXCEPT
       ![sid].received = @ + (tradesSeen - reported),
       ![sid].written  = @ + RowsInserted]
  /\ UNCHANGED sid

\* Mutant: reported is not advanced, so the next heartbeat counts again.
NeverReported == reported

Reported == tradesSeen

\* The transaction commits.  An empty flush leaves needs_reseed alone; one
\* whose prices were not loaded sets it and skips Redis.
Write ==
  /\ pc = "write"
  /\ CommitBatch
  /\ reported' = Reported
  /\ needsReseed' = (needsReseed \/ (batch # {} /\ ~loaded))
  /\ IF batch # {} /\ loaded
       THEN pc' = "save" /\ UNCHANGED <<batch, stored, loaded>>
       ELSE pc' = "closed" /\ Discard
  /\ UNCHANGED <<hash, queue, sock, unrecorded, eventVars, arrived>>

\* Mutant: Redis is written although the insert was rolled back.
WriteFailsThenSaves ==
  /\ pc = "write"
  /\ "insertFails" \in Faults
  /\ pc' = IF batch # {} /\ loaded THEN "save" ELSE "closed"
  /\ UNCHANGED <<dbVars, hash, flushVars, queue, sock, unrecorded, eventVars,
                 arrived>>

\* The transaction fails and is rolled back.  The exception is logged; the
\* drained batch is not put back.
WriteFails ==
  /\ pc = "write"
  /\ "insertFails" \in Faults
  /\ Discard
  /\ pc' = "closed"
  /\ UNCHANGED <<dbVars, hash, needsReseed, reported, queue, sock, unrecorded,
                 eventVars, arrived>>

\* The server commits but the connection drops before the client learns it:
\* the same exception path, with the rows stored.
WriteAmbiguous ==
  /\ pc = "write"
  /\ "ambiguousCommit" \in Faults
  /\ session[sid].received < MaxReceived
  /\ CommitBatch
  /\ Discard
  /\ pc' = "closed"
  /\ UNCHANGED <<hash, needsReseed, reported, queue, sock, unrecorded,
                 eventVars, arrived>>

\* write_live_prices is one MULTI/EXEC: all of the batch's symbols or none.
WriteHashes ==
  hash' = [s \in Symbol |->
             IF s \in SymbolsIn(batch)
               THEN Merge(stored[s], OfSymbol(batch, s))
               ELSE hash[s]]

AfterSave ==
  /\ Discard
  /\ pc' = "closed"
  /\ UNCHANGED <<dbVars, reported, queue, sock, unrecorded, eventVars,
                 arrived>>

\* save_live_prices returns True.
Save ==
  /\ pc = "save"
  /\ WriteHashes
  /\ needsReseed' = FALSE
  /\ AfterSave

\* Redis refuses the write: nothing changes there.
SaveFails ==
  /\ pc = "save"
  /\ "saveFails" \in Faults
  /\ UNCHANGED hash
  /\ needsReseed' = TRUE
  /\ AfterSave

\* The answer takes longer than the 0.5 s timeout: Redis applied the write
\* and the client counts it as failed.
SaveTimesOut ==
  /\ pc = "save"
  /\ "saveTimesOut" \in Faults
  /\ WriteHashes
  /\ needsReseed' = TRUE
  /\ AfterSave

\* Mutant: the loop runs on after the socket closed.
NeverLeave == FALSE

LeaveLoop == closed

\* The end of an iteration: leave the loop once the socket is closed, with
\* whatever the queue still holds.
CheckClosed ==
  /\ pc = "closed"
  /\ pc' = IF LeaveLoop THEN "finish" ELSE "drain"
  /\ UNCHANGED <<dbVars, hash, flushVars, queue, sock, unrecorded, eventVars,
                 arrived>>

\* The queue, the events and flush_loop's locals are gone.
MemoryGone ==
  /\ Discard
  /\ queue' = <<>>
  /\ unrecorded' = 0
  /\ tradesSeen' = 0 /\ closed' = FALSE /\ error' = FALSE
  /\ needsReseed' = ReseedAtStart
  /\ reported' = 0
  /\ sock' = "down"
  /\ pc' = "connect"

\* Mutant: the verdict is written to the row that would come next.
VerdictOnNextRow == IF sid < MaxSessions THEN sid + 1 ELSE sid

VerdictRow == sid

\* run_once's finally: the row gets its verdict and run_once returns, to
\* sleep and reconnect.
Finish ==
  /\ pc = "finish"
  /\ session' = [session EXCEPT
       ![VerdictRow].status = IF error THEN "failed" ELSE "closed"]
  /\ MemoryGone
  /\ UNCHANGED <<rawTrades, sid, hash, arrived>>

ProcessDies ==
  /\ MemoryGone
  /\ UNCHANGED <<dbVars, hash, arrived>>

\* finish_session raises inside finally: nothing catches it, the process
\* exits and its container restarts with the row still 'live'.
FinishFails ==
  /\ pc = "finish"
  /\ "finishFails" \in Faults
  /\ ProcessDies

----------------------------------------------------------------------------
(***************************************************************************)
(* The socket thread.  Its callbacks run one after the other.              *)
(***************************************************************************)
\* _on_message puts one more trade of the current message on the queue.
PutTrade(t) ==
  /\ sock = "up"
  /\ t \notin arrived
  /\ InOrder => \A u \in OfSymbol(arrived, SymbolOf[t]) : TsOf[u] <= TsOf[t]
  /\ queue' = Append(queue, t)
  /\ unrecorded' = unrecorded + 1
  /\ arrived' = arrived \cup {t}
  /\ UNCHANGED <<dbVars, hash, pc, flushVars, sock, eventVars>>

\* _on_message ends by recording the message: trades_seen += len(trades).
RecordTrades ==
  /\ sock = "up"
  /\ unrecorded > 0
  /\ tradesSeen' = tradesSeen + unrecorded
  /\ unrecorded' = 0
  /\ UNCHANGED <<dbVars, hash, pc, flushVars, queue, sock, closed, error,
                 arrived>>

\* _on_error: a failed connect, a dropped connection, or an exception in
\* another callback, after which the connection may well stay up.
SocketError ==
  /\ sock = "up"
  /\ unrecorded = 0
  /\ error' = TRUE
  /\ UNCHANGED <<dbVars, hash, pc, flushVars, queue, sock, unrecorded,
                 tradesSeen, closed, arrived>>

\* _on_close, the last callback.  The last session of the bound stays up.
SocketClose ==
  /\ sock = "up"
  /\ sid < MaxSessions
  /\ unrecorded = 0
  /\ sock' = "down"
  /\ closed' = TRUE
  /\ UNCHANGED <<dbVars, hash, pc, flushVars, queue, unrecorded, tradesSeen,
                 error, arrived>>

----------------------------------------------------------------------------
(***************************************************************************)
(* The environment.                                                        *)
(***************************************************************************)
\* The process is killed at any point; restart: unless-stopped starts it
\* again, at apply_schema and run_once.
Crash ==
  /\ "crash" \in Faults
  /\ pc # "connect"
  /\ sid < MaxSessions
  /\ ProcessDies

\* redis-server runs with --save '' --appendonly no: a restart is empty.
RedisRestart ==
  /\ "redisRestart" \in Faults
  /\ hash' = [s \in Symbol |-> NoHash]
  /\ UNCHANGED <<dbVars, pc, flushVars, queue, sock, unrecorded, eventVars,
                 arrived>>

MainStep ==
  \/ StartSession \/ Drain
  \/ Load \/ LoadFails
  \/ Write \/ WriteFails \/ WriteAmbiguous
  \/ Save \/ SaveFails \/ SaveTimesOut
  \/ CheckClosed
  \/ Finish \/ FinishFails

SocketStep ==
  \/ \E t \in Trade : PutTrade(t)
  \/ RecordTrades \/ SocketError \/ SocketClose

Next == MainStep \/ SocketStep \/ Crash \/ RedisRestart

Spec == Init /\ [][Next]_vars

----------------------------------------------------------------------------
(***************************************************************************)
(* Properties.                                                             *)
(***************************************************************************)
TypeOK ==
  /\ rawTrades \subseteq Trade
  /\ session \in [Sessions ->
       [status : {"none", "live", "closed", "failed"},
        received : Nat, written : Nat]]
  /\ sid \in 0..MaxSessions
  /\ hash \in [Symbol -> HashType]
  /\ pc \in {"connect", "drain", "load", "write", "save", "closed", "finish"}
  /\ batch \subseteq Trade
  /\ stored \in [Symbol -> HashType]
  /\ loaded \in BOOLEAN
  /\ needsReseed \in BOOLEAN
  /\ reported \in Nat
  /\ queue \in Seq(Trade)
  /\ sock \in {"up", "down"}
  /\ unrecorded \in Nat
  /\ tradesSeen \in Nat
  /\ closed \in BOOLEAN
  /\ error \in BOOLEAN
  /\ arrived \subseteq Trade

Queued == {queue[i] : i \in 1..Len(queue)}

\* Drained, and the outcome of its insert still open.
InFlight == IF pc \in {"load", "write"} THEN batch ELSE {}

Lost == arrived \ (rawTrades \cup Queued \cup InFlight)

\* A hash never counts a trade that Postgres does not have, whichever step
\* failed or died (save_live_prices, stream/main.py:100-101).
CacheNeverAhead == \A s \in Symbol : hash[s].seen \subseteq rawTrades

\* trades_today counts every trade once: a seed, a merge on top of it and a
\* reseed after a half-known write never count the same trade twice, and
\* neither do two batches (load_live_prices: "Runs before the insert, so a
\* seed never already holds this batch").
NoDoubleCount ==
  \A s \in Symbol : hash[s].count = Cardinality(hash[s].seen)

\* The rows_written of all session rows add up to the rows of raw_trades:
\* the insert and its heartbeat are one transaction, also when its outcome
\* stays unknown to the client.
RowsWrittenMatch ==
  MapThenSumSet(LAMBDA i : session[i].written, Sessions)
    = Cardinality(rawTrades)

\* A trade off the socket is dropped only at the end of its session or by a
\* crash, and a failed insert takes no trade with it but those of its batch:
\* none is lost by a drain, by Redis, or by a reconnect.
LossIsAccounted ==
  [][\/ Lost' \subseteq Lost
     \/ WriteFails /\ Lost' \subseteq Lost \cup batch
     \/ Finish \/ FinishFails \/ Crash]_vars

\* Once a session row has its verdict, no heartbeat of a later session or of
\* the same loop changes it again; and a row that a dead process left 'live'
\* is neither finished nor counted on by its successors.
VerdictIsFinal ==
  [][\A i \in Sessions :
       session[i].status \in {"closed", "failed"} \/ i < sid =>
         session'[i] = session[i]]_vars

\* A flush that was told to reseed leaves each symbol of its batch with all
\* rows of the batch's last day and those of the batch, and with nothing of the
\* hash that was not to be trusted, however far behind that was.  The day is
\* the batch's and not the symbol's (stream/main.py:80): a symbol whose trades
\* of the batch are all of an earlier day has its hash started over with these
\* trades alone, under that day, and loses the rest of it.
ReseedRebuildsBatch ==
  [][Save /\ needsReseed =>
       \A s \in SymbolsIn(batch) :
         hash'[s].seen =
           SeedRows(s, BatchDay(batch)) \cup OfSymbol(batch, s)]_vars

\* Whenever the loop trusts Redis, each hash covers its whole day: the flag
\* is cleared only when no hash is behind.
TrustedHashIsComplete ==
  pc = "drain" /\ ~needsReseed =>
    \A s \in Symbol : SeedRows(s, hash[s].day) \subseteq hash[s].seen

\* Postgres and Redis together behave as the ledger and its cache.
Ledger == INSTANCE LedgerCache WITH
  ledger <- rawTrades,
  cache  <- [s \in Symbol |-> hash[s].seen]

ImplementsLedger == Ledger!LedgerSpec

\* With a feed in time order, price and open are those of the latest and the
\* earliest trade the hash covers, through every reseed and half-known write.
StatsFollowSeen ==
  \A s \in Symbol : hash[s].seen # {} =>
    /\ hash[s].tradeTs = Max(Times(hash[s].seen))
    /\ hash[s].openTs = Min(Times(hash[s].seen))

\* Without failed inserts the dashboard's "Writer backlog" never exceeds the
\* trades that really wait: on the queue or in the batch being flushed.
BacklogIsWaiting ==
  pc # "connect" =>
    session[sid].received - session[sid].written
      <= Len(queue) + Cardinality(InFlight)

\* No trade taken off the socket is ever dropped ("stores every tick in
\* PostgreSQL", README.md:5).
NoTradeLost == Lost = {}

\* A trade on the queue does not stay there: it is stored or given up.
QueuedTradeSettles ==
  \A t \in Trade : (t \in Queued) ~> (t \in rawTrades \cup Lost)

\* A closed socket ends its session with a verdict and is replaced by a live
\* session, however many flushes and Redis calls fail on the way.
ClosedSessionIsReplaced ==
  \A i \in 1..(MaxSessions - 1) :
    (sid = i /\ closed) ~> (/\ session[i].status \in {"closed", "failed"}
                             /\ session[i + 1].status # "none")

=============================================================================

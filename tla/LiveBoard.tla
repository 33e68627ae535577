------------------------------ MODULE LiveBoard ------------------------------
(***************************************************************************)
(* The board of the dashboard's Markets page, a third reader beside        *)
(* Stream's two threads.  Once a second it takes all price hashes from     *)
(* Redis in one MULTI/EXEC; when one of them is missing, or Redis does not *)
(* answer, it asks Postgres for the same board in one query.  It shares    *)
(* nothing else with the stream, so every read of a refresh may fall       *)
(* between any two steps of a flush.                                       *)
(*                                                                         *)
(* The date is taken just before Redis is read; here it is part of that    *)
(* step.  A query that raises leaves an error on the page in place of the  *)
(* board; that outcome is not modelled.                                    *)
(***************************************************************************)
EXTENDS Stream

VARIABLES
  today,  \* the date, UTC, of the dashboard's clock and of Postgres'
  page,   \* live_board's next step
  board   \* the cards on the screen

pageVars == <<page, board>>
boardVars == <<vars, today, pageVars>>

----------------------------------------------------------------------------
\* A card: the time of its price, and the day's statistics, which are those
\* of the trades in seen; all of them blank for a symbol without any.
Card == [tradeTs : Nat, seen : SUBSET Trade, count : Nat, openTs : Nat]

NoCard == [tradeTs |-> 0, seen |-> {}, count |-> 0, openTs |-> 0]

\* Mutant: the statistics are shown whatever their day.
AnyDay(h, d) ==
  [tradeTs |-> h.tradeTs, seen |-> h.seen, count |-> h.count,
   openTs |-> h.openTs]

\* Mutant: the row is the hash as it came, its day included.
RawRow(h, d) == h

\* _row: of a hash of another day only the price is shown.
RedisCard(h, d) ==
  IF h.day = d
  THEN [tradeTs |-> h.tradeTs, seen |-> h.seen, count |-> h.count,
        openTs |-> h.openTs]
  ELSE [NoCard EXCEPT !.tradeTs = h.tradeTs]

\* LATEST_SQL: the newest row of all days, statistics of today's rows.
SqlCard(s) ==
  LET rows == OfSymbol(rawTrades, s)
      todays == {t \in rows : DayOf[t] >= today}
  IN IF rows = {} THEN NoCard
     ELSE [tradeTs |-> Max(Times(rows)),
           seen    |-> todays,
           count   |-> Cardinality(todays),
           openTs  |-> IF todays = {} THEN 0 ELSE Min(Times(todays))]

BoardInit ==
  /\ Init
  /\ today = 1
  /\ page = "idle"
  /\ board = [s \in Symbol |-> NoCard]

Show(cards) ==
  /\ board' = cards
  /\ page' = "idle"

\* Mutant: the board is shown although a symbol has no hash.
AnyHashes == TRUE

\* if not all(hashes): return None
AllHashes == \A s \in Symbol : hash[s] # NoHash

\* run_every has come round.  read_live_board: the hashes as one EXEC finds
\* them.
ReadRedis ==
  /\ page = "idle"
  /\ AllHashes
  /\ Show([s \in Symbol |-> RedisCard(hash[s], today)])
  /\ UNCHANGED <<vars, today>>

\* A hash is missing, or Redis is away or slower than its 0.5 s.
RedisMisses ==
  /\ page = "idle"
  /\ page' = "postgres"
  /\ UNCHANGED <<vars, today, board>>

\* latest(engine), in a snapshot of its own.
ReadPostgres ==
  /\ page = "postgres"
  /\ Show([s \in Symbol |-> SqlCard(s)])
  /\ UNCHANGED <<vars, today>>

\* Both clocks pass midnight; the last date is that of the last trade.
Midnight ==
  /\ \E t \in Trade : today < DayOf[t]
  /\ today' = today + 1
  /\ UNCHANGED <<vars, pageVars>>

\* The stream goes on, with trades that are not of tomorrow.
StreamStep ==
  /\ Next
  /\ \A t \in arrived' : DayOf[t] <= today
  /\ UNCHANGED <<today, pageVars>>

PageStep == ReadRedis \/ RedisMisses \/ ReadPostgres

BoardNext == StreamStep \/ PageStep \/ Midnight

BoardSpec == BoardInit /\ [][BoardNext]_boardVars

\* A refresh whose calls return or time out; nothing makes Redis miss a board
\* it has.
Refresh == ReadRedis \/ ReadPostgres \/ (RedisMisses /\ ~AllHashes)

\* The main thread is scheduled and its calls return, with a result or an
\* exception; a callback that put its trades goes on to record them; the page
\* stays open.  Nothing is assumed of the feed, of Redis or of the container
\* runtime.
BoardFairness ==
  /\ WF_boardVars(MainStep /\ StreamStep)
  /\ WF_boardVars(RecordTrades /\ StreamStep)
  /\ WF_boardVars(Refresh)

FairBoardSpec == BoardSpec /\ BoardFairness

----------------------------------------------------------------------------
BoardTypeOK ==
  /\ TypeOK
  /\ today \in Nat
  /\ page \in {"idle", "postgres"}
  /\ board \in [Symbol -> Card]

\* The stream knows, or is about to write, what Redis lacks.
Behind == needsReseed \/ pc = "save"

\* "Same board, a bit slower" (README.md:259): while no flush is between its
\* two stores and none has failed, a refresh from Redis shows what the query
\* on Postgres would show at that moment, except that the flush which took
\* trades of both sides of midnight left its earlier trades in the new day's
\* statistics: fewer than one batch.
SameBoard ==
  [][ReadRedis /\ ~Behind =>
       \A s \in Symbol :
         LET card == board'[s]
             sql  == SqlCard(s)
             leak == card.seen \ sql.seen
         IN /\ card.tradeTs = sql.tradeTs
            /\ sql.seen \subseteq card.seen
            /\ card.count = sql.count + Cardinality(leak)
            /\ \A t \in leak : DayOf[t] < today
            /\ Cardinality(leak) < MaxRows
            /\ leak = {} => card.openTs = sql.openTs]_boardVars

\* A price on the screen is not replaced by an older one, unless Redis answers
\* while the stream has not brought it up to Postgres: the query never shows
\* less than Redis did, and once they are in step no restart, reseed or
\* half-known write lets Redis show less than either did.
PriceGoesBackOnlyBehind ==
  [][\A s \in Symbol :
       board'[s].tradeTs < board[s].tradeTs =>
         ReadRedis /\ Behind]_boardVars

\* A stored price, or a newer one, reaches the screen, once a flush has left
\* Redis in step: no later failure, reconnect or refresh can hold it back.
Shown(t) == board[SymbolOf[t]].tradeTs >= TsOf[t]

StoredPriceIsShown ==
  \A t \in Trade : (t \in rawTrades /\ pc = "drain" /\ ~needsReseed) ~> Shown(t)

=============================================================================

----------------------------- MODULE PriceAlerts -----------------------------
(***************************************************************************)
(* Price alerts: one table, price_alerts, with two writers that know       *)
(* nothing of each other.  The api (api/main.py, api/db.py) inserts an     *)
(* alert for the account a token names and deletes alerts for admins.  The *)
(* stream (check_alerts in stream/main.py, stream/alerts.py) reads the     *)
(* alerts that have not fired after every flush, matches them against the  *)
(* batch outside the database, and marks those that crossed.  Both the     *)
(* read and the update are one transaction at READ COMMITTED, so an alert  *)
(* may appear or disappear between them.                                   *)
(*                                                                         *)
(* A commit the stream has sent when its process dies may be applied after *)
(* its successor has started: it is kept in lateMarks, and Postgres keeps  *)
(* the rows it updates locked meanwhile.                                   *)
(***************************************************************************)
EXTENDS Accounts, FiniteSets

CONSTANTS
  Trade,      \* trades that come off the socket
  NoTrade,    \* triggered_at and triggered_price are NULL
  Symbol,     \* their symbols
  SymbolOf,   \* the symbol of a trade
  PriceOf,    \* its price
  TsOf,       \* its trade_ts
  Wish,       \* what an alert may ask: a symbol, a direction, a threshold
  MaxAlerts,  \* bound: alert_ids of a behaviour
  MaxRows,    \* FLUSH_MAX_ROWS
  Faults      \* the failures of the stream that may happen

FaultKinds == {"checkFails", "crash", "lateCommit"}

Direction == {"above", "below"}

ASSUME AlertAssumption ==
  /\ IsFiniteSet(Trade)
  /\ NoTrade \notin Trade
  /\ SymbolOf \in [Trade -> Symbol]
  /\ PriceOf \in [Trade -> Nat]
  /\ TsOf \in [Trade -> Nat]
  /\ Wish \subseteq [symbol : Symbol, direction : Direction, threshold : Nat]
  /\ MaxAlerts \in Nat
  /\ MaxRows \in Nat \ {0}
  /\ Faults \subseteq FaultKinds

VARIABLES
  alerts,     \* Postgres: the rows of price_alerts
  lastId,     \* Postgres: the newest alert_id of its sequence
  pc,         \* the stream's main thread: "flush", "read" or "mark"
  batch,      \* check_alerts: trades
  fired,      \* check_alerts: the pairs of an alert and its trade
  flushed,    \* trades drained so far
  lateMarks,  \* a commit sent by a process that has died
  known,      \* history: alerts of the table when the batch was matched
  offered,    \* history: trades checked for each alert while it waited
  deleted     \* history: alerts that a delete removed

streamVars == <<pc, batch, fired, flushed, lateMarks>>
history == <<known, offered, deleted>>
alertVars == <<alerts, lastId, streamVars, history>>
vars == <<accountVars, alertVars>>

AlertId == 1..MaxAlerts
NoAlert == [owner |-> "none"]
Waiting == {i \in AlertId : alerts[i] # NoAlert /\ alerts[i].by = NoTrade}

----------------------------------------------------------------------------
\* crossed(): the threshold itself counts.
Crossed(wish, t) ==
  /\ SymbolOf[t] = wish.symbol
  /\ IF wish.direction = "above" THEN PriceOf[t] >= wish.threshold
     ELSE PriceOf[t] <= wish.threshold

\* Mutant: the last crossing of the batch is recorded.
LastCrossings(wish, B) ==
  {t \in B : Crossed(wish, t) /\
             \A u \in B : Crossed(wish, u) => TsOf[u] <= TsOf[t]}

\* find_triggered sorts by time and takes the first trade that crosses; of
\* two with the same time, the one that came first, which may be either.
FirstCrossings(wish, B) ==
  {t \in B : Crossed(wish, t) /\
             \A u \in B : Crossed(wish, u) => TsOf[t] <= TsOf[u]}

\* Mutant: an alert that nothing crosses is a result too, without a trade.
TriggeredOrNone(I, B) ==
  {f \in [I -> B \cup {NoTrade}] :
     \A i \in I : IF FirstCrossings(alerts[i].wish, B) = {} THEN f[i] = NoTrade
                  ELSE f[i] \in FirstCrossings(alerts[i].wish, B)}

\* find_triggered's possible results for the alerts in I.
Triggered(I, B) ==
  LET hit == {i \in I : FirstCrossings(alerts[i].wish, B) # {}}
  IN {f \in [hit -> B] : \A i \in hit : f[i] \in FirstCrossings(alerts[i].wish, B)}

\* Mutant: the update does not ask for triggered_at IS NULL.
MarkAll(f) ==
  [i \in AlertId |-> IF i \in DOMAIN f /\ alerts[i] # NoAlert
                     THEN [alerts[i] EXCEPT !.by = f[i]] ELSE alerts[i]]

\* MARK_TRIGGERED_SQL for each fired alert: rows that are gone or have fired
\* are not touched.
Marked(f) ==
  [i \in AlertId |-> IF i \in DOMAIN f \cap Waiting
                     THEN [alerts[i] EXCEPT !.by = f[i]] ELSE alerts[i]]

NoMarks == [i \in {} |-> NoTrade]
Locked == DOMAIN lateMarks

Init ==
  /\ AccountsInit
  /\ alerts = [i \in AlertId |-> NoAlert]
  /\ lastId = 0
  /\ pc = "flush"
  /\ batch = {}
  /\ fired = NoMarks
  /\ flushed = {}
  /\ lateMarks = NoMarks
  /\ known = {}
  /\ offered = [i \in AlertId |-> {}]
  /\ deleted = {}

----------------------------------------------------------------------------
(***************************************************************************)
(* The api.                                                                *)
(***************************************************************************)
\* Mutant: the next id is taken from the newest row that is left.
NextFromRows ==
  1 + (IF \E i \in AlertId : alerts[i] # NoAlert
       THEN CHOOSE i \in AlertId : /\ alerts[i] # NoAlert
                                   /\ \A j \in AlertId : alerts[j] # NoAlert => j <= i
       ELSE 0)

\* BIGSERIAL: ids are given once, whatever becomes of the row.
NextId == lastId + 1

\* INSERT ... SELECT: the row belongs to the account of that address.
InsertAlert(e, w) ==
  [alerts EXCEPT ![NextId] = [owner |-> e, wish |-> w, by |-> NoTrade]]

\* POST /alerts of a signed-in browser, for the account the token names.
\* When it is gone the SELECT finds no row and the api answers 401, which is
\* AccountGone.
CreateAlert(b, w) ==
  /\ api = "up" /\ Valid(b)
  /\ Exists(session[b].email)
  /\ NextId \in AlertId
  /\ alerts' = InsertAlert(session[b].email, w)
  /\ lastId' = NextId
  /\ UNCHANGED <<accountVars, streamVars, history>>

\* Mutant: any signed-in user may delete.
AnyUser(b) == TRUE

\* require_admin: the role the token carries.
MayDelete(b) == session[b].role = "admin"

AlertsWithout(i) == [alerts EXCEPT ![i] = NoAlert]

\* DELETE /alerts/{id} for an id that has been given out.  For a plain user
\* (403) or a row that is gone (404) nothing changes.  A row that a commit
\* under way has updated is waited for.
DeleteAlert(b, i) ==
  /\ api = "up" /\ Valid(b) /\ MayDelete(b)
  /\ alerts[i] # NoAlert
  /\ i \notin Locked
  /\ alerts' = AlertsWithout(i)
  /\ deleted' = deleted \cup {i}
  /\ UNCHANGED <<accountVars, lastId, streamVars, known, offered>>

\* What happens to accounts and sign-ins meanwhile.  price_alerts.user_id
\* REFERENCES users, so an account with alerts is not deleted.
AccountStep ==
  /\ AccountsNext
  /\ \A i \in AlertId :
       alerts[i] # NoAlert => users'[alerts[i].owner] # NoAccount
  /\ UNCHANGED alertVars

----------------------------------------------------------------------------
(***************************************************************************)
(* The stream, whose flush is Stream's; here its batch is any set of       *)
(* trades not drained before.  Whether the insert worked makes no          *)
(* difference to check_alerts.                                             *)
(***************************************************************************)
Flush ==
  /\ pc = "flush"
  /\ \E B \in SUBSET (Trade \ flushed) :
       /\ B # {} /\ Cardinality(B) <= MaxRows
       /\ batch' = B
       /\ flushed' = flushed \cup B
  /\ pc' = "read"
  /\ UNCHANGED <<accountVars, alerts, lastId, fired, lateMarks, history>>

\* PENDING_ALERTS_SQL: a commit that is under way is not seen.
ReadPending == Waiting

\* read_pending_alerts and find_triggered.
Match ==
  /\ pc = "read"
  /\ tables
  /\ fired' \in Triggered(ReadPending, batch)
  /\ known' = {i \in AlertId : alerts[i] # NoAlert}
  /\ pc' = "mark"
  /\ UNCHANGED <<accountVars, alerts, lastId, batch, flushed, lateMarks,
                 offered, deleted>>

Done ==
  /\ pc' = "flush"
  /\ batch' = {}
  /\ fired' = NoMarks
  /\ known' = {}

\* mark_triggered and the commit, when no other update holds its rows.
Mark ==
  /\ pc = "mark"
  /\ DOMAIN fired \cap Locked = {}
  /\ alerts' = Marked(fired)
  /\ offered' = [i \in AlertId |-> IF i \in known \cap Waiting
                                   THEN offered[i] \cup batch ELSE offered[i]]
  /\ Done
  /\ UNCHANGED <<accountVars, lastId, flushed, lateMarks, deleted>>

\* Anything raises, or there is no table yet: printed and forgotten, and the
\* batch is not checked again.
CheckFails ==
  /\ pc \in {"read", "mark"}
  /\ "checkFails" \in Faults \/ ~tables
  /\ Done
  /\ UNCHANGED <<accountVars, alerts, lastId, flushed, lateMarks, offered, deleted>>

\* The process dies at any point and starts again with a new connection.  Of
\* a check it was committing, the updates may still be applied.
Crash ==
  /\ "crash" \in Faults
  /\ pc # "flush"
  /\ Done
  /\ \/ UNCHANGED lateMarks
     \/ /\ "lateCommit" \in Faults
        /\ pc = "mark" /\ lateMarks = NoMarks
        /\ lateMarks' = [i \in DOMAIN fired \cap Waiting |-> fired[i]]
  /\ UNCHANGED <<accountVars, alerts, lastId, flushed, offered, deleted>>

\* Postgres applies the dead process's commit, or rolls it back.
LateCommit ==
  /\ lateMarks # NoMarks
  /\ lateMarks' = NoMarks
  /\ alerts' = Marked(lateMarks) \/ alerts' = alerts
  /\ UNCHANGED <<accountVars, lastId, pc, batch, fired, flushed, history>>

----------------------------------------------------------------------------
AlertsNext ==
  \E b \in Browser :
    \/ \E w \in Wish : CreateAlert(b, w)
    \/ \E i \in AlertId : DeleteAlert(b, i)

CheckNext == Flush \/ Match \/ Mark \/ CheckFails \/ Crash \/ LateCommit

Next == AccountStep \/ AlertsNext \/ CheckNext

Spec == Init /\ [][Next]_vars

----------------------------------------------------------------------------
Row == [owner : Spelling, wish : Wish, by : Trade \cup {NoTrade}]
Marks == UNION {[I -> Trade] : I \in SUBSET AlertId}

TypeOK ==
  /\ AccountsTypeOK
  /\ alerts \in [AlertId -> Row \cup {NoAlert}]
  /\ lastId \in 0..MaxAlerts
  /\ pc \in {"flush", "read", "mark"}
  /\ batch \in SUBSET Trade
  /\ fired \in Marks
  /\ flushed \in SUBSET Trade
  /\ lateMarks \in Marks
  /\ known \in SUBSET AlertId
  /\ offered \in [AlertId -> SUBSET Trade]
  /\ deleted \in SUBSET AlertId

\* An alert fires once and is never overwritten by a later trade (writer.py,
\* above MARK_TRIGGERED_SQL), not by a second check of a batch nor by a
\* commit that its dead process had sent.
FiresOnce ==
  [][\A i \in AlertId :
       alerts[i] # NoAlert /\ alerts[i].by # NoTrade =>
         alerts'[i] \in {alerts[i], NoAlert}]_alerts

\* "The stream stops watching for it" (views/alerts.py): a deleted alert
\* never comes back, neither through a check that had read it nor as another
\* alert under its id, for which a stale page would show the old one.
DeletedStaysDeleted == \A i \in deleted : alerts[i] = NoAlert

\* An alert that waits has not been offered a trade that crosses it; one
\* that fired recorded the first crossing it was offered, or one no later.
\* Trades are offered when the check of a batch commits to the alerts of the
\* table at its read.
FirstCrossingFires ==
  \A i \in AlertId : alerts[i] # NoAlert =>
    LET row == alerts[i]
        crossing == {t \in offered[i] : Crossed(row.wish, t)}
    IN IF row.by = NoTrade THEN crossing = {}
       ELSE Crossed(row.wish, row.by) /\ \A t \in crossing : TsOf[row.by] <= TsOf[t]

\* An alert goes only by the request of somebody whose address is an
\* admin's, or was when the token was issued; whose it is and what it asks
\* never change, though the stream updates its row.
RemovedByAdmins ==
  [][\A i \in AlertId : alerts[i] # NoAlert =>
       IF alerts'[i] = NoAlert
       THEN \E b \in Browser : /\ Valid(b) /\ session[b].role = "admin"
                               /\ AdminLately(session[b].email)
       ELSE alerts'[i].owner = alerts[i].owner /\ alerts'[i].wish = alerts[i].wish]_alerts

=============================================================================

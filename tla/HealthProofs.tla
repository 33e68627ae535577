---------------------------- MODULE HealthProofs ----------------------------
(***************************************************************************)
(* Theorems about StreamHealth: the verdicts of the pipeline page, for     *)
(* every stale time, status interval and delay, and every combination of   *)
(* failures.                                                               *)
(***************************************************************************)
EXTENDS StreamHealth, TLAPS

SessionRow == [status : {"live", "closed", "failed"}, messageAt : Time,
               tradeAt : Time, market : Market \cup {Unknown}]

----------------------------------------------------------------------------
(***************************************************************************)
(* Lemmas about the operators of the model.                                *)
(***************************************************************************)
\* Min of two integers is the smaller of the two.
LEMMA MinOfTwo ==
  ASSUME NEW a \in Int, NEW b \in Int
  PROVE  Min({a, b}) = IF a <= b THEN a ELSE b
<1>1. CASE a <= b
  <2>1. \A y \in {a, b} : a <= y
    BY <1>1
  <2>2. \A x \in {a, b} : (\A y \in {a, b} : x <= y) => x = a
    BY <1>1
  <2>3. QED
    BY <1>1, <2>1, <2>2 DEF Min
<1>2. CASE ~(a <= b)
  <2>1. \A y \in {a, b} : b <= y
    BY <1>2
  <2>2. \A x \in {a, b} : (\A y \in {a, b} : x <= y) => x = b
    BY <1>2
  <2>3. QED
    BY <1>2, <2>1, <2>2 DEF Min
<1>3. QED
  BY <1>1, <1>2

\* The later of two times is a time, is one of them, and neither is after it.
LEMMA LaterIsATime ==
  ASSUME NEW a \in Time, NEW b \in Time
  PROVE  /\ Later(a, b) \in Time
         /\ a <= Later(a, b) /\ b <= Later(a, b)
         /\ \A c \in Time : a <= c /\ b <= c => Later(a, b) <= c
BY HealthAssumption DEF Later, Time, Never, ValidSettings

\* A heartbeat keeps the shape of the row and its verdict, and takes the later
\* of the two times.
LEMMA HeartbeatRow ==
  ASSUME row \in SessionRow, beat \in Times, status \in Market \cup {Unknown}
  PROVE  /\ Heartbeat \in SessionRow
         /\ Heartbeat.status = row.status
         /\ Heartbeat.messageAt = Later(row.messageAt, beat.messageAt)
         /\ Heartbeat.tradeAt = Later(row.tradeAt, beat.tradeAt)
<1>1. /\ Later(row.messageAt, beat.messageAt) \in Time
      /\ Later(row.tradeAt, beat.tradeAt) \in Time
  BY LaterIsATime DEF SessionRow, Times
<1>2. QED
  BY <1>1 DEF Heartbeat, SessionRow

----------------------------------------------------------------------------
(***************************************************************************)
(* The inductive invariant.  A row exists from the first session on; what  *)
(* was read for a heartbeat and what the row holds is never later than     *)
(* what the events hold (PastInv), and is all of it two flushes after the  *)
(* last event (FlushInv).                                                  *)
(***************************************************************************)
TypeInv == TypeOK /\ (pc # "connect" => row \in SessionRow)

PastInv ==
  /\ messageAt = lastEvent
  /\ tradeAt <= messageAt /\ messageAt <= now
  /\ beat.messageAt <= messageAt
  /\ beat.tradeAt <= tradeAt
  /\ row # NoSession => row.messageAt <= messageAt /\ row.tradeAt <= tradeAt

FlushInv ==
  /\ flushed.event > 0 /\ pc \in {"readTrade", "write"} =>
       beat.messageAt = messageAt
  /\ flushed.trade > 0 /\ pc = "write" => beat.tradeAt = tradeAt
  /\ row # NoSession /\ flushed.event = 2 => row.messageAt = messageAt
  /\ row # NoSession /\ flushed.trade = 2 => row.tradeAt = tradeAt

IInv == TypeInv /\ PastInv /\ FlushInv

LEMMA NoSessionIsNoRow == NoSession \notin SessionRow
BY DEF NoSession, SessionRow

LEMMA InitInv == Init => IInv
<1> SUFFICES ASSUME Init PROVE IInv
  OBVIOUS
<1>1. Never \in Time /\ 0 \in 0..MaxTime /\ 0 \in 0..MaxSilent
  BY HealthAssumption DEF Time, Never, ValidSettings
<1>2. TypeInv
  <2>1. beat \in Times /\ flushed \in [event : 0..2, trade : 0..2]
    BY <1>1 DEF Init, Times
  <2>2. QED
    BY <1>1, <2>1 DEF Init, TypeInv, TypeOK
<1>3. PastInv /\ FlushInv
  BY DEF Init, PastInv, FlushInv, Never
<1>4. QED
  BY <1>2, <1>3 DEF IInv

----------------------------------------------------------------------------
\* Every step keeps the types.
LEMMA TypeInvStep == TypeInv /\ PastInv /\ [Next]_vars => TypeInv'
<1> SUFFICES ASSUME TypeInv, PastInv, [Next]_vars PROVE TypeInv'
  OBVIOUS
<1> USE DEF TypeInv, loopVars, eventVars, history
<1>0. /\ Never \in Time /\ now \in Time /\ now \in 0..MaxTime
      /\ 0 \in 0..MaxSilent /\ MaxTime \in Nat /\ MaxSilent \in Nat
      /\ StatusEvery \in Nat /\ MaxDelay \in Nat
  BY HealthAssumption DEF TypeOK, Time, Never, ValidSettings
<1>1. ASSUME NEW e \in Event, Record(e) PROVE TypeInv'
  <2>1. flushed' \in [event : 0..2, trade : 0..2]
    BY <1>1 DEF Record, TypeOK
  <2>2. heard' \in BOOLEAN
    BY <1>1, Zenon DEF Record
  <2>3. UNCHANGED <<now, row, pc, status, nextStatus, beat, attempts, wake, sock,
                   tradeAt, closed, error, silent>>
        /\ messageAt' = now /\ lastEvent' = now /\ callback' = e
    BY <1>1 DEF Record
  <2>4. QED
    <3>1. /\ now' \in 0..MaxTime /\ pc' = pc /\ row' = row
          /\ status' \in Market \cup {Unknown}
          /\ nextStatus' \in Nat /\ beat' \in Times
          /\ attempts' \in Nat /\ wake' \in Nat
          /\ sock' \in {"up", "down"} /\ callback' \in Event \cup {Idle}
          /\ messageAt' \in Time /\ tradeAt' \in Time /\ lastEvent' \in Time
          /\ silent' \in 0..MaxSilent
      BY <1>0, <1>1, <2>3 DEF TypeOK
    <3>2. closed' \in BOOLEAN /\ error' \in BOOLEAN
      BY <2>3 DEF TypeOK
    <3>3. QED
      BY <2>1, <2>2, <3>1, <3>2 DEF TypeOK
<1>2. CASE Recorded
  BY <1>0, <1>2 DEF Recorded, TypeOK
<1>3. CASE StartSession
  <2>1. row' \in SessionRow
    BY <1>0, <1>3 DEF StartSession, SessionRow
  <2>2. beat' \in Times /\ flushed' \in [event : 0..2, trade : 0..2]
    BY <1>0, <1>3 DEF StartSession, Times
  <2>3. row' \in {NoSession} \cup SessionRow
    BY <2>1
  <2>4. QED
    BY <1>0, <1>3, <2>1, <2>2, <2>3 DEF StartSession, TypeOK, SessionRow
<1>4. CASE FetchMarket
  <2>1. status' \in Market \cup {Unknown} /\ nextStatus' \in Nat
    BY <1>0, <1>4 DEF FetchMarket, FetchedStatus, TypeOK
  <2>2. QED
    BY <1>0, <1>4, <2>1 DEF FetchMarket, TypeOK
<1>5. CASE ReadMessageAt
  BY <1>0, <1>5 DEF ReadMessageAt, LastMessage, TypeOK, Times
<1>6. CASE ReadTradeAt
  BY <1>0, <1>6 DEF ReadTradeAt, TypeOK, Times
<1>7. CASE Write
  <2>1. row' \in SessionRow
    BY <1>7, HeartbeatRow DEF Write, TypeOK
  <2>2. flushed' \in [event : 0..2, trade : 0..2]
    <3>1. \A f \in {"event", "trade"} : flushed[f] \in 0..2
      BY DEF TypeOK
    <3>2. \A f \in {"event", "trade"} : Min({flushed[f] + 1, 2}) \in 0..2
      BY <3>1, MinOfTwo
    <3>3. QED
      BY <1>7, <3>2 DEF Write
  <2>3. QED
    BY <1>0, <1>7, <2>1, <2>2 DEF Write, TypeOK, SessionRow
<1>8. CASE WriteFails
  BY <1>0, <1>8 DEF WriteFails, TypeOK
<1>9. CASE CheckClosed
  BY <1>0, <1>9 DEF CheckClosed, TypeOK
<1>10. CASE Finish
  <2>1. row' \in SessionRow
    BY <1>10 DEF Finish, FinalStatus, SessionRow
  <2>2. QED
    BY <1>0, <1>10, <2>1 DEF Finish, TypeOK, SessionRow
<1>11. CASE Backoff
  <2>1. wake' \in Nat /\ attempts' \in Nat
    BY <1>0, <1>11 DEF Backoff, AttemptsNow, TypeOK
  <2>2. silent' \in 0..MaxSilent
    <3>1. silent + 1 \in Int /\ silent + 1 >= 0
      BY <1>0 DEF TypeOK
    <3>2. Min({silent + 1, MaxSilent}) \in 0..MaxSilent
      BY <1>0, <3>1, MinOfTwo
    <3>3. QED
      BY <1>0, <1>11, <3>2 DEF Backoff
  <2>3. QED
    BY <1>0, <1>11, <2>1, <2>2 DEF Backoff, TypeOK
<1>12. CASE WakeUp
  BY <1>0, <1>12 DEF WakeUp, TypeOK
<1>13. CASE Crash
  BY <1>0, <1>13 DEF Crash, TypeOK, Idle
<1>14. CASE Tick
  BY <1>0, <1>14 DEF Tick, TypeOK
<1>15. CASE UNCHANGED vars
  BY <1>15 DEF vars, TypeOK
<1>16. QED
  BY <1>1, <1>2, <1>3, <1>4, <1>5, <1>6, <1>7, <1>8, <1>9, <1>10, <1>11, <1>12,
     <1>13, <1>14, <1>15 DEF Next, SocketNext, MainNext

----------------------------------------------------------------------------
\* Nothing that was read or stored is later than the events, and they are
\* not later than the clock.
LEMMA PastInvStep == TypeInv /\ PastInv /\ [Next]_vars => PastInv'
<1> SUFFICES ASSUME TypeInv, PastInv, [Next]_vars PROVE PastInv'
  OBVIOUS
<1> USE DEF loopVars, eventVars, history
<1>0. /\ now \in Nat /\ MaxTime \in Nat
      /\ messageAt \in Int /\ tradeAt \in Int /\ messageAt >= Never
      /\ messageAt \in Time /\ tradeAt \in Time
      /\ beat.messageAt \in Time /\ beat.tradeAt \in Time
      /\ Never \in Int /\ Never <= now
  BY HealthAssumption DEF TypeInv, TypeOK, Times, Time, Never
<1>1. ASSUME row \in SessionRow
      PROVE  row.messageAt \in Time /\ row.tradeAt \in Time
  BY <1>1 DEF SessionRow
<1>2. row # NoSession => row \in SessionRow
  BY DEF TypeInv, TypeOK, SessionRow
<1>3. ASSUME NEW e \in Event, Record(e) PROVE PastInv'
  <2>1. /\ messageAt' = now /\ lastEvent' = now
        /\ UNCHANGED <<now, row, beat, tradeAt>>
    BY <1>3 DEF Record
  <2>2. row # NoSession => row.messageAt <= now
    BY <1>0, <1>1, <1>2 DEF PastInv, Time, Never
  <2>3. beat.messageAt <= now /\ tradeAt <= now
    BY <1>0 DEF PastInv, Time, Never
  <2>4. QED
    BY <1>0, <2>1, <2>2, <2>3 DEF PastInv
<1>4. CASE Recorded
  <2>1. /\ tradeAt' = tradeAt \/ tradeAt' = messageAt
        /\ UNCHANGED <<now, row, beat, messageAt, lastEvent>>
    BY <1>4 DEF Recorded
  <2>2. tradeAt <= tradeAt' /\ tradeAt' <= messageAt
    BY <1>0, <2>1 DEF PastInv
  <2>3. row # NoSession => row.tradeAt <= tradeAt'
    BY <1>0, <1>1, <1>2, <2>1, <2>2 DEF PastInv, Time, Never
  <2>4. beat.tradeAt <= tradeAt'
    BY <1>0, <2>1, <2>2 DEF PastInv, Time, Never
  <2>5. QED
    BY <2>1, <2>2, <2>3, <2>4 DEF PastInv
<1>5. CASE StartSession
  <2>1. /\ row'.messageAt = Never /\ row'.tradeAt = Never
        /\ beat'.messageAt = Never /\ beat'.tradeAt = Never
        /\ messageAt' = Never /\ tradeAt' = Never /\ lastEvent' = Never
        /\ now' = now
    BY <1>5 DEF StartSession
  <2>2. QED
    BY <1>0, <2>1 DEF PastInv
<1>6. CASE ReadMessageAt
  BY <1>0, <1>6 DEF ReadMessageAt, LastMessage, PastInv, TypeInv, TypeOK, Times
<1>7. CASE ReadTradeAt
  BY <1>0, <1>7 DEF ReadTradeAt, PastInv, TypeInv, TypeOK, Times
<1>8. CASE Write
  <2>1. row \in SessionRow
    BY <1>8 DEF Write, TypeInv
  <2>2. /\ row'.messageAt = Later(row.messageAt, beat.messageAt)
        /\ row'.tradeAt = Later(row.tradeAt, beat.tradeAt)
        /\ UNCHANGED <<now, beat, messageAt, tradeAt, lastEvent>>
    BY <1>8, <2>1, HeartbeatRow DEF Write, TypeInv, TypeOK
  <2>3. row.messageAt <= messageAt /\ row.tradeAt <= tradeAt
    BY <2>1, NoSessionIsNoRow DEF PastInv
  <2>4. row'.messageAt <= messageAt /\ row'.tradeAt <= tradeAt
    <3>1. row.messageAt \in Time /\ row.tradeAt \in Time
      BY <1>1, <2>1
    <3>2. Later(row.messageAt, beat.messageAt) <= messageAt
      BY <1>0, <2>3, <3>1, LaterIsATime DEF PastInv
    <3>3. Later(row.tradeAt, beat.tradeAt) <= tradeAt
      BY <1>0, <2>3, <3>1, LaterIsATime DEF PastInv
    <3>4. QED
      BY <2>2, <3>2, <3>3
  <2>5. QED
    BY <2>2, <2>4 DEF PastInv
<1>9. CASE Finish
  <2>1. row \in SessionRow
    BY <1>9 DEF Finish, TypeInv
  <2>2. /\ row'.messageAt = row.messageAt /\ row'.tradeAt = row.tradeAt
        /\ UNCHANGED <<now, beat, messageAt, tradeAt, lastEvent>>
    BY <1>9, <2>1 DEF Finish, SessionRow
  <2>3. QED
    BY <2>1, <2>2, NoSessionIsNoRow DEF PastInv
<1>10. CASE Tick
  <2>1. now' = now + 1 /\ UNCHANGED <<row, beat, messageAt, tradeAt, lastEvent>>
    BY <1>10 DEF Tick
  <2>2. messageAt <= now'
    BY <1>0, <2>1 DEF PastInv
  <2>3. QED
    BY <2>1, <2>2 DEF PastInv
<1>11. CASE FetchMarket \/ WriteFails \/ CheckClosed \/ Backoff \/ WakeUp
            \/ Crash \/ UNCHANGED vars
  <2>1. UNCHANGED <<now, row, beat, messageAt, tradeAt, lastEvent>>
    BY <1>11 DEF FetchMarket, WriteFails, CheckClosed, Backoff, WakeUp, Crash, vars
  <2>2. QED
    BY <2>1 DEF PastInv
<1>12. QED
  BY <1>3, <1>4, <1>5, <1>6, <1>7, <1>8, <1>9, <1>10, <1>11
     DEF Next, SocketNext, MainNext

----------------------------------------------------------------------------
\* A flush after the last event takes it to the heartbeat, and its commit to
\* the row.
LEMMA FlushInvStep == IInv /\ [Next]_vars => FlushInv'
<1> SUFFICES ASSUME IInv, [Next]_vars PROVE FlushInv'
  OBVIOUS
<1> USE DEF loopVars, eventVars, history
<1>0. /\ flushed \in [event : 0..2, trade : 0..2]
      /\ TypeInv /\ PastInv /\ FlushInv /\ beat \in Times
      /\ messageAt \in Time /\ tradeAt \in Time
  BY DEF IInv, TypeInv, TypeOK
<1>1. ASSUME NEW e \in Event, Record(e) PROVE FlushInv'
  <2>1. /\ flushed'.event = 0 /\ flushed'.trade = flushed.trade
        /\ UNCHANGED <<row, pc, beat, tradeAt>>
    BY <1>0, <1>1 DEF Record
  <2>2. QED
    BY <1>0, <2>1 DEF FlushInv
<1>2. CASE Recorded
  <2>1. /\ flushed'.event = flushed.event
        /\ (flushed' = flushed /\ tradeAt' = tradeAt) \/ flushed'.trade = 0
        /\ UNCHANGED <<row, pc, beat, messageAt>>
    BY <1>0, <1>2 DEF Recorded
  <2>2. QED
    BY <1>0, <2>1 DEF FlushInv
<1>3. CASE StartSession
  <2>1. flushed'.event = 0 /\ flushed'.trade = 0
    BY <1>3 DEF StartSession
  <2>2. QED
    BY <2>1 DEF FlushInv
<1>4. CASE ReadMessageAt
  <2>1. /\ beat'.messageAt = messageAt /\ pc' = "readTrade"
        /\ UNCHANGED <<row, messageAt, tradeAt, flushed>>
    BY <1>0, <1>4 DEF ReadMessageAt, LastMessage, Times
  <2>2. QED
    BY <1>0, <2>1 DEF FlushInv
<1>5. CASE ReadTradeAt
  <2>1. /\ beat'.tradeAt = tradeAt /\ beat'.messageAt = beat.messageAt
        /\ pc = "readTrade" /\ pc' = "write"
        /\ UNCHANGED <<row, messageAt, tradeAt, flushed>>
    BY <1>0, <1>5 DEF ReadTradeAt, Times
  <2>2. QED
    BY <1>0, <2>1 DEF FlushInv
<1>6. CASE Write
  <2>1. row \in SessionRow /\ row # NoSession
    BY <1>0, <1>6, NoSessionIsNoRow DEF Write, TypeInv
  <2>2. /\ row'.messageAt = Later(row.messageAt, beat.messageAt)
        /\ row'.tradeAt = Later(row.tradeAt, beat.tradeAt)
        /\ pc = "write" /\ pc' = "closed"
        /\ UNCHANGED <<messageAt, tradeAt>>
    BY <1>0, <1>6, <2>1, HeartbeatRow DEF Write, TypeInv, TypeOK
  <2>3. /\ row.messageAt \in Time /\ row.tradeAt \in Time
        /\ beat.messageAt \in Time /\ beat.tradeAt \in Time
        /\ row.messageAt <= messageAt /\ row.tradeAt <= tradeAt
        /\ beat.messageAt <= messageAt /\ beat.tradeAt <= tradeAt
    BY <1>0, <2>1 DEF SessionRow, Times, PastInv
  <2>4. \A f \in {"event", "trade"} : flushed'[f] = 2 => flushed[f] > 0
    <3>1. SUFFICES ASSUME NEW f \in {"event", "trade"}, flushed'[f] = 2
                   PROVE  flushed[f] > 0
      OBVIOUS
    <3>2. flushed[f] \in 0..2
      BY <1>0
    <3>3. flushed'[f] = IF flushed[f] + 1 <= 2 THEN flushed[f] + 1 ELSE 2
      BY <1>6, <3>2, MinOfTwo DEF Write
    <3>4. QED
      BY <3>1, <3>2, <3>3
  <2>5. flushed'.event = 2 => row'.messageAt = messageAt
    BY <1>0, <2>2, <2>3, <2>4 DEF FlushInv, Later, Time, Never
  <2>6. flushed'.trade = 2 => row'.tradeAt = tradeAt
    BY <1>0, <2>2, <2>3, <2>4 DEF FlushInv, Later, Time, Never
  <2>7. QED
    BY <2>2, <2>5, <2>6 DEF FlushInv
<1>7. CASE Finish
  <2>1. row \in SessionRow /\ row # NoSession
    BY <1>0, <1>7, NoSessionIsNoRow DEF Finish, TypeInv
  <2>2. /\ row'.messageAt = row.messageAt /\ row'.tradeAt = row.tradeAt
        /\ pc' = "backoff"
        /\ UNCHANGED <<messageAt, tradeAt, flushed>>
    BY <1>7, <2>1 DEF Finish, SessionRow
  <2>3. QED
    BY <1>0, <2>1, <2>2 DEF FlushInv
<1>8. CASE FetchMarket \/ WriteFails \/ CheckClosed \/ Backoff \/ WakeUp \/ Crash
  <2>1. /\ UNCHANGED <<row, messageAt, tradeAt, flushed>>
        /\ pc' \notin {"readTrade", "write"}
    BY <1>8 DEF FetchMarket, WriteFails, CheckClosed, Backoff, WakeUp, Crash
  <2>2. QED
    BY <1>0, <2>1 DEF FlushInv
<1>9. CASE Tick \/ UNCHANGED vars
  <2>1. UNCHANGED <<row, pc, beat, messageAt, tradeAt, flushed>>
    BY <1>9 DEF Tick, vars
  <2>2. QED
    BY <1>0, <2>1 DEF FlushInv
<1>10. QED
  BY <1>1, <1>2, <1>3, <1>4, <1>5, <1>6, <1>7, <1>8, <1>9
     DEF Next, SocketNext, MainNext

LEMMA Invariance == Spec => []IInv
<1>1. IInv /\ [Next]_vars => IInv'
  BY TypeInvStep, PastInvStep, FlushInvStep DEF IInv
<1>2. QED
  BY <1>1, InitInv, PTL DEF Spec

----------------------------------------------------------------------------
(***************************************************************************)
(* The theorems.                                                           *)
(***************************************************************************)
\* Every variable of the model keeps its type.
THEOREM TypeCorrect == Spec => []TypeOK
<1>1. IInv => TypeOK
  BY DEF IInv, TypeInv
<1>2. QED
  BY <1>1, Invariance, PTL

\* These verdicts are given for a row that has a message time, by its age.
LEMMA RowOfVerdict ==
  ASSUME IInv, Healthy \/ Verdict = "stale"
  PROVE  /\ row \in SessionRow /\ row # NoSession
         /\ row.messageAt # Never
         /\ Healthy => now - row.messageAt <= StaleAfter
         /\ Verdict = "stale" => now - row.messageAt > StaleAfter
<1>1. row # NoSession
  BY DEF Healthy, Verdict
<1>2. row \in SessionRow
  BY <1>1 DEF IInv, TypeInv, TypeOK, SessionRow
<1>3. row.messageAt # Never
  BY <1>1 DEF Healthy, Verdict
<1>4. /\ row.messageAt \in Int /\ now \in Int /\ StaleAfter \in Int
  BY <1>2, HealthAssumption
     DEF IInv, TypeInv, TypeOK, SessionRow, Time, Never, ValidSettings
<1>5. Healthy => ~(now - row.messageAt > StaleAfter)
  BY <1>1, <1>3 DEF Healthy, Verdict
<1>6. Verdict = "stale" => now - row.messageAt > StaleAfter
  BY <1>1, <1>3 DEF Verdict
<1>7. QED
  BY <1>1, <1>2, <1>3, <1>4, <1>5, <1>6

\* A verdict that calls the stream healthy rests on an event of the newest
\* session at most StaleAfter ago, for every StaleAfter and every failure.
THEOREM HealthyMeansRecent == Spec => []HealthyIsRecent
<1>1. IInv => HealthyIsRecent
  <2>1. SUFFICES ASSUME IInv, Healthy
                 PROVE  lastEvent # Never /\ now - lastEvent <= StaleAfter
    BY DEF HealthyIsRecent
  <2>2. /\ row \in SessionRow /\ row # NoSession /\ row.messageAt # Never
        /\ now - row.messageAt <= StaleAfter
    BY <2>1, RowOfVerdict
  <2>3. row.messageAt <= lastEvent
    BY <2>1, <2>2 DEF IInv, PastInv
  <2>4. /\ now \in Int /\ row.messageAt \in Int /\ row.messageAt >= 0
        /\ lastEvent \in Int /\ StaleAfter \in Int
    BY <2>1, <2>2, HealthAssumption
       DEF IInv, TypeInv, TypeOK, SessionRow, Time, Never, ValidSettings
  <2>5. QED
    BY <2>2, <2>3, <2>4 DEF Never
<1>2. QED
  BY <1>1, Invariance, PTL

\* A stream is called stale only if it was silent for StaleAfter, or the
\* flushes that would have told of its last event have not both committed.
THEOREM StaleMeansSilent == Spec => []StaleIsSilent
<1>1. IInv => StaleIsSilent
  <2>1. SUFFICES ASSUME IInv, Verdict = "stale", ~(flushed.event < 2)
                 PROVE  now - lastEvent > StaleAfter
    BY DEF StaleIsSilent
  <2>2. row # NoSession /\ now - row.messageAt > StaleAfter
    BY <2>1, RowOfVerdict
  <2>3. flushed.event = 2
    BY <2>1 DEF IInv, TypeInv, TypeOK
  <2>4. row.messageAt = lastEvent
    BY <2>1, <2>2, <2>3 DEF IInv, FlushInv, PastInv
  <2>5. QED
    BY <2>2, <2>4
<1>2. QED
  BY <1>1, Invariance, PTL

\* The last trade's time in the row is that of a trade of the session, and
\* of its last one after two flushes.
THEOREM TradeAgeHolds == Spec => []TradeAgeIsReal
<1>1. IInv => TradeAgeIsReal
  <2>1. SUFFICES ASSUME IInv, row # NoSession
                 PROVE  row.tradeAt <= tradeAt
                        /\ (tradeAt # row.tradeAt => flushed.trade < 2)
    BY DEF TradeAgeIsReal
  <2>2. flushed.trade \in 0..2
    BY <2>1 DEF IInv, TypeInv, TypeOK
  <2>3. QED
    BY <2>1, <2>2 DEF IInv, PastInv, FlushInv
<1>2. QED
  BY <1>1, Invariance, PTL

=============================================================================

----------------------------- MODULE AlertProofs -----------------------------
(***************************************************************************)
(* Theorems about PriceAlerts composed with Accounts, for every set of     *)
(* trades, symbols and wishes, every batch size and every combination of   *)
(* failures.  What AccountProofs shows of Accounts holds here too: every   *)
(* step is one of Accounts or leaves its variables alone.                  *)
(***************************************************************************)
EXTENDS PriceAlerts, AccountProofs, WellFoundedInduction

----------------------------------------------------------------------------
(***************************************************************************)
(* The inductive invariant, besides AccountsInv.                           *)
(***************************************************************************)
RowTypes ==
  /\ alerts \in [AlertId -> Row \cup {NoAlert}]
  /\ lastId \in 0..MaxAlerts
  /\ offered \in [AlertId -> SUBSET Trade]

StreamTypes ==
  /\ pc \in {"flush", "read", "mark"}
  /\ batch \in SUBSET Trade
  /\ fired \in Marks
  /\ flushed \in SUBSET Trade
  /\ lateMarks \in Marks

\* An id that was not given out yet has no row and no history.
FreshInv ==
  /\ \A i \in AlertId : i > lastId => alerts[i] = NoAlert /\ offered[i] = {}
  /\ known \subseteq 1..lastId
  /\ deleted \subseteq 1..lastId

\* What the stream has matched, once it may mark, agrees with the rows that
\* still wait, though rows came and went since.
MatchInv ==
  /\ pc # "mark" => known = {} /\ fired = NoMarks
  /\ DOMAIN fired \subseteq known
  /\ \A i \in known \cap Waiting :
       IF i \in DOMAIN fired THEN fired[i] \in FirstCrossings(alerts[i].wish, batch)
       ELSE \A t \in batch : ~Crossed(alerts[i].wish, t)

\* The rows that a dead process's commit holds are there.
LateInv ==
  \A i \in DOMAIN lateMarks :
    alerts[i] # NoAlert /\ Crossed(alerts[i].wish, lateMarks[i])

TableInv ==
  /\ RowTypes /\ StreamTypes
  /\ FreshInv /\ MatchInv /\ LateInv
  /\ DeletedStaysDeleted /\ FirstCrossingFires

IInv == AccountsInv /\ TableInv

----------------------------------------------------------------------------
(***************************************************************************)
(* Lemmas about the operators of the model.                                *)
(***************************************************************************)
LEMMA NoAlertIsNoRow == NoAlert \notin Row
BY DEF NoAlert, Row

\* Of the trades of a batch that cross, one is the first.
LEMMA SomeCrossingIsFirst ==
  ASSUME NEW w, NEW B \in SUBSET Trade, NEW t \in B, Crossed(w, t)
  PROVE  FirstCrossings(w, B) # {}
<1> DEFINE S == {TsOf[u] : u \in {v \in B : Crossed(w, v)}}
<1>1. S \subseteq Nat /\ S # {}
  BY AlertAssumption
<1>2. \E x \in S : \A y \in S : ~(<<y, x>> \in OpToRel(<, Nat))
  BY <1>1, WFMin, NatLessThanWellFounded
<1>3. PICK x \in S : \A y \in S : ~(<<y, x>> \in OpToRel(<, Nat))
  BY <1>2
<1>4. ASSUME NEW y \in S PROVE x <= y
  <2>1. ~(y < x)
    BY <1>1, <1>3 DEF OpToRel
  <2>2. QED
    BY <1>1, <2>1
<1>5. PICK u \in B : Crossed(w, u) /\ x = TsOf[u]
  BY <1>3
<1>6. \A v \in B : Crossed(w, v) => TsOf[u] <= TsOf[v]
  BY <1>4, <1>5
<1>7. u \in FirstCrossings(w, B)
  BY <1>5, <1>6 DEF FirstCrossings
<1>8. QED
  BY <1>7

LEMMA NoMarksIsMarks == NoMarks \in Marks /\ DOMAIN NoMarks = {}
<1>1. NoMarks \in [{} -> Trade]
  BY DEF NoMarks
<1>2. {} \in SUBSET AlertId
  OBVIOUS
<1>3. NoMarks \in Marks
  BY <1>1, <1>2 DEF Marks
<1>4. QED
  BY <1>1, <1>3

LEMMA MarksDomain ==
  ASSUME NEW f \in Marks
  PROVE  DOMAIN f \subseteq AlertId /\ \A i \in DOMAIN f : f[i] \in Trade
BY DEF Marks

\* Marking changes rows that wait and nothing of what they ask.
LEMMA MarkedProperties ==
  ASSUME alerts \in [AlertId -> Row \cup {NoAlert}], NEW f \in Marks
  PROVE  /\ Marked(f) \in [AlertId -> Row \cup {NoAlert}]
         /\ \A i \in AlertId :
              IF i \in DOMAIN f /\ i \in Waiting
              THEN /\ Marked(f)[i] # NoAlert /\ Marked(f)[i].by = f[i]
                   /\ Marked(f)[i].owner = alerts[i].owner
                   /\ Marked(f)[i].wish = alerts[i].wish
              ELSE Marked(f)[i] = alerts[i]
<1>1. ASSUME NEW i \in AlertId, i \in DOMAIN f, i \in Waiting
      PROVE  /\ [alerts[i] EXCEPT !.by = f[i]] \in Row
             /\ [alerts[i] EXCEPT !.by = f[i]].by = f[i]
             /\ [alerts[i] EXCEPT !.by = f[i]].owner = alerts[i].owner
             /\ [alerts[i] EXCEPT !.by = f[i]].wish = alerts[i].wish
  <2>1. alerts[i] \in Row /\ f[i] \in Trade
    BY <1>1, MarksDomain DEF Waiting
  <2>2. QED
    BY <2>1 DEF Row
<1>2. ASSUME NEW i \in AlertId
      PROVE  Marked(f)[i] = IF i \in DOMAIN f \cap Waiting
                            THEN [alerts[i] EXCEPT !.by = f[i]] ELSE alerts[i]
  BY <1>2 DEF Marked
<1>3. Marked(f) \in [AlertId -> Row \cup {NoAlert}]
  BY <1>1 DEF Marked
<1>4. ASSUME NEW i \in AlertId, i \in DOMAIN f, i \in Waiting
      PROVE  /\ Marked(f)[i] # NoAlert /\ Marked(f)[i].by = f[i]
             /\ Marked(f)[i].owner = alerts[i].owner
             /\ Marked(f)[i].wish = alerts[i].wish
  BY <1>1, <1>2, <1>4, NoAlertIsNoRow
<1>5. ASSUME NEW i \in AlertId, ~(i \in DOMAIN f /\ i \in Waiting)
      PROVE  Marked(f)[i] = alerts[i]
  BY <1>2, <1>5
<1>6. QED
  BY <1>3, <1>4, <1>5

\* A result of find_triggered is a set of marks.
LEMMA TriggeredProperties ==
  ASSUME NEW I \in SUBSET AlertId, NEW B \in SUBSET Trade, NEW f \in Triggered(I, B)
  PROVE  /\ f \in Marks /\ DOMAIN f \subseteq I
         /\ \A i \in DOMAIN f : f[i] \in FirstCrossings(alerts[i].wish, B)
         /\ \A i \in I \ DOMAIN f : FirstCrossings(alerts[i].wish, B) = {}
<1> DEFINE hit == {i \in I : FirstCrossings(alerts[i].wish, B) # {}}
<1>1. f \in [hit -> B] /\ \A i \in hit : f[i] \in FirstCrossings(alerts[i].wish, B)
  BY DEF Triggered
<1>2. f \in [hit -> Trade] /\ hit \in SUBSET AlertId
  BY <1>1
<1>3. f \in Marks
  BY <1>2 DEF Marks
<1>4. DOMAIN f = hit
  BY <1>1
<1>5. QED
  BY <1>1, <1>3, <1>4

----------------------------------------------------------------------------
LEMMA InitInv == Init => IInv
<1> SUFFICES ASSUME Init PROVE IInv
  OBVIOUS
<1>1. AccountsInv
  BY AccountsInitInv DEF Init
<1>2. RowTypes /\ StreamTypes
  BY NoMarksIsMarks, AlertAssumption DEF Init, RowTypes, StreamTypes
<1>3. FreshInv /\ MatchInv /\ LateInv
  BY NoMarksIsMarks DEF Init, FreshInv, MatchInv, LateInv
<1>4. DeletedStaysDeleted /\ FirstCrossingFires
  BY DEF Init, DeletedStaysDeleted, FirstCrossingFires
<1>5. QED
  BY <1>1, <1>2, <1>3, <1>4 DEF IInv, TableInv

\* Every step is one of Accounts, or leaves its variables alone.
LEMMA AccountsSteps ==
  ASSUME [Next]_vars
  PROVE  [AccountsNext]_accountVars
<1>1. UNCHANGED accountVars \/ AccountsNext
  BY DEF Next, vars, AccountStep, AlertsNext, CheckNext, CreateAlert, DeleteAlert,
     Flush, Match, Mark, CheckFails, Crash, LateCommit
<1>2. QED
  BY <1>1

----------------------------------------------------------------------------
(***************************************************************************)
(* TableInv is kept, action by action.  These steps leave the table alone. *)
(***************************************************************************)
LEMMA SameTable ==
  ASSUME TableInv, UNCHANGED <<alerts, lastId, offered, deleted>>
  PROVE  /\ RowTypes' /\ DeletedStaysDeleted' /\ FirstCrossingFires'
         /\ Waiting' = Waiting
         /\ known' \subseteq 1..lastId => FreshInv'
<1>1. RowTypes' /\ DeletedStaysDeleted' /\ Waiting' = Waiting
  BY DEF TableInv, RowTypes, DeletedStaysDeleted, Waiting
<1>2. FirstCrossingFires'
  BY DEF TableInv, FirstCrossingFires, Crossed
<1>3. known' \subseteq 1..lastId => FreshInv'
  BY DEF TableInv, FreshInv
<1>4. QED
  BY <1>1, <1>2, <1>3

\* Only the alerts and commits of the stream change in a check.
LEMMA SameLateMarks ==
  ASSUME TableInv, UNCHANGED <<alerts, lateMarks>>
  PROVE  LateInv' /\ lateMarks' \in Marks
BY DEF TableInv, LateInv, StreamTypes, Crossed

LEMMA DoneProperties ==
  ASSUME TableInv, Done
  PROVE  /\ MatchInv' /\ known' = {}
         /\ pc' = "flush" /\ batch' \in SUBSET Trade /\ fired' \in Marks
BY NoMarksIsMarks DEF Done, MatchInv

LEMMA FlushStep ==
  ASSUME TableInv, Flush
  PROVE  TableInv'
<1>1. /\ UNCHANGED <<alerts, lastId, offered, deleted, lateMarks>>
      /\ UNCHANGED <<fired, known>> /\ pc = "flush" /\ pc' = "read"
      /\ batch' \in SUBSET Trade /\ flushed' \in SUBSET Trade
  BY DEF Flush, history, TableInv, StreamTypes
<1>2. StreamTypes'
  BY <1>1 DEF TableInv, StreamTypes
<1>3. MatchInv'
  BY <1>1, NoMarksIsMarks DEF TableInv, MatchInv
<1>4. known' \subseteq 1..lastId
  BY <1>1 DEF TableInv, FreshInv
<1>5. QED
  BY <1>1, <1>2, <1>3, <1>4, SameTable, SameLateMarks DEF TableInv

LEMMA MatchStep ==
  ASSUME TableInv, Match
  PROVE  TableInv'
<1>1. /\ UNCHANGED <<alerts, lastId, offered, deleted, lateMarks>>
      /\ UNCHANGED <<batch, flushed>> /\ pc' = "mark"
      /\ fired' \in Triggered(Waiting, batch)
      /\ known' = {i \in AlertId : alerts[i] # NoAlert}
  BY DEF Match, ReadPending
<1>2. Waiting \in SUBSET AlertId /\ batch \in SUBSET Trade
  BY DEF Waiting, TableInv, StreamTypes
<1>3. /\ fired' \in Marks /\ DOMAIN fired' \subseteq Waiting
      /\ \A i \in DOMAIN fired' : fired'[i] \in FirstCrossings(alerts[i].wish, batch)
      /\ \A i \in Waiting \ DOMAIN fired' : FirstCrossings(alerts[i].wish, batch) = {}
  BY <1>1, <1>2, TriggeredProperties
<1>4. StreamTypes'
  BY <1>1, <1>3 DEF TableInv, StreamTypes
<1>5. Waiting' = Waiting
  BY <1>1, SameTable
<1>6. MatchInv'
  <2>1. DOMAIN fired' \subseteq known'
    BY <1>1, <1>3 DEF Waiting
  <2>2. ASSUME NEW i \in Waiting, i \notin DOMAIN fired', NEW t \in batch
        PROVE  ~Crossed(alerts[i].wish, t)
    BY <1>2, <1>3, <2>2, SomeCrossingIsFirst
  <2>3. ASSUME NEW i \in known' \cap Waiting'
        PROVE  IF i \in DOMAIN fired'
               THEN fired'[i] \in FirstCrossings(alerts[i].wish, batch)
               ELSE \A t \in batch : ~Crossed(alerts[i].wish, t)
    BY <1>3, <1>5, <2>2, <2>3
  <2>4. QED
    BY <1>1, <2>1, <2>3 DEF MatchInv, FirstCrossings, Crossed
<1>7. known' \subseteq 1..lastId
  <2>1. ASSUME NEW i \in AlertId, alerts[i] # NoAlert
        PROVE  i \in 1..lastId
    BY <2>1 DEF TableInv, FreshInv, RowTypes, AlertId
  <2>2. QED
    BY <1>1, <2>1
<1>8. QED
  BY <1>1, <1>4, <1>6, <1>7, SameTable, SameLateMarks DEF TableInv

LEMMA CheckFailsStep ==
  ASSUME TableInv, CheckFails
  PROVE  TableInv'
<1>1. UNCHANGED <<alerts, lastId, offered, deleted, lateMarks, flushed>> /\ Done
  BY DEF CheckFails
<1>2. StreamTypes'
  BY <1>1, DoneProperties, SameLateMarks DEF TableInv, StreamTypes
<1>3. QED
  BY <1>1, <1>2, DoneProperties, SameTable, SameLateMarks DEF TableInv

\* A commit that outlives its process holds rows that wait and that crossed.
LEMMA CrashStep ==
  ASSUME TableInv, Crash
  PROVE  TableInv'
<1>1. UNCHANGED <<alerts, lastId, offered, deleted, flushed>> /\ Done
  BY DEF Crash
<1>2. CASE UNCHANGED lateMarks
  <2>1. StreamTypes'
    BY <1>1, <1>2, DoneProperties, SameLateMarks DEF TableInv, StreamTypes
  <2>2. QED
    BY <1>1, <1>2, <2>1, DoneProperties, SameTable, SameLateMarks DEF TableInv
<1>3. CASE lateMarks' = [i \in DOMAIN fired \cap Waiting |-> fired[i]]
  <2>1. fired \in Marks /\ DOMAIN fired \subseteq known
    BY DEF TableInv, StreamTypes, MatchInv
  <2>2. DOMAIN lateMarks' = DOMAIN fired \cap Waiting
        /\ \A i \in DOMAIN fired \cap Waiting : lateMarks'[i] = fired[i]
    BY <1>3
  <2>3. lateMarks' \in Marks
    <3>1. /\ DOMAIN fired \cap Waiting \in SUBSET AlertId
          /\ lateMarks' \in [DOMAIN fired \cap Waiting -> Trade]
      BY <1>3, <2>1, MarksDomain
    <3>2. QED
      BY <3>1 DEF Marks
  <2>4. LateInv'
    <3>1. ASSUME NEW i \in DOMAIN fired \cap Waiting
          PROVE  alerts[i] # NoAlert /\ Crossed(alerts[i].wish, fired[i])
      BY <2>1 DEF TableInv, MatchInv, FirstCrossings, Waiting
    <3>2. QED
      BY <1>1, <2>2, <3>1 DEF LateInv, Crossed
  <2>5. StreamTypes'
    BY <1>1, <2>3, DoneProperties DEF TableInv, StreamTypes
  <2>6. QED
    BY <1>1, <2>4, <2>5, DoneProperties, SameTable DEF TableInv
<1>4. QED
  BY <1>2, <1>3 DEF Crash

----------------------------------------------------------------------------
(***************************************************************************)
(* These steps change the table.                                           *)
(***************************************************************************)
LEMMA CreateStep ==
  ASSUME TableInv, NEW b \in Browser, NEW w \in Wish, CreateAlert(b, w),
         session[b].email \in Spelling
  PROVE  TableInv'
<1> DEFINE row == [owner |-> session[b].email, wish |-> w, by |-> NoTrade]
<1>1. /\ UNCHANGED <<pc, batch, fired, flushed, lateMarks>>
      /\ UNCHANGED <<known, offered, deleted>>
      /\ lastId' = lastId + 1 /\ lastId + 1 \in AlertId
      /\ alerts' = [alerts EXCEPT ![lastId + 1] = row]
  BY DEF CreateAlert, InsertAlert, NextId, streamVars, history
<1>2. /\ alerts \in [AlertId -> Row \cup {NoAlert}] /\ lastId \in 0..MaxAlerts
      /\ MaxAlerts \in Nat /\ row \in Row /\ row.by = NoTrade
  BY AlertAssumption DEF TableInv, RowTypes, Row
<1>3. /\ alerts' \in [AlertId -> Row \cup {NoAlert}]
      /\ alerts'[lastId + 1] = row
      /\ \A i \in AlertId : i # lastId + 1 => alerts'[i] = alerts[i]
  BY <1>1, <1>2
<1>4. /\ alerts[lastId + 1] = NoAlert /\ offered[lastId + 1] = {}
      /\ lastId + 1 \notin known /\ lastId + 1 \notin deleted
      /\ known \subseteq AlertId
  BY <1>1, <1>2 DEF TableInv, FreshInv, AlertId
<1>5. RowTypes' /\ StreamTypes'
  BY <1>1, <1>2, <1>3 DEF TableInv, RowTypes, StreamTypes, AlertId
<1>6. FreshInv'
  <2>1. \A i \in AlertId : i > lastId + 1 => alerts'[i] = NoAlert /\ offered[i] = {}
    BY <1>2, <1>3 DEF TableInv, FreshInv, AlertId
  <2>2. known \subseteq 1..(lastId + 1) /\ deleted \subseteq 1..(lastId + 1)
    BY <1>2 DEF TableInv, FreshInv
  <2>3. QED
    BY <1>1, <2>1, <2>2 DEF FreshInv
<1>7. MatchInv'
  <2>1. ASSUME NEW i \in known, i \in Waiting'
        PROVE  i \in Waiting /\ alerts'[i] = alerts[i]
    BY <1>3, <1>4, <2>1 DEF Waiting
  <2>2. QED
    BY <1>1, <2>1 DEF TableInv, MatchInv, FirstCrossings, Crossed
<1>8. LateInv'
  <2>1. ASSUME NEW i \in DOMAIN lateMarks
        PROVE  i \in AlertId /\ i # lastId + 1
    BY <1>4, MarksDomain DEF TableInv, StreamTypes, LateInv
  <2>2. QED
    BY <1>1, <1>3, <2>1 DEF TableInv, LateInv, Crossed
<1>9. DeletedStaysDeleted'
  <2>1. ASSUME NEW i \in deleted PROVE i \in AlertId /\ alerts'[i] = NoAlert
    BY <1>2, <1>3, <1>4 DEF TableInv, FreshInv, DeletedStaysDeleted, AlertId
  <2>2. QED
    BY <1>1, <2>1 DEF DeletedStaysDeleted
<1>10. FirstCrossingFires'
  <2>1. \A i \in AlertId : i # lastId + 1 => alerts'[i] = alerts[i] /\ offered'[i] = offered[i]
    BY <1>1, <1>3
  <2>2. alerts'[lastId + 1].by = NoTrade /\ offered'[lastId + 1] = {}
    BY <1>1, <1>2, <1>3, <1>4
  <2>3. QED
    BY <2>1, <2>2 DEF TableInv, FirstCrossingFires, Crossed
<1>11. QED
  BY <1>5, <1>6, <1>7, <1>8, <1>9, <1>10 DEF TableInv

\* A check that had read the row finds nothing to mark.
LEMMA DeleteStep ==
  ASSUME TableInv, NEW b \in Browser, NEW d \in AlertId, DeleteAlert(b, d)
  PROVE  TableInv'
<1>1. /\ UNCHANGED <<pc, batch, fired, flushed, lateMarks>>
      /\ UNCHANGED <<known, offered, lastId>>
      /\ deleted' = deleted \cup {d} /\ alerts[d] # NoAlert /\ d \notin DOMAIN lateMarks
      /\ alerts' = [alerts EXCEPT ![d] = NoAlert]
  BY DEF DeleteAlert, AlertsWithout, streamVars, Locked
<1>2. alerts \in [AlertId -> Row \cup {NoAlert}] /\ lastId \in 0..MaxAlerts
      /\ MaxAlerts \in Nat
  BY AlertAssumption DEF TableInv, RowTypes
<1>3. /\ alerts' \in [AlertId -> Row \cup {NoAlert}] /\ alerts'[d] = NoAlert
      /\ \A i \in AlertId : i # d => alerts'[i] = alerts[i]
  BY <1>1, <1>2
<1>4. RowTypes' /\ StreamTypes'
  BY <1>1, <1>3 DEF TableInv, RowTypes, StreamTypes
<1>5. FreshInv'
  <2>1. \A i \in AlertId : i > lastId => alerts'[i] = NoAlert /\ offered[i] = {}
    BY <1>3 DEF TableInv, FreshInv
  <2>2. d \in 1..lastId
    BY <1>1, <1>2 DEF TableInv, FreshInv, AlertId
  <2>3. QED
    BY <1>1, <2>1, <2>2 DEF TableInv, FreshInv
<1>6. MatchInv'
  <2>1. ASSUME NEW i \in Waiting'
        PROVE  i \in Waiting /\ alerts'[i] = alerts[i]
    BY <1>3, <2>1 DEF Waiting
  <2>2. QED
    BY <1>1, <2>1 DEF TableInv, MatchInv, FirstCrossings, Crossed
<1>7. LateInv'
  <2>1. \A i \in DOMAIN lateMarks : i \in AlertId /\ i # d
    BY <1>1, MarksDomain DEF TableInv, StreamTypes
  <2>2. QED
    BY <1>1, <1>3, <2>1 DEF TableInv, LateInv, Crossed
<1>8. DeletedStaysDeleted'
  <2>1. deleted \subseteq AlertId
    BY <1>2 DEF TableInv, FreshInv, AlertId
  <2>2. QED
    BY <1>1, <1>3, <2>1 DEF TableInv, DeletedStaysDeleted
<1>9. FirstCrossingFires'
  BY <1>1, <1>3 DEF TableInv, FirstCrossingFires, Crossed
<1>10. QED
  BY <1>4, <1>5, <1>6, <1>7, <1>8, <1>9 DEF TableInv

\* Marking touches only rows that wait, so a commit that comes late or twice
\* leaves what an alert recorded.
LEMMA MarkedTable ==
  ASSUME TableInv, NEW f \in Marks, alerts' = Marked(f), UNCHANGED <<lastId, deleted>>,
         \A i \in AlertId : alerts[i] = NoAlert => offered'[i] = offered[i],
         offered' \in [AlertId -> SUBSET Trade]
  PROVE  /\ RowTypes' /\ DeletedStaysDeleted'
         /\ known' \subseteq 1..lastId => FreshInv'
         /\ \A i \in AlertId : alerts'[i] = NoAlert <=> alerts[i] = NoAlert
         /\ \A i \in AlertId : alerts[i] # NoAlert => alerts'[i].wish = alerts[i].wish
         /\ \A i \in AlertId : IF i \in DOMAIN f /\ i \in Waiting
                               THEN alerts'[i].by = f[i] ELSE alerts'[i] = alerts[i]
<1>1. /\ alerts \in [AlertId -> Row \cup {NoAlert}]
      /\ lastId \in 0..MaxAlerts /\ MaxAlerts \in Nat
  BY AlertAssumption DEF TableInv, RowTypes
<1>2. /\ alerts' \in [AlertId -> Row \cup {NoAlert}]
      /\ \A i \in AlertId : alerts'[i] = NoAlert <=> alerts[i] = NoAlert
      /\ \A i \in AlertId : alerts[i] # NoAlert => alerts'[i].wish = alerts[i].wish
      /\ \A i \in AlertId : IF i \in DOMAIN f /\ i \in Waiting
                            THEN alerts'[i].by = f[i] ELSE alerts'[i] = alerts[i]
  BY <1>1, MarkedProperties DEF Waiting
<1>3. RowTypes'
  BY <1>2 DEF TableInv, RowTypes
<1>4. DeletedStaysDeleted'
  <2>1. deleted \subseteq AlertId
    BY <1>1 DEF TableInv, FreshInv, AlertId
  <2>2. QED
    BY <1>2, <2>1 DEF TableInv, DeletedStaysDeleted
<1>5. known' \subseteq 1..lastId => FreshInv'
  BY <1>2 DEF TableInv, FreshInv
<1>6. QED
  BY <1>2, <1>3, <1>4, <1>5

LEMMA MarkStep ==
  ASSUME TableInv, Mark
  PROVE  TableInv'
<1>1. /\ alerts' = Marked(fired) /\ DOMAIN fired \cap DOMAIN lateMarks = {} /\ Done
      /\ offered' = [i \in AlertId |-> IF i \in known \cap Waiting
                                      THEN offered[i] \cup batch ELSE offered[i]]
      /\ UNCHANGED <<lastId, deleted, flushed, lateMarks>>
  BY DEF Mark, Locked
<1>2. fired \in Marks /\ batch \in SUBSET Trade /\ offered \in [AlertId -> SUBSET Trade]
      /\ lateMarks \in Marks
  BY DEF TableInv, RowTypes, StreamTypes
<1>3. /\ offered' \in [AlertId -> SUBSET Trade]
      /\ \A i \in AlertId : offered'[i] = IF i \in known \cap Waiting
                                          THEN offered[i] \cup batch ELSE offered[i]
      /\ \A i \in AlertId : alerts[i] = NoAlert => offered'[i] = offered[i]
  BY <1>1, <1>2 DEF Waiting
<1>4. /\ RowTypes' /\ DeletedStaysDeleted'
      /\ known' \subseteq 1..lastId => FreshInv'
      /\ \A i \in AlertId : alerts'[i] = NoAlert <=> alerts[i] = NoAlert
      /\ \A i \in AlertId : alerts[i] # NoAlert => alerts'[i].wish = alerts[i].wish
      /\ \A i \in AlertId : IF i \in DOMAIN fired /\ i \in Waiting
                            THEN alerts'[i].by = fired[i] ELSE alerts'[i] = alerts[i]
  BY <1>1, <1>2, <1>3, MarkedTable
<1>5. StreamTypes'
  BY <1>1, <1>2, DoneProperties DEF TableInv, StreamTypes
<1>6. LateInv'
  <2>1. \A i \in DOMAIN lateMarks : i \in AlertId
    BY <1>2, MarksDomain
  <2>2. QED
    BY <1>1, <1>4, <2>1 DEF TableInv, LateInv, Crossed
<1>7. FirstCrossingFires'
  <2>1. ASSUME NEW i \in AlertId, alerts[i] # NoAlert, i \notin Waiting
        PROVE  alerts'[i] = alerts[i] /\ offered'[i] = offered[i]
    BY <1>3, <1>4, <2>1
  <2>2. ASSUME NEW i \in Waiting, i \in DOMAIN fired
        PROVE  /\ alerts'[i].by = fired[i] /\ fired[i] # NoTrade
               /\ Crossed(alerts'[i].wish, fired[i])
               /\ \A t \in offered'[i] :
                    Crossed(alerts'[i].wish, t) => TsOf[fired[i]] <= TsOf[t]
    <3>1. i \in AlertId /\ alerts[i] # NoAlert /\ alerts[i].by = NoTrade
      BY <2>2 DEF Waiting
    <3>2. i \in known
      BY <2>2 DEF TableInv, MatchInv
    <3>3. fired[i] \in FirstCrossings(alerts[i].wish, batch)
      BY <2>2, <3>2 DEF TableInv, MatchInv
    <3>4. \A t \in offered[i] : ~Crossed(alerts[i].wish, t)
      BY <3>1 DEF TableInv, FirstCrossingFires
    <3>5. offered'[i] = offered[i] \cup batch
      BY <1>3, <2>2, <3>1, <3>2
    <3>6. fired[i] \in Trade
      BY <1>2, <2>2, MarksDomain
    <3>7. alerts'[i].by = fired[i] /\ alerts'[i].wish = alerts[i].wish
      BY <1>4, <2>2, <3>1
    <3>8. QED
      BY <3>3, <3>4, <3>5, <3>6, <3>7, AlertAssumption DEF FirstCrossings
  <2>3. ASSUME NEW i \in Waiting, i \notin DOMAIN fired
        PROVE  /\ alerts'[i] = alerts[i]
               /\ \A t \in offered'[i] : ~Crossed(alerts'[i].wish, t)
    <3>1. i \in AlertId /\ alerts[i] # NoAlert /\ alerts[i].by = NoTrade
      BY <2>3 DEF Waiting
    <3>2. alerts'[i] = alerts[i]
      BY <1>4, <2>3, <3>1
    <3>3. \A t \in offered[i] : ~Crossed(alerts[i].wish, t)
      BY <3>1 DEF TableInv, FirstCrossingFires
    <3>4. i \in known => \A t \in batch : ~Crossed(alerts[i].wish, t)
      BY <2>3 DEF TableInv, MatchInv
    <3>5. QED
      BY <1>3, <3>1, <3>2, <3>3, <3>4
  <2>4. ASSUME NEW i \in AlertId, alerts'[i] # NoAlert
        PROVE  IF alerts'[i].by = NoTrade
               THEN \A t \in offered'[i] : ~Crossed(alerts'[i].wish, t)
               ELSE /\ Crossed(alerts'[i].wish, alerts'[i].by)
                    /\ \A t \in offered'[i] :
                         Crossed(alerts'[i].wish, t) => TsOf[alerts'[i].by] <= TsOf[t]
    <3>1. alerts[i] # NoAlert
      BY <1>4, <2>4
    <3>2. CASE i \notin Waiting
      BY <2>1, <3>1, <3>2 DEF TableInv, FirstCrossingFires
    <3>3. CASE i \in Waiting /\ i \in DOMAIN fired
      BY <2>2, <3>3
    <3>4. CASE i \in Waiting /\ i \notin DOMAIN fired
      BY <2>3, <3>4 DEF Waiting
    <3>5. QED
      BY <3>2, <3>3, <3>4
  <2>5. QED
    BY <2>4 DEF FirstCrossingFires, Crossed
<1>8. QED
  BY <1>1, <1>4, <1>5, <1>6, <1>7, DoneProperties DEF TableInv

LEMMA LateCommitStep ==
  ASSUME TableInv, LateCommit
  PROVE  TableInv'
<1>1. /\ lateMarks' = NoMarks
      /\ UNCHANGED <<lastId, pc, batch, fired, flushed>>
      /\ UNCHANGED <<known, offered, deleted>>
  BY DEF LateCommit, history
<1>2. lateMarks \in Marks /\ offered \in [AlertId -> SUBSET Trade]
  BY DEF TableInv, RowTypes, StreamTypes
<1>3. StreamTypes' /\ LateInv'
  BY <1>1, NoMarksIsMarks DEF TableInv, StreamTypes, LateInv
<1>4. known' \subseteq 1..lastId
  BY <1>1 DEF TableInv, FreshInv
<1>5. CASE alerts' = alerts
  <2>1. Waiting' = Waiting
    BY <1>1, <1>5, SameTable
  <2>2. MatchInv'
    BY <1>1, <1>5, <2>1 DEF TableInv, MatchInv, FirstCrossings, Crossed
  <2>3. QED
    BY <1>1, <1>3, <1>4, <1>5, <2>2, SameTable DEF TableInv
<1>6. CASE alerts' = Marked(lateMarks)
  <2>1. /\ RowTypes' /\ DeletedStaysDeleted'
        /\ known' \subseteq 1..lastId => FreshInv'
        /\ \A i \in AlertId : alerts'[i] = NoAlert <=> alerts[i] = NoAlert
        /\ \A i \in AlertId : alerts[i] # NoAlert => alerts'[i].wish = alerts[i].wish
        /\ \A i \in AlertId : IF i \in DOMAIN lateMarks /\ i \in Waiting
                              THEN alerts'[i].by = lateMarks[i] ELSE alerts'[i] = alerts[i]
    BY <1>1, <1>2, <1>6, MarkedTable
  <2>2. ASSUME NEW i \in Waiting, i \in DOMAIN lateMarks
        PROVE  /\ i \in AlertId /\ alerts[i] # NoAlert /\ alerts'[i].by # NoTrade
               /\ alerts'[i].by = lateMarks[i] /\ alerts'[i].wish = alerts[i].wish
               /\ Crossed(alerts[i].wish, lateMarks[i])
               /\ \A t \in offered[i] : ~Crossed(alerts[i].wish, t)
    <3>1. i \in AlertId /\ alerts[i] # NoAlert /\ alerts[i].by = NoTrade
      BY <2>2 DEF Waiting
    <3>2. lateMarks[i] # NoTrade
      BY <1>2, <2>2, MarksDomain, AlertAssumption
    <3>3. \A t \in offered[i] : ~Crossed(alerts[i].wish, t)
      BY <3>1 DEF TableInv, FirstCrossingFires
    <3>4. Crossed(alerts[i].wish, lateMarks[i])
      BY <2>2 DEF TableInv, LateInv
    <3>5. QED
      BY <2>1, <2>2, <3>1, <3>2, <3>3, <3>4
  <2>3. \A i \in AlertId : ~(i \in Waiting /\ i \in DOMAIN lateMarks) => alerts'[i] = alerts[i]
    BY <2>1
  <2>4. MatchInv'
    <3>1. ASSUME NEW i \in Waiting'
          PROVE  i \in Waiting /\ alerts'[i] = alerts[i]
      BY <2>2, <2>3, <3>1 DEF Waiting
    <3>2. QED
      BY <1>1, <3>1 DEF TableInv, MatchInv, FirstCrossings, Crossed
  <2>5. FirstCrossingFires'
    <3>1. ASSUME NEW i \in AlertId, alerts'[i] # NoAlert
          PROVE  IF alerts'[i].by = NoTrade
                 THEN \A t \in offered[i] : ~Crossed(alerts'[i].wish, t)
                 ELSE /\ Crossed(alerts'[i].wish, alerts'[i].by)
                      /\ \A t \in offered[i] :
                           Crossed(alerts'[i].wish, t) => TsOf[alerts'[i].by] <= TsOf[t]
      <4>1. CASE i \in Waiting /\ i \in DOMAIN lateMarks
        BY <2>2, <4>1
      <4>2. CASE ~(i \in Waiting /\ i \in DOMAIN lateMarks)
        BY <2>3, <3>1, <4>2 DEF TableInv, FirstCrossingFires
      <4>3. QED
        BY <4>1, <4>2
    <3>2. QED
      BY <1>1, <3>1 DEF FirstCrossingFires, Crossed
  <2>6. QED
    BY <1>3, <1>4, <2>1, <2>4, <2>5 DEF TableInv
<1>7. QED
  BY <1>5, <1>6 DEF LateCommit

LEMMA NothingHappens ==
  ASSUME TableInv, UNCHANGED alertVars
  PROVE  TableInv'
<1>1. /\ UNCHANGED <<alerts, lastId, offered, deleted, lateMarks>>
      /\ UNCHANGED <<pc, batch, fired, flushed, known>>
  BY DEF alertVars, streamVars, history
<1>2. Waiting' = Waiting /\ known' \subseteq 1..lastId
  BY <1>1, SameTable DEF TableInv, FreshInv
<1>3. StreamTypes' /\ MatchInv'
  BY <1>1, <1>2 DEF TableInv, StreamTypes, MatchInv, FirstCrossings, Crossed
<1>4. QED
  BY <1>1, <1>2, <1>3, SameTable, SameLateMarks DEF TableInv

LEMMA InvStep ==
  ASSUME IInv, [Next]_vars
  PROVE  IInv'
<1>1. AccountsInv'
  BY AccountsSteps, AccountsInvStep DEF IInv
<1>2. TableInv'
  <2>0. TableInv
    BY DEF IInv
  <2>1. CASE AccountStep
    BY <2>0, <2>1, NothingHappens DEF AccountStep
  <2>2. ASSUME NEW b \in Browser, NEW w \in Wish, CreateAlert(b, w)
        PROVE  TableInv'
    <3>1. session[b] \in Tokens
      BY <2>2 DEF IInv, AccountsInv, AccountsTypeOK, CreateAlert, Valid, Tokens
    <3>2. session[b].email \in Spelling
      BY <3>1 DEF Tokens
    <3>3. QED
      BY <2>0, <2>2, <3>2, CreateStep
  <2>3. ASSUME NEW b \in Browser, NEW i \in AlertId, DeleteAlert(b, i)
        PROVE  TableInv'
    BY <2>0, <2>3, DeleteStep
  <2>4. CASE CheckNext
    BY <2>0, <2>4, FlushStep, MatchStep, MarkStep, CheckFailsStep, CrashStep,
       LateCommitStep DEF CheckNext
  <2>5. CASE UNCHANGED vars
    <3>1. UNCHANGED alertVars
      BY <2>5 DEF vars
    <3>2. QED
      BY <2>0, <3>1, NothingHappens
  <2>6. QED
    BY <2>1, <2>2, <2>3, <2>4, <2>5 DEF Next, AlertsNext
<1>3. QED
  BY <1>1, <1>2 DEF IInv

\* The invariant holds in every state: api, browsers, operator and the
\* stream's checks in any order, whatever fails.
THEOREM Invariance == Spec => []IInv
BY InitInv, InvStep, PTL DEF Spec

----------------------------------------------------------------------------
\* Every variable of the api, the browsers and the stream keeps its type.
THEOREM TypeCorrect == Spec => []TypeOK
<1>1. IInv => TypeOK
  <2>1. SUFFICES ASSUME IInv PROVE TypeOK
    OBVIOUS
  <2>2. known \in SUBSET AlertId /\ deleted \in SUBSET AlertId
    <3>1. /\ lastId \in 0..MaxAlerts /\ MaxAlerts \in Nat
          /\ known \subseteq 1..lastId /\ deleted \subseteq 1..lastId
      BY <2>1, AlertAssumption DEF IInv, TableInv, RowTypes, FreshInv
    <3>2. QED
      BY <3>1 DEF AlertId
  <2>3. AccountsTypeOK
    BY <2>1 DEF IInv, AccountsInv
  <2>4. RowTypes /\ StreamTypes
    BY <2>1 DEF IInv, TableInv
  <2>5. QED
    BY <2>2, <2>3, <2>4 DEF RowTypes, StreamTypes, TypeOK
<1>2. QED
  BY <1>1, Invariance, PTL

\* A deleted alert never comes back, through a check that had read it, a
\* commit that comes late, or a new alert under its id.
THEOREM DeletedForGood == Spec => []DeletedStaysDeleted
<1>1. IInv => DeletedStaysDeleted
  BY DEF IInv, TableInv
<1>2. QED
  BY <1>1, Invariance, PTL

\* A waiting alert was offered no trade that crosses it, and one that fired
\* recorded the first it was offered or an earlier one.
THEOREM FirstCrossingHolds == Spec => []FirstCrossingFires
<1>1. IInv => FirstCrossingFires
  BY DEF IInv, TableInv
<1>2. QED
  BY <1>1, Invariance, PTL

\* What a fired alert recorded is never overwritten, neither by another check
\* nor by a dead process's commit.
THEOREM AlertsFireOnce == Spec => FiresOnce
<1>1. ASSUME IInv, [Next]_vars, NEW i \in AlertId, alerts[i] # NoAlert, alerts[i].by # NoTrade
      PROVE  alerts'[i] \in {alerts[i], NoAlert}
  <2>0. /\ alerts \in [AlertId -> Row \cup {NoAlert}] /\ i \notin Waiting
        /\ fired \in Marks /\ lateMarks \in Marks
    BY <1>1 DEF IInv, TableInv, RowTypes, StreamTypes, Waiting
  <2>1. ASSUME NEW b \in Browser, NEW w \in Wish, CreateAlert(b, w)
        PROVE  alerts'[i] = alerts[i]
    <3>1. i # lastId + 1
      BY <1>1 DEF IInv, TableInv, FreshInv, RowTypes
    <3>2. QED
      BY <2>0, <2>1, <3>1 DEF CreateAlert, InsertAlert, NextId
  <2>2. ASSUME NEW b \in Browser, NEW d \in AlertId, DeleteAlert(b, d)
        PROVE  alerts'[i] \in {alerts[i], NoAlert}
    BY <2>0, <2>2 DEF DeleteAlert, AlertsWithout
  <2>3. CASE Mark \/ LateCommit
    BY <2>0, <2>3, MarkedProperties DEF Mark, LateCommit
  <2>4. CASE AccountStep \/ Flush \/ Match \/ CheckFails \/ Crash \/ UNCHANGED vars
    BY <2>4 DEF AccountStep, Flush, Match, CheckFails, Crash, vars, alertVars
  <2>5. QED
    BY <1>1, <2>1, <2>2, <2>3, <2>4 DEF Next, AlertsNext, CheckNext
<1>2. IInv /\ [Next]_vars =>
        [\A i \in AlertId : alerts[i] # NoAlert /\ alerts[i].by # NoTrade =>
           alerts'[i] \in {alerts[i], NoAlert}]_alerts
  BY <1>1
<1>3. QED
  BY <1>2, Invariance, PTL DEF FiresOnce, Spec

\* Only a holder of an admin's token, of an address that is an admin's or was
\* within the token's life, takes an alert away; nobody changes its owner or
\* what it asks.
THEOREM AdminsRemove == Spec => RemovedByAdmins
<1>1. ASSUME IInv, [Next]_vars, NEW i \in AlertId, alerts[i] # NoAlert
      PROVE  IF alerts'[i] = NoAlert
             THEN \E b \in Browser : /\ Valid(b) /\ session[b].role = "admin"
                                     /\ AdminLately(session[b].email)
             ELSE alerts'[i].owner = alerts[i].owner /\ alerts'[i].wish = alerts[i].wish
  <2>0. /\ alerts \in [AlertId -> Row \cup {NoAlert}]
        /\ fired \in Marks /\ lateMarks \in Marks
    BY <1>1 DEF IInv, TableInv, RowTypes, StreamTypes
  <2>1. ASSUME NEW b \in Browser, NEW w \in Wish, CreateAlert(b, w)
        PROVE  alerts'[i] = alerts[i]
    <3>1. i # lastId + 1
      BY <1>1 DEF IInv, TableInv, FreshInv, RowTypes
    <3>2. QED
      BY <2>0, <2>1, <3>1 DEF CreateAlert, InsertAlert, NextId
  <2>2. ASSUME NEW b \in Browser, NEW d \in AlertId, DeleteAlert(b, d)
        PROVE  /\ alerts'[i] \in {alerts[i], NoAlert}
               /\ Valid(b) /\ session[b].role = "admin" /\ AdminLately(session[b].email)
    <3>1. alerts'[i] \in {alerts[i], NoAlert}
      BY <2>0, <2>2 DEF DeleteAlert, AlertsWithout
    <3>2. Valid(b) /\ session[b].role = "admin"
      BY <2>2 DEF DeleteAlert, MayDelete
    <3>3. AccountsInv => DemotedLosesPower
      BY AdminsLately
    <3>4. QED
      BY <1>1, <3>1, <3>2, <3>3 DEF IInv, DemotedLosesPower
  <2>3. CASE Mark \/ LateCommit
    BY <1>1, <2>0, <2>3, MarkedProperties DEF Mark, LateCommit
  <2>4. CASE AccountStep \/ Flush \/ Match \/ CheckFails \/ Crash \/ UNCHANGED vars
    <3>1. alerts' = alerts
      BY <2>4 DEF AccountStep, Flush, Match, CheckFails, Crash, vars, alertVars
    <3>2. QED
      BY <1>1, <3>1
  <2>5. QED
    BY <1>1, <2>1, <2>2, <2>3, <2>4 DEF Next, AlertsNext, CheckNext
<1>2. IInv /\ [Next]_vars =>
        [\A i \in AlertId : alerts[i] # NoAlert =>
           IF alerts'[i] = NoAlert
           THEN \E b \in Browser : /\ Valid(b) /\ session[b].role = "admin"
                                   /\ AdminLately(session[b].email)
           ELSE alerts'[i].owner = alerts[i].owner
                /\ alerts'[i].wish = alerts[i].wish]_alerts
  BY <1>1
<1>3. QED
  BY <1>2, Invariance, PTL DEF RemovedByAdmins, Spec

=============================================================================

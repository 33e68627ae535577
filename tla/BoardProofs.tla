----------------------------- MODULE BoardProofs -----------------------------
(***************************************************************************)
(* Theorems about LiveBoard, for every set of trades, symbols and days and *)
(* every combination of failures.                                          *)
(***************************************************************************)
EXTENDS LiveBoard, StreamProofs

----------------------------------------------------------------------------
\* Every step of the composition is one of the stream, or none of its own.
LEMMA BoardStepIsStreamStep == [BoardNext]_boardVars => [Next]_vars
BY DEF BoardNext, StreamStep, PageStep, ReadRedis, RedisMisses, ReadPostgres,
       Midnight, boardVars

\* The board does not disturb the stream: with it, the stream behaves as it
\* does alone, so that all that is proved of Stream holds here.
THEOREM BoardOnlyReads == BoardSpec => Spec
<1>1. BoardInit => Init
  BY DEF BoardInit
<1>2. QED
  BY <1>1, BoardStepIsStreamStep, PTL DEF BoardSpec, Spec

----------------------------------------------------------------------------
(***************************************************************************)
(* Cards.                                                                  *)
(***************************************************************************)
LEMMA NoCardType == NoCard \in Card
BY DEF NoCard, Card

\* A well-formed hash makes a well-formed card.
LEMMA RedisCardType ==
  ASSUME NEW h \in HashType, NEW d
  PROVE  RedisCard(h, d) \in Card
BY DEF RedisCard, HashType, NoCard, Card

\* Two subsets of the table have their times: the rows of the symbol, and
\* those of today.
LEMMA SqlCardType ==
  ASSUME TypeInv, NEW s \in Symbol
  PROVE  SqlCard(s) \in Card
<1> DEFINE found == OfSymbol(rawTrades, s)
           todays == {t \in found : DayOf[t] >= today}
<1>1. found \subseteq Trade /\ todays \subseteq Trade /\ IsFiniteSet(todays)
  BY FS_Subset DEF OfSymbol, TypeInv, TypeOK
<1>2. Cardinality(todays) \in Nat
  BY <1>1, FS_CardinalityType
<1>3. todays # {} => Min(Times(todays)) \in Nat
  BY <1>1, TimesBounds
<1>4. CASE found = {}
  BY <1>4, NoCardType DEF SqlCard
<1>5. CASE found # {}
  <2>1. Max(Times(found)) \in Nat
    BY <1>1, <1>5, TimesBounds
  <2>2. QED
    BY <1>1, <1>2, <1>3, <1>5, <2>1 DEF SqlCard, Card
<1>6. QED
  BY <1>4, <1>5

\* The board shows cards, and the stream keeps its types beside it.
THEOREM BoardTypeCorrect == BoardSpec => []BoardTypeOK
<1> DEFINE Inv == TypeInv /\ BoardTypeOK
<1>1. BoardInit => Inv
  BY TypeInvInit, NoCardType DEF BoardInit, TypeInv, BoardTypeOK
<1>2. ASSUME Inv, [BoardNext]_boardVars PROVE Inv'
  <2>1. TypeInv'
    BY <1>2, BoardStepIsStreamStep, TypeInvStep
  <2>2. TypeOK'
    BY <2>1 DEF TypeInv
  <2>3. CASE StreamStep
    BY <1>2, <2>1, <2>2, <2>3 DEF StreamStep, pageVars, BoardTypeOK
  <2>4. CASE ReadRedis
    <3>1. \A s \in Symbol : RedisCard(hash[s], today) \in Card
      BY <1>2, RedisCardType DEF TypeInv, TypeOK
    <3>2. QED
      BY <1>2, <2>1, <2>2, <2>4, <3>1 DEF ReadRedis, Show, BoardTypeOK
  <2>5. CASE RedisMisses
    BY <1>2, <2>1, <2>2, <2>5 DEF RedisMisses, BoardTypeOK
  <2>6. CASE ReadPostgres
    <3>1. \A s \in Symbol : SqlCard(s) \in Card
      BY <1>2, SqlCardType
    <3>2. QED
      BY <1>2, <2>1, <2>2, <2>6, <3>1 DEF ReadPostgres, Show, BoardTypeOK
  <2>7. CASE Midnight
    BY <1>2, <2>1, <2>2, <2>7 DEF Midnight, pageVars, BoardTypeOK
  <2>8. CASE UNCHANGED boardVars
    BY <1>2, <2>1, <2>2, <2>8 DEF boardVars, pageVars, BoardTypeOK
  <2>9. QED
    BY <1>2, <2>3, <2>4, <2>5, <2>6, <2>7, <2>8 DEF BoardNext, PageStep
<1>3. QED
  BY <1>1, <1>2, PTL DEF BoardSpec

----------------------------------------------------------------------------
(***************************************************************************)
(* The days of a hash.  A hash belongs to the day of the latest trade it   *)
(* covers; earlier ones are in it only from a batch over midnight that     *)
(* found no hash of the new day, so they are fewer than a batch.           *)
(***************************************************************************)
Early(h) == {t \in h.seen : DayOf[t] < h.day}

OfItsDay(h) ==
  \/ h = NoHash
  \/ /\ \E t \in h.seen : DayOf[t] = h.day
     /\ \A t \in h.seen : DayOf[t] <= h.day
     /\ Cardinality(Early(h)) < MaxRows

DayInv ==
  /\ \A s \in Symbol : OfItsDay(hash[s]) /\ OfItsDay(stored[s])
  /\ pc \in {"write", "save"} /\ loaded =>
       \A s \in SymbolsIn(batch) :
         stored[s] = NoHash \/ stored[s].day = BatchDay(batch)
  /\ Cardinality(batch) <= MaxRows

LEMMA NoHashOfItsDay == OfItsDay(NoHash)
BY DEF OfItsDay

\* A batch has at most MaxRows trades.
LEMMA DrainIsBounded ==
  ASSUME TypeInv, FlowInv, Drain
  PROVE  Cardinality(batch') <= MaxRows
<1>1. /\ Cardinality(batch') + Len(queue') = Len(queue)
      /\ Cardinality(batch') \in Nat
  BY DrainCounts
<1>2. Len(queue') = Len(queue) - Take
  BY LeaveRestProperties DEF Drain, TypeInv, TypeOK
<1>3. Len(queue) \in Nat /\ MaxRows \in Nat
  BY BoundAssumption DEF TypeInv, TypeOK
<1>4. Take \in Nat /\ Take <= MaxRows
  <2>1. Min({MaxRows, Len(queue)}) \in {MaxRows, Len(queue)}
        /\ \A y \in {MaxRows, Len(queue)} : Min({MaxRows, Len(queue)}) <= y
    BY <1>3, MinOfNats
  <2>2. QED
    BY <1>3, <2>1 DEF Take
<1>5. QED
  BY <1>1, <1>2, <1>3, <1>4

\* A seed has trades of its day alone.
LEMMA SeedOfItsDay ==
  ASSUME NEW s, NEW d \in Nat, rawTrades \subseteq Trade
  PROVE  /\ OfItsDay(Seed(s, d))
         /\ Seed(s, d) = NoHash \/ Seed(s, d).day = d
<1>1. CASE SeedRows(s, d) = {}
  BY <1>1, NoHashOfItsDay DEF Seed
<1>2. CASE SeedRows(s, d) # {}
  <2>1. Seed(s, d).seen = SeedRows(s, d) /\ Seed(s, d).day = d
    BY <1>2 DEF Seed
  <2>2. \A t \in SeedRows(s, d) : DayOf[t] = d
    BY DEF SeedRows
  <2>3. Early(Seed(s, d)) = {}
    BY <2>1, <2>2 DEF Early
  <2>4. Cardinality(Early(Seed(s, d))) < MaxRows
    BY <2>3, FS_EmptySet, BoundAssumption
  <2>5. QED
    BY <1>2, <2>1, <2>2, <2>4 DEF OfItsDay
<1>3. QED
  BY <1>1, <1>2

\* A merge into no hash leaves out of the day's trades at most the batch less
\* the trade that gave the day; a merge of later trades into a hash of the
\* day brings no trade of an earlier one.
LEMMA MergeOfItsDay ==
  ASSUME NEW B, B \subseteq Trade, B # {}, IsFiniteSet(B),
         Cardinality(B) <= MaxRows,
         NEW old \in HashType, OfItsDay(old),
         old = NoHash \/ old.day = BatchDay(B),
         \A t \in old.seen, u \in B : TsOf[t] <= TsOf[u]
  PROVE  OfItsDay(Merge(old, B))
<1> DEFINE new == Merge(old, B)
           d == BatchDay(B)
<1>1. new.day = d /\ new.seen = old.seen \cup B
  BY DEF Merge
<1>2. /\ d \in Nat /\ \E t \in B : DayOf[t] = d
      /\ \A t \in B : DayOf[t] <= d
  BY BatchDayIsADay
<1>3. \A t \in new.seen : DayOf[t] <= d
  BY <1>1, <1>2 DEF OfItsDay, NoHash
<1>4. Cardinality(Early(new)) < MaxRows
  <2>1. CASE old = NoHash
    <3>1. Early(new) = {t \in B : DayOf[t] < d}
      BY <1>1, <2>1 DEF Early, NoHash
    <3>2. Early(new) \subseteq B /\ Early(new) # B
      BY <1>2, <3>1, TradeAssumption
    <3>3. Cardinality(Early(new)) \in Nat /\ Cardinality(B) \in Nat
      BY <3>2, FS_Subset, FS_CardinalityType
    <3>4. /\ Cardinality(Early(new)) <= Cardinality(B)
          /\ Cardinality(Early(new)) # Cardinality(B)
      BY <3>2, FS_Subset
    <3>5. QED
      BY <3>3, <3>4, BoundAssumption
  <2>2. CASE old # NoHash
    <3>1. /\ old.day = d /\ \E t \in old.seen : DayOf[t] = d
          /\ old.seen \subseteq Trade
      BY <2>2 DEF OfItsDay, HashType
    <3>2. \A u \in B : d <= DayOf[u]
      BY <3>1, TradeAssumption
    <3>3. \A u \in B : ~(DayOf[u] < d)
      BY <1>2, <3>2, TradeAssumption
    <3>4. Early(new) = Early(old)
      BY <1>1, <3>1, <3>3 DEF Early
    <3>5. QED
      BY <2>2, <3>4 DEF OfItsDay
  <2>3. QED
    BY <2>1, <2>2
<1>5. QED
  BY <1>1, <1>2, <1>3, <1>4 DEF OfItsDay

\* When a trusted hash is complete: TrustIsJustified and TrustOfAllSymbols.
TrustIsKept ==
  \/ /\ \A s, u \in Symbol : s = u
     /\ "ambiguousCommit" \notin Faults
  \/ /\ \A t, u \in Trade : DayOf[t] = DayOf[u]
     /\ Faults \cap {"loadFails", "saveFails", "crash", "ambiguousCommit"} = {}

\* In both cases a symbol's part of a batch has the day of the batch, and a
\* symbol without a part leaves all trades on one day.
LEMMA PartOfBatch ==
  ASSUME TrustIsKept, NEW B, B \subseteq Trade, B # {}, IsFiniteSet(B),
         NEW s \in Symbol
  PROVE  /\ s \in SymbolsIn(B) => BatchDay(OfSymbol(B, s)) = BatchDay(B)
         /\ s \notin SymbolsIn(B) => \A t, u \in Trade : DayOf[t] = DayOf[u]
<1>1. CASE \A v, u \in Symbol : v = u
  <2>1. \A t \in B : SymbolOf[t] = s
    BY <1>1, TradeAssumption
  <2>2. QED
    BY <2>1 DEF OfSymbol, SymbolsIn
<1>2. CASE \A t, u \in Trade : DayOf[t] = DayOf[u]
  <2>1. ASSUME s \in SymbolsIn(B)
        PROVE  BatchDay(OfSymbol(B, s)) = BatchDay(B)
    <3> DEFINE P == OfSymbol(B, s)
    <3>1. P \subseteq Trade /\ P # {}
      BY <2>1, OfSymbolProperties
    <3> HIDE DEF P
    <3>2. /\ \E t \in P : BatchDay(P) = DayOf[t]
          /\ \E u \in B : BatchDay(B) = DayOf[u]
      BY <3>1, BatchDayIsADay
    <3>3. BatchDay(P) = BatchDay(B)
      BY <1>2, <3>1, <3>2
    <3>4. QED
      BY <3>3 DEF P
  <2>2. QED
    BY <1>2, <2>1
<1>3. QED
  BY <1>1, <1>2 DEF TrustIsKept

\* No stored trade is of a later day than a hash that is trusted.
Newest(s) ==
  hash[s] # NoHash => \A t \in OfSymbol(rawTrades, s) : DayOf[t] <= hash[s].day

\* What a Redis write leaves of a hash.
LEMMA WriteHashesOfItsDay ==
  ASSUME TrustIsKept,
         IInv, OrderInv, DayInv, pc = "save", WriteHashes,
         rawTrades' = rawTrades, NEW s \in Symbol
  PROVE  OfItsDay(hash'[s]) /\ Newest(s)'
<1>1. /\ batch \subseteq Trade /\ batch # {} /\ IsFiniteSet(batch) /\ loaded
      /\ rawTrades \subseteq Trade /\ stored[s] \in HashType
      /\ stored[s].seen \subseteq rawTrades
      /\ \A t \in stored[s].seen : SymbolOf[t] = s
      /\ stored[s].seen \cap batch = {}
  BY DEF IInv, TypeInv, TypeOK, CacheInv, GoodHash
<1>2. CASE s \in SymbolsIn(batch)
  <2> DEFINE B == OfSymbol(batch, s)
  <2>1. /\ hash'[s] = Merge(stored[s], B)
        /\ BatchDay(B) = BatchDay(batch)
        /\ B \subseteq batch /\ B # {} /\ B \subseteq Trade /\ IsFiniteSet(B)
    BY <1>1, <1>2, PartOfBatch, OfSymbolProperties DEF WriteHashes
  <2>2. \A t \in OfSymbol(rawTrades \ batch, s), u \in B : TsOf[t] <= TsOf[u]
    BY <2>1 DEF OrderInv, NotAfter, OfSymbol
  <2>3. \A t \in stored[s].seen, u \in B : TsOf[t] <= TsOf[u]
    BY <1>1, <2>2 DEF OfSymbol
  <2>4. \A t \in OfSymbol(rawTrades, s) : t \in B \/ t \in OfSymbol(rawTrades \ batch, s)
    BY DEF OfSymbol
  <2>5. OfSymbol(rawTrades, s) \subseteq Trade
    BY <1>1 DEF OfSymbol
  <2>6. Cardinality(B) <= MaxRows
    <3>1. Cardinality(B) <= Cardinality(batch)
      BY <1>1, <2>1, FS_Subset
    <3>2. /\ Cardinality(B) \in Nat /\ Cardinality(batch) \in Nat /\ MaxRows \in Nat
          /\ Cardinality(batch) <= MaxRows
      BY <1>1, <2>1, FS_CardinalityType, BoundAssumption DEF DayInv
    <3> HIDE DEF B
    <3>3. QED
      BY <3>1, <3>2
  <2> HIDE DEF B
  <2>7. OfItsDay(hash'[s])
    <3>1. /\ OfItsDay(stored[s])
          /\ stored[s] = NoHash \/ stored[s].day = BatchDay(B)
      BY <1>1, <1>2, <2>1 DEF DayInv
    <3>2. QED
      BY <1>1, <2>1, <2>3, <2>6, <3>1, MergeOfItsDay
  <2>8. ASSUME NEW t \in OfSymbol(rawTrades, s) PROVE DayOf[t] <= BatchDay(B)
    <3>1. /\ BatchDay(B) \in Nat
          /\ \E u \in B : DayOf[u] = BatchDay(B)
          /\ \A u \in B : DayOf[u] <= BatchDay(B)
      BY <2>1, BatchDayIsADay
    <3>2. CASE t \in B
      BY <3>1, <3>2
    <3>3. CASE t \notin B
      <4>1. \A u \in B : DayOf[t] <= DayOf[u]
        BY <2>1, <2>2, <2>4, <2>5, <3>3, TradeAssumption
      <4>2. QED
        BY <3>1, <4>1
    <3>4. QED
      BY <3>2, <3>3
  <2>9. hash'[s].day = BatchDay(B)
    BY <2>1 DEF Merge
  <2>10. QED
    BY <2>7, <2>8, <2>9 DEF Newest, OfSymbol
<1>3. CASE s \notin SymbolsIn(batch)
  <2>1. hash'[s] = hash[s] /\ OfItsDay(hash[s])
    BY <1>3 DEF WriteHashes, DayInv
  <2>2. \A t, u \in Trade : DayOf[t] = DayOf[u]
    BY <1>1, <1>3, PartOfBatch
  <2>3. hash[s].seen \subseteq Trade
    BY DEF IInv, TypeInv, TypeOK, CacheInv, GoodHash
  <2>4. hash[s] # NoHash => \A t \in Trade : DayOf[t] = hash[s].day
    BY <2>1, <2>2, <2>3 DEF OfItsDay
  <2>5. \A t \in OfSymbol(rawTrades, s) : t \in Trade /\ DayOf[t] \in Nat
    BY <1>1, TradeAssumption DEF OfSymbol
  <2>6. QED
    BY <2>1, <2>4, <2>5 DEF Newest, OfSymbol
<1>4. QED
  BY <1>2, <1>3

LEMMA DayStep ==
  ASSUME TrustIsKept, IInv, OrderInv, DayInv, [Next]_vars
  PROVE  DayInv'
<1> USE DEF dbVars, flushVars, eventVars
<1>0. /\ TypeInv /\ FlowInv /\ MaxRows \in Nat /\ 0 <= MaxRows
      /\ Cardinality({}) = 0
  BY FS_EmptySet, BoundAssumption DEF IInv
<1>1. CASE StartSession \/ WriteFails \/ WriteAmbiguous \/ SaveFails \/ Finish
           \/ FinishFails \/ Crash
  <2>1. /\ hash' = hash /\ stored' = [s \in Symbol |-> NoHash]
        /\ batch' = {} /\ pc' \notin {"write", "save"}
    BY <1>1 DEF StartSession, WriteFails, WriteAmbiguous, SaveFails, AfterSave,
                Finish, FinishFails, Crash, ProcessDies, MemoryGone, Discard
  <2>2. QED
    BY <1>0, <2>1, NoHashOfItsDay DEF DayInv
<1>2. CASE LoadFails
  <2>1. /\ hash' = hash /\ stored' = [s \in Symbol |-> NoHash]
        /\ batch' = batch /\ loaded' = FALSE
    BY <1>2 DEF LoadFails
  <2>2. QED
    BY <2>1, NoHashOfItsDay DEF DayInv
<1>3. CASE Drain
  <2>1. hash' = hash /\ stored' = stored /\ pc' = "load"
    BY <1>3 DEF Drain
  <2>2. Cardinality(batch') <= MaxRows
    BY <1>0, <1>3, DrainIsBounded
  <2>3. QED
    BY <2>1, <2>2 DEF DayInv
<1>4. CASE Load
  <2>1. /\ hash' = hash /\ batch' = batch
        /\ stored' = [s \in Symbol |->
              IF s \notin SymbolsIn(batch) THEN NoHash
              ELSE IF Stale(s) THEN Seed(s, BatchDay(batch))
              ELSE Read(s)]
    BY <1>4 DEF Load
  <2>2. rawTrades \subseteq Trade /\ batch \subseteq Trade
    BY <1>0 DEF TypeInv, TypeOK
  <2>3. ASSUME NEW s \in Symbol
        PROVE  /\ OfItsDay(stored'[s])
               /\ s \in SymbolsIn(batch) =>
                    stored'[s] = NoHash \/ stored'[s].day = BatchDay(batch)
    <3>1. CASE s \notin SymbolsIn(batch)
      BY <2>1, <3>1, NoHashOfItsDay
    <3>2. CASE s \in SymbolsIn(batch) /\ Stale(s)
      <4>1. BatchDay(batch) \in Nat
        BY <2>2, <3>2, BatchDayIsADay DEF SymbolsIn
      <4>2. QED
        BY <2>1, <2>2, <3>2, <4>1, SeedOfItsDay
    <3>3. CASE s \in SymbolsIn(batch) /\ ~Stale(s)
      <4>1. stored'[s] = Read(s) /\ Read(s).day = BatchDay(batch)
        BY <2>1, <3>3 DEF Stale
      <4>2. OfItsDay(Read(s))
        BY NoHashOfItsDay DEF Read, DayInv
      <4>3. QED
        BY <4>1, <4>2
    <3>4. QED
      BY <3>1, <3>2, <3>3
  <2>4. SymbolsIn(batch) \subseteq Symbol /\ SymbolsIn(batch)' = SymbolsIn(batch)
    BY <2>1, <2>2, TradeAssumption DEF SymbolsIn
  <2>5. QED
    BY <2>1, <2>3, <2>4 DEF DayInv
<1>5. CASE Write
  <2>1. hash' = hash /\ pc = "write"
    BY <1>5 DEF Write
  <2>2. CASE batch # {} /\ loaded
    <3>1. UNCHANGED <<batch, stored, loaded>>
      BY <1>5, <2>2 DEF Write
    <3>2. SymbolsIn(batch)' = SymbolsIn(batch)
      BY <3>1 DEF SymbolsIn
    <3>3. QED
      BY <2>1, <2>2, <3>1, <3>2 DEF DayInv
  <2>3. CASE ~(batch # {} /\ loaded)
    <3>1. /\ stored' = [s \in Symbol |-> NoHash]
          /\ batch' = {} /\ pc' = "closed"
      BY <1>5, <2>3 DEF Write, Discard
    <3>2. QED
      BY <1>0, <2>1, <3>1, NoHashOfItsDay DEF DayInv
  <2>4. QED
    BY <2>2, <2>3
<1>6. CASE Save \/ SaveTimesOut
  <2>1. /\ pc = "save" /\ WriteHashes /\ pc' = "closed"
        /\ stored' = [s \in Symbol |-> NoHash] /\ batch' = {}
        /\ rawTrades' = rawTrades
    BY <1>6 DEF Save, SaveTimesOut, AfterSave, Discard
  <2>2. \A s \in Symbol : OfItsDay(hash'[s])
    BY <2>1, WriteHashesOfItsDay
  <2>3. QED
    BY <1>0, <2>1, <2>2, NoHashOfItsDay DEF DayInv
<1>7. CASE RedisRestart
  <2>1. /\ UNCHANGED <<pc, batch, stored, loaded>>
        /\ hash' = [s \in Symbol |-> NoHash]
    BY <1>7 DEF RedisRestart
  <2>2. SymbolsIn(batch)' = SymbolsIn(batch)
    BY <2>1 DEF SymbolsIn
  <2>3. QED
    BY <2>1, <2>2, NoHashOfItsDay DEF DayInv
<1>8. CASE CheckClosed \/ SocketStep \/ UNCHANGED vars
  <2>1. /\ UNCHANGED <<hash, batch, stored, loaded>>
        /\ pc' = pc \/ pc' \notin {"write", "save"}
    BY <1>8 DEF CheckClosed, SocketStep, PutTrade, RecordTrades, SocketError,
                SocketClose, vars
  <2>2. SymbolsIn(batch)' = SymbolsIn(batch)
    BY <2>1 DEF SymbolsIn
  <2>3. QED
    BY <2>1, <2>2 DEF DayInv
<1>9. QED
  BY <1>1, <1>2, <1>3, <1>4, <1>5, <1>6, <1>7, <1>8 DEF Next, MainStep

NewestInv == pc # "save" /\ ~needsReseed => \A s \in Symbol : Newest(s)

LEMMA NewestStep ==
  ASSUME TrustIsKept, IInv, OrderInv, DayInv, NewestInv, [Next]_vars
  PROVE  NewestInv'
<1> USE DEF dbVars, flushVars, eventVars
<1>1. CASE StartSession \/ Finish \/ FinishFails \/ Crash \/ SaveFails
           \/ SaveTimesOut
  <2>1. needsReseed' = TRUE
    BY <1>1 DEF StartSession, Finish, FinishFails, Crash, ProcessDies,
                MemoryGone, SaveFails, SaveTimesOut, ReseedAtStart
  <2>2. QED
    BY <2>1 DEF NewestInv
<1>2. CASE Drain \/ Load \/ LoadFails \/ WriteFails \/ CheckClosed
           \/ SocketStep \/ UNCHANGED vars
  <2>1. /\ UNCHANGED <<rawTrades, hash, needsReseed>>
        /\ pc # "save" \/ pc' = pc
    BY <1>2 DEF Drain, Load, LoadFails, WriteFails, CheckClosed, SocketStep,
                PutTrade, RecordTrades, SocketError, SocketClose, vars
  <2>2. QED
    BY <2>1 DEF NewestInv, Newest, OfSymbol
<1>3. CASE Write
  <2>1. /\ rawTrades' = rawTrades \cup batch /\ hash' = hash /\ pc = "write"
        /\ needsReseed' = (needsReseed \/ (batch # {} /\ ~loaded))
    BY <1>3 DEF Write, CommitBatch
  <2>2. CASE batch # {}
    <3>1. needsReseed' = TRUE \/ pc' = "save"
      BY <1>3, <2>1, <2>2 DEF Write
    <3>2. QED
      BY <3>1 DEF NewestInv
  <2>3. CASE batch = {}
    <3>1. rawTrades' = rawTrades /\ needsReseed' = needsReseed
      BY <2>1, <2>3 DEF IInv, TypeInv, TypeOK
    <3>2. QED
      BY <2>1, <3>1 DEF NewestInv, Newest, OfSymbol
  <2>4. QED
    BY <2>2, <2>3
<1>4. CASE WriteAmbiguous
  BY <1>4 DEF WriteAmbiguous, TrustIsKept
<1>5. CASE Save
  <2>1. pc = "save" /\ WriteHashes /\ rawTrades' = rawTrades
    BY <1>5 DEF Save, AfterSave
  <2>2. \A s \in Symbol : Newest(s)'
    BY <2>1, WriteHashesOfItsDay
  <2>3. QED
    BY <2>2 DEF NewestInv
<1>6. CASE RedisRestart
  <2>1. hash' = [s \in Symbol |-> NoHash]
    BY <1>6 DEF RedisRestart
  <2>2. QED
    BY <2>1 DEF NewestInv, Newest
<1>7. QED
  BY <1>1, <1>2, <1>3, <1>4, <1>5, <1>6 DEF Next, MainStep

\* All that the board relies on of the stream.
StepInv == IInv /\ OrderInv /\ TrustInv /\ StatsInv /\ DayInv /\ NewestInv

\* Under either condition trusted hashes are complete.
LEMMA TrustInvariant == ASSUME TrustIsKept PROVE Spec => []TrustInv
<1>1. CASE /\ \A s, u \in Symbol : s = u
           /\ "ambiguousCommit" \notin Faults
  <2>1. Init => TrustInv
    BY DEF Init, TrustInv
  <2>2. IInv /\ TrustInv /\ [Next]_vars => TrustInv'
    BY <1>1, TrustStep
  <2>3. QED
    BY <2>1, <2>2, IInvariant, PTL DEF Spec
<1>2. CASE /\ \A t, u \in Trade : DayOf[t] = DayOf[u]
           /\ Faults \cap {"loadFails", "saveFails", "crash",
                           "ambiguousCommit"} = {}
  <2>1. Init => WholeInv
    BY DEF Init, WholeInv, Complete, SeedRows
  <2>2. IInv /\ WholeInv /\ [Next]_vars => WholeInv'
    BY <1>2, WholeStep
  <2>3. WholeInv => TrustInv
    BY DEF WholeInv, TrustInv
  <2>4. QED
    BY <2>1, <2>2, <2>3, IInvariant, PTL DEF Spec
<1>3. QED
  BY <1>1, <1>2 DEF TrustIsKept

LEMMA StepInvariant == ASSUME TrustIsKept, InOrder PROVE Spec => []StepInv
<1>1. Init => OrderInv /\ StatsInv /\ DayInv /\ NewestInv
  <2>1. Init => OrderInv /\ StatsInv
    BY NoHashFollows, EmptySeq DEF Init, OrderInv, StatsInv
  <2>2. Init => NewestInv
    BY DEF Init, NewestInv
  <2>3. Init => DayInv
    BY NoHashOfItsDay, FS_EmptySet, BoundAssumption DEF Init, DayInv
  <2>4. QED
    BY <2>1, <2>2, <2>3
<1>2. IInv /\ OrderInv /\ [Next]_vars => OrderInv'
  BY OrderStep DEF IInv
<1>3. IInv /\ OrderInv /\ StatsInv /\ [Next]_vars => StatsInv'
  BY StatsStep
<1>4. IInv /\ OrderInv /\ DayInv /\ [Next]_vars => DayInv'
  BY DayStep
<1>5. IInv /\ OrderInv /\ DayInv /\ NewestInv /\ [Next]_vars => NewestInv'
  BY NewestStep
<1>6. QED
  BY <1>1, <1>2, <1>3, <1>4, <1>5, IInvariant, TrustInvariant, PTL
     DEF Spec, StepInv

----------------------------------------------------------------------------
(***************************************************************************)
(* The same card from either store.                                        *)
(***************************************************************************)
\* The dates of the two clocks and of the trades that have come.
DateInv == \A t \in arrived : DayOf[t] <= today

\* A non-empty set of trades has a latest one, whose time Max returns.
LEMMA LatestOf ==
  ASSUME NEW B, B \subseteq Trade, B # {}
  PROVE  \E t \in B : /\ Max(Times(B)) = TsOf[t]
                      /\ \A u \in B : TsOf[u] <= TsOf[t]
<1>1. Times(B) \subseteq Nat /\ Times(B) # {} /\ MaxTs \in Nat
      /\ \A y \in Times(B) : y <= MaxTs
  BY TradeAssumption DEF Times
<1>2. Max(Times(B)) \in Times(B) /\ \A y \in Times(B) : y <= Max(Times(B))
  BY <1>1, MaxOfNats
<1>3. QED
  BY <1>2 DEF Times

\* A trusted hash covers the latest row of its symbol: that row is of the
\* hash's day, for no row is of a later one.
LEMMA SamePrice ==
  ASSUME StepInv, ~Behind, NEW s \in Symbol, hash[s] # NoHash
  PROVE  /\ OfSymbol(rawTrades, s) # {}
         /\ hash[s].tradeTs = Max(Times(OfSymbol(rawTrades, s)))
<1> DEFINE found == OfSymbol(rawTrades, s)
           seen == hash[s].seen
           d == hash[s].day
<1>1. /\ seen \subseteq found /\ found \subseteq Trade
      /\ \E t \in seen : DayOf[t] = d
      /\ hash[s].tradeTs = Max(Times(seen))
  BY DEF StepInv, IInv, TypeInv, TypeOK, CacheInv, GoodHash, OfSymbol, DayInv,
         OfItsDay, StatsInv, StatsFollow
<1>2. /\ \A t \in found : DayOf[t] <= d
      /\ \A t \in found : DayOf[t] = d => t \in seen
  BY DEF StepInv, NewestInv, Newest, TrustInv, Complete, SeedRows, Behind,
         OfSymbol
<1>3. seen # {} /\ seen \subseteq Trade /\ found # {}
  BY <1>1
<1> HIDE DEF found, seen, d
<1>4. PICK m \in found : /\ Max(Times(found)) = TsOf[m]
                         /\ \A u \in found : TsOf[u] <= TsOf[m]
  BY <1>1, <1>3, LatestOf
<1>5. PICK n \in seen : /\ Max(Times(seen)) = TsOf[n]
                        /\ \A u \in seen : TsOf[u] <= TsOf[n]
  BY <1>3, LatestOf
<1>6. m \in seen
  <2>1. PICK u \in seen : DayOf[u] = d
    BY <1>1
  <2>2. DayOf[u] <= DayOf[m] /\ DayOf[m] <= d
    BY <1>1, <1>2, <1>4, TradeAssumption
  <2>3. DayOf[m] \in Nat /\ DayOf[u] \in Nat
    BY <1>1, TradeAssumption
  <2>4. DayOf[m] = d
    BY <2>1, <2>2, <2>3
  <2>5. QED
    BY <1>2, <2>4
<1>7. TsOf[m] = TsOf[n]
  <2>1. TsOf[m] <= TsOf[n] /\ TsOf[n] <= TsOf[m]
    BY <1>1, <1>4, <1>5, <1>6
  <2>2. TsOf[m] \in Nat /\ TsOf[n] \in Nat
    BY <1>1, TradeAssumption
  <2>3. QED
    BY <2>1, <2>2
<1>8. hash[s].tradeTs = Max(Times(found))
  BY <1>1, <1>4, <1>5, <1>7
<1>9. QED
  BY <1>3, <1>8 DEF found

\* The statistics of a hash of today are those of today's rows, but for the
\* trades that a batch over midnight brought with it.
LEMMA SameStatsToday ==
  ASSUME StepInv, ~Behind, NEW s \in Symbol, hash[s] # NoHash,
         NEW todays, todays = {t \in OfSymbol(rawTrades, s) : DayOf[t] >= today},
         hash[s].day = today, today \in Nat
  PROVE  LET leak == hash[s].seen \ todays
         IN /\ todays \subseteq hash[s].seen
            /\ hash[s].count = Cardinality(todays) + Cardinality(leak)
            /\ \A t \in leak : DayOf[t] < today
            /\ Cardinality(leak) < MaxRows
            /\ leak = {} => todays # {} /\ hash[s].openTs = Min(Times(todays))
<1> DEFINE seen == hash[s].seen
           leak == seen \ todays
<1>1. /\ seen \subseteq OfSymbol(rawTrades, s) /\ seen \subseteq Trade
      /\ seen # {} /\ IsFiniteSet(seen)
      /\ hash[s].count = Cardinality(seen)
      /\ Cardinality(Early(hash[s])) < MaxRows
      /\ hash[s].openTs = Min(Times(seen))
  BY DEF StepInv, IInv, TypeInv, TypeOK, CacheInv, GoodHash, OfSymbol, DayInv,
         OfItsDay, StatsInv, StatsFollow, OpenFollows
<1>2. \A t \in OfSymbol(rawTrades, s) :
        /\ t \in Trade /\ DayOf[t] \in Nat
        /\ DayOf[t] <= today
        /\ DayOf[t] = today => t \in seen
  BY TradeAssumption DEF StepInv, NewestInv, Newest, TrustInv, Complete, SeedRows,
         Behind, OfSymbol, IInv, TypeInv, TypeOK
<1>3. todays \subseteq seen
  BY <1>2
<1>4. \A t \in seen : t \in leak <=> DayOf[t] < today
  BY <1>1, <1>2
<1>5. leak = Early(hash[s])
  BY <1>4 DEF Early
<1>6. Cardinality(seen) = Cardinality(todays) + Cardinality(leak)
  <2>1. Cardinality(leak) = Cardinality(seen) - Cardinality(seen \cap todays)
    BY <1>1, FS_Difference
  <2>2. seen \cap todays = todays
    BY <1>3
  <2>3. Cardinality(seen) \in Nat /\ Cardinality(todays) \in Nat
    BY <1>1, <1>3, FS_Subset, FS_CardinalityType
  <2>4. Cardinality(leak) = Cardinality(seen) - Cardinality(todays)
    BY <2>1, <2>2
  <2> HIDE DEF seen, leak
  <2>5. QED
    BY <2>3, <2>4
<1>7. leak = {} => todays = seen
  BY <1>3
<1> HIDE DEF seen
<1>8. QED
  BY <1>1, <1>3, <1>4, <1>5, <1>6, <1>7 DEF seen

\* What a refresh from Redis shows beside what the query would.
LEMMA SameCard ==
  ASSUME StepInv, DateInv, today \in Nat, ~Behind,
         NEW s \in Symbol, hash[s] # NoHash
  PROVE  LET card == RedisCard(hash[s], today)
             sql  == SqlCard(s)
             leak == card.seen \ sql.seen
         IN /\ card.tradeTs = sql.tradeTs
            /\ sql.seen \subseteq card.seen
            /\ card.count = sql.count + Cardinality(leak)
            /\ \A t \in leak : DayOf[t] < today
            /\ Cardinality(leak) < MaxRows
            /\ leak = {} => card.openTs = sql.openTs
<1> DEFINE found == OfSymbol(rawTrades, s)
           todays == {t \in found : DayOf[t] >= today}
<1>1. found # {} /\ hash[s].tradeTs = Max(Times(found))
  BY SamePrice
<1>2. /\ SqlCard(s).tradeTs = hash[s].tradeTs
      /\ SqlCard(s).seen = todays
      /\ SqlCard(s).count = Cardinality(todays)
      /\ SqlCard(s).openTs = IF todays = {} THEN 0 ELSE Min(Times(todays))
  BY <1>1 DEF SqlCard
<1>3. RedisCard(hash[s], today).tradeTs = hash[s].tradeTs
  BY DEF RedisCard, NoCard
<1>4. CASE hash[s].day = today
  <2>1. /\ RedisCard(hash[s], today).seen = hash[s].seen
        /\ RedisCard(hash[s], today).count = hash[s].count
        /\ RedisCard(hash[s], today).openTs = hash[s].openTs
    BY <1>4 DEF RedisCard
  <2>2. LET leak == hash[s].seen \ todays
        IN /\ todays \subseteq hash[s].seen
           /\ hash[s].count = Cardinality(todays) + Cardinality(leak)
           /\ \A t \in leak : DayOf[t] < today
           /\ Cardinality(leak) < MaxRows
           /\ leak = {} => todays # {} /\ hash[s].openTs = Min(Times(todays))
    BY <1>4, SameStatsToday
  <2> HIDE DEF todays
  <2>3. QED
    BY <1>2, <1>3, <2>1, <2>2
<1>5. CASE hash[s].day # today
  <2>1. \A t \in found : DayOf[t] \in Nat /\ DayOf[t] <= hash[s].day
    BY TradeAssumption DEF StepInv, NewestInv, Newest, Behind, OfSymbol, IInv,
           TypeInv, TypeOK
  <2>2. hash[s].day \in Nat /\ hash[s].day < today
    <3>1. PICK t \in hash[s].seen : DayOf[t] = hash[s].day
      BY DEF StepInv, DayInv, OfItsDay
    <3>2. t \in arrived /\ t \in Trade
      BY DEF StepInv, IInv, CacheInv, GoodHash, FlowInv, BatchInv, TypeInv, TypeOK
    <3>3. QED
      BY <1>5, <3>1, <3>2, TradeAssumption DEF DateInv
  <2>3. todays = {}
    BY <2>1, <2>2
  <2>4. /\ RedisCard(hash[s], today).seen = {}
        /\ RedisCard(hash[s], today).count = 0
        /\ RedisCard(hash[s], today).openTs = 0
    BY <1>5 DEF RedisCard, NoCard
  <2>5. Cardinality({}) = 0 /\ 0 < MaxRows
    BY FS_EmptySet, BoundAssumption
  <2> HIDE DEF todays
  <2>6. QED
    BY <1>2, <1>3, <2>3, <2>4, <2>5
<1>6. QED
  BY <1>4, <1>5

----------------------------------------------------------------------------
(***************************************************************************)
(* The board over time.  A price on it is that of a stored trade or older, *)
(* and rows are never deleted, so the query cannot go back; nor can Redis  *)
(* while it shows the price that the query would.                          *)
(***************************************************************************)
PriceInv ==
  \A s \in Symbol :
    \/ board[s].tradeTs = 0
    \/ \E t \in OfSymbol(rawTrades, s) : board[s].tradeTs <= TsOf[t]

PageInv == BoardTypeOK /\ DateInv /\ PriceInv

\* The price of a hash is that of a row.
LEMMA RedisPrice ==
  ASSUME StepInv, NEW s \in Symbol, hash[s] # NoHash
  PROVE  \E t \in OfSymbol(rawTrades, s) :
           RedisCard(hash[s], today).tradeTs = TsOf[t]
<1>1. /\ hash[s].seen \subseteq OfSymbol(rawTrades, s)
      /\ hash[s].seen \subseteq Trade /\ hash[s].seen # {}
      /\ hash[s].tradeTs = Max(Times(hash[s].seen))
  BY DEF StepInv, IInv, TypeInv, TypeOK, CacheInv, GoodHash, OfSymbol, DayInv,
         OfItsDay, StatsInv, StatsFollow
<1>2. RedisCard(hash[s], today).tradeTs = hash[s].tradeTs
  BY DEF RedisCard, NoCard
<1>3. QED
  BY <1>1, <1>2, LatestOf

\* The price of the query is that of the latest row, if there is one.
LEMMA SqlPrice ==
  ASSUME StepInv, NEW s \in Symbol
  PROVE  IF OfSymbol(rawTrades, s) = {} THEN SqlCard(s).tradeTs = 0
         ELSE \E t \in OfSymbol(rawTrades, s) :
                /\ SqlCard(s).tradeTs = TsOf[t]
                /\ \A u \in OfSymbol(rawTrades, s) : TsOf[u] <= TsOf[t]
<1> DEFINE found == OfSymbol(rawTrades, s)
<1>1. CASE found = {}
  BY <1>1 DEF SqlCard, NoCard
<1>2. CASE found # {}
  <2>1. SqlCard(s).tradeTs = Max(Times(found))
    BY <1>2 DEF SqlCard
  <2>2. found \subseteq Trade
    BY DEF OfSymbol, StepInv, IInv, TypeInv, TypeOK
  <2> HIDE DEF found
  <2>3. \E t \in found : /\ Max(Times(found)) = TsOf[t]
                         /\ \A u \in found : TsOf[u] <= TsOf[t]
    BY <1>2, <2>2, LatestOf
  <2>4. QED
    BY <1>2, <2>1, <2>3 DEF found
<1>3. QED
  BY <1>1, <1>2

\* The query never shows less than the board did.
LEMMA SqlNotBehind ==
  ASSUME StepInv, PageInv, NEW s \in Symbol
  PROVE  ~(SqlCard(s).tradeTs < board[s].tradeTs)
<1>1. \A t \in OfSymbol(rawTrades, s) : TsOf[t] \in Nat
  BY TradeAssumption DEF OfSymbol, StepInv, IInv, TypeInv, TypeOK
<1>2. board[s].tradeTs \in Nat
  BY DEF PageInv, BoardTypeOK, Card
<1>3. /\ board[s].tradeTs = 0
         \/ \E t \in OfSymbol(rawTrades, s) : board[s].tradeTs <= TsOf[t]
      /\ IF OfSymbol(rawTrades, s) = {} THEN SqlCard(s).tradeTs = 0
         ELSE \E t \in OfSymbol(rawTrades, s) :
                /\ SqlCard(s).tradeTs = TsOf[t]
                /\ \A u \in OfSymbol(rawTrades, s) : TsOf[u] <= TsOf[t]
  BY SqlPrice DEF PageInv, PriceInv
<1>4. CASE OfSymbol(rawTrades, s) = {}
  BY <1>3, <1>4
<1>5. CASE OfSymbol(rawTrades, s) # {}
  <2>1. PICK t \in OfSymbol(rawTrades, s) :
           /\ SqlCard(s).tradeTs = TsOf[t]
           /\ \A u \in OfSymbol(rawTrades, s) : TsOf[u] <= TsOf[t]
    BY <1>3, <1>5
  <2>2. CASE board[s].tradeTs = 0
    BY <1>1, <2>1, <2>2
  <2>3. ASSUME NEW u \in OfSymbol(rawTrades, s), board[s].tradeTs <= TsOf[u]
        PROVE  ~(SqlCard(s).tradeTs < board[s].tradeTs)
    <3>1. TsOf[u] <= TsOf[t] /\ TsOf[u] \in Nat /\ TsOf[t] \in Nat
      BY <1>1, <2>1
    <3>2. QED
      BY <1>2, <2>1, <2>3, <3>1
  <2>4. QED
    BY <1>3, <2>2, <2>3
<1>6. QED
  BY <1>4, <1>5

\* Rows are never deleted.
LEMMA RowsGrow == ASSUME [Next]_vars PROVE rawTrades \subseteq rawTrades'
BY DEF Next, MainStep, SocketStep, StartSession, Drain, Load, LoadFails, Write,
       CommitBatch, WriteFails, WriteAmbiguous, Save, SaveFails, SaveTimesOut,
       AfterSave, CheckClosed, Finish, FinishFails, Crash, ProcessDies, PutTrade,
       RecordTrades, SocketError, SocketClose, RedisRestart, dbVars, vars

LEMMA PageInvStep ==
  ASSUME StepInv, PageInv, BoardTypeOK', [BoardNext]_boardVars
  PROVE  PageInv'
<1>0. /\ rawTrades \subseteq rawTrades'
      /\ \A s : OfSymbol(rawTrades, s) \subseteq OfSymbol(rawTrades', s)
  BY BoardStepIsStreamStep, RowsGrow DEF OfSymbol
<1>1. DateInv'
  <2>1. CASE StreamStep
    BY <2>1 DEF StreamStep, DateInv
  <2>2. CASE PageStep \/ UNCHANGED boardVars
    <3>1. arrived' = arrived /\ today' = today
      BY <2>2 DEF PageStep, ReadRedis, RedisMisses, ReadPostgres, boardVars, vars
    <3>2. QED
      BY <3>1 DEF PageInv, DateInv
  <2>3. CASE Midnight
    <3>1. arrived' = arrived /\ today' = today + 1 /\ today \in Nat
      BY <2>3 DEF Midnight, vars, PageInv, BoardTypeOK
    <3>2. \A t \in arrived : DayOf[t] \in Nat /\ DayOf[t] <= today
      BY TradeAssumption DEF StepInv, IInv, TypeInv, TypeOK, PageInv, DateInv
    <3>3. QED
      BY <3>1, <3>2 DEF DateInv
  <2>4. QED
    BY <2>1, <2>2, <2>3 DEF BoardNext
<1>2. PriceInv'
  <2>1. CASE board' = board
    BY <1>0, <2>1 DEF PageInv, PriceInv
  <2>2. CASE ReadRedis
    <3>1. \A s \in Symbol :
            /\ board'[s] = RedisCard(hash[s], today) /\ hash[s] # NoHash
            /\ rawTrades' = rawTrades
      BY <2>2 DEF ReadRedis, AllHashes, Show, vars, dbVars
    <3>2. ASSUME NEW s \in Symbol
          PROVE  \E t \in OfSymbol(rawTrades', s) : board'[s].tradeTs <= TsOf[t]
      <4>1. PICK t \in OfSymbol(rawTrades, s) : board'[s].tradeTs = TsOf[t]
        BY <3>1, RedisPrice
      <4>2. TsOf[t] \in Nat
        BY TradeAssumption DEF OfSymbol, StepInv, IInv, TypeInv, TypeOK
      <4>3. QED
        BY <1>0, <4>1, <4>2
    <3>3. QED
      BY <3>2 DEF PriceInv
  <2>3. CASE ReadPostgres
    <3>1. \A s \in Symbol : board'[s] = SqlCard(s)
      BY <2>3 DEF ReadPostgres, Show
    <3>2. ASSUME NEW s \in Symbol
          PROVE  \/ board'[s].tradeTs = 0
                 \/ \E t \in OfSymbol(rawTrades', s) :
                      board'[s].tradeTs <= TsOf[t]
      <4>1. CASE OfSymbol(rawTrades, s) = {}
        BY <3>1, <4>1, SqlPrice
      <4>2. CASE OfSymbol(rawTrades, s) # {}
        <5>1. PICK t \in OfSymbol(rawTrades, s) : board'[s].tradeTs = TsOf[t]
          BY <3>1, <4>2, SqlPrice
        <5>2. TsOf[t] \in Nat
          BY TradeAssumption DEF OfSymbol, StepInv, IInv, TypeInv, TypeOK
        <5>3. QED
          BY <1>0, <5>1, <5>2
      <4>3. QED
        BY <4>1, <4>2
    <3>3. QED
      BY <3>2 DEF PriceInv
  <2>4. QED
    BY <2>1, <2>2, <2>3 DEF BoardNext, StreamStep, PageStep, RedisMisses,
                            Midnight, pageVars, boardVars
<1>3. QED
  BY <1>1, <1>2 DEF PageInv

LEMMA PageInvariant ==
  ASSUME TrustIsKept, InOrder
  PROVE  BoardSpec => [](StepInv /\ PageInv)
<1>1. BoardInit => DateInv /\ PriceInv
  BY DEF BoardInit, Init, DateInv, PriceInv, NoCard
<1>2. StepInv /\ PageInv /\ BoardTypeOK' /\ [BoardNext]_boardVars => PageInv'
  BY PageInvStep
<1>3. QED
  BY <1>1, <1>2, BoardOnlyReads, StepInvariant, BoardTypeCorrect, PTL
     DEF BoardSpec, PageInv

\* With a feed in time order, and as long as trusted hashes are complete, the
\* board is the same whichever store answers, whenever the stream has left the
\* two in step: for every number of trades, every batch size and every
\* sequence of failures before.  A batch over midnight makes the one
\* difference, and a bounded one.
THEOREM StoresAgree ==
  ASSUME TrustIsKept, InOrder
  PROVE  BoardSpec => SameBoard
<1>1. ASSUME StepInv, PageInv, ReadRedis, ~Behind, NEW s \in Symbol
      PROVE  LET card == board'[s]
                 sql  == SqlCard(s)
                 leak == card.seen \ sql.seen
             IN /\ card.tradeTs = sql.tradeTs
                /\ sql.seen \subseteq card.seen
                /\ card.count = sql.count + Cardinality(leak)
                /\ \A t \in leak : DayOf[t] < today
                /\ Cardinality(leak) < MaxRows
                /\ leak = {} => card.openTs = sql.openTs
  <2>1. board'[s] = RedisCard(hash[s], today) /\ hash[s] # NoHash
    BY <1>1 DEF ReadRedis, AllHashes, Show
  <2>2. today \in Nat /\ DateInv
    BY <1>1 DEF PageInv, BoardTypeOK
  <2>3. QED
    BY <1>1, <2>1, <2>2, SameCard
<1>2. StepInv /\ PageInv /\ [BoardNext]_boardVars =>
        [ReadRedis /\ ~Behind =>
           \A s \in Symbol :
             LET card == board'[s]
                 sql  == SqlCard(s)
                 leak == card.seen \ sql.seen
             IN /\ card.tradeTs = sql.tradeTs
                /\ sql.seen \subseteq card.seen
                /\ card.count = sql.count + Cardinality(leak)
                /\ \A t \in leak : DayOf[t] < today
                /\ Cardinality(leak) < MaxRows
                /\ leak = {} => card.openTs = sql.openTs]_boardVars
  BY <1>1
<1>3. QED
  BY <1>2, PageInvariant, PTL DEF BoardSpec, SameBoard

\* Under the same conditions a price on the screen goes back only when Redis
\* answers while the stream has a write to catch up on, however the answers of
\* the two stores alternate.
THEOREM PriceHolds ==
  ASSUME TrustIsKept, InOrder
  PROVE  BoardSpec => PriceGoesBackOnlyBehind
<1>1. ASSUME StepInv, PageInv, [BoardNext]_boardVars, NEW s \in Symbol,
             board'[s].tradeTs < board[s].tradeTs
      PROVE  ReadRedis /\ Behind
  <2>1. board[s].tradeTs \in Nat
    BY <1>1 DEF PageInv, BoardTypeOK, Card
  <2>2. CASE board' = board
    BY <1>1, <2>1, <2>2
  <2>3. CASE ReadPostgres
    <3>1. board'[s] = SqlCard(s)
      BY <2>3 DEF ReadPostgres, Show
    <3>2. QED
      BY <1>1, <3>1, SqlNotBehind
  <2>4. CASE ReadRedis /\ ~Behind
    <3>1. board'[s] = RedisCard(hash[s], today) /\ hash[s] # NoHash
      BY <2>4 DEF ReadRedis, AllHashes, Show
    <3>2. RedisCard(hash[s], today).tradeTs = SqlCard(s).tradeTs
      BY <1>1, <2>4, <3>1, SameCard DEF PageInv, BoardTypeOK
    <3>3. QED
      BY <1>1, <3>1, <3>2, SqlNotBehind
  <2>5. QED
    BY <1>1, <2>2, <2>3, <2>4 DEF BoardNext, StreamStep, PageStep, RedisMisses,
                                  Midnight, pageVars, boardVars
<1>2. StepInv /\ PageInv /\ [BoardNext]_boardVars =>
        [\A s \in Symbol :
           board'[s].tradeTs < board[s].tradeTs =>
             ReadRedis /\ Behind]_boardVars
  BY <1>1
<1>3. QED
  BY <1>2, PageInvariant, PTL DEF BoardSpec, PriceGoesBackOnlyBehind

=============================================================================

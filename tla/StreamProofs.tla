---------------------------- MODULE StreamProofs ----------------------------
(***************************************************************************)
(* Theorems about Stream, for every set of trades and symbols, every batch *)
(* size and every combination of failures.                                 *)
(***************************************************************************)
EXTENDS Stream, FiniteSetTheorems, SequenceTheorems, WellFoundedInduction, TLAPS,
        SumProofs

----------------------------------------------------------------------------
(***************************************************************************)
(* Lemmas about the operators of the model.                                *)
(***************************************************************************)
\* A non-empty set of naturals has a least element, and Min returns it.
LEMMA MinOfNats ==
  ASSUME NEW S, S \subseteq Nat, S # {}
  PROVE  Min(S) \in S /\ \A y \in S : Min(S) <= y
<1>1. \E x \in S : \A y \in S : ~(<<y, x>> \in OpToRel(<, Nat))
  BY WFMin, NatLessThanWellFounded
<1>2. PICK x \in S : \A y \in S : ~(<<y, x>> \in OpToRel(<, Nat))
  BY <1>1
<1>3. ASSUME NEW y \in S PROVE x <= y
  <2>1. ~(y < x)
    BY <1>2 DEF OpToRel
  <2>2. QED
    BY <2>1
<1>4. QED
  BY <1>3 DEF Min

\* A non-empty set of naturals with an upper bound has a greatest element,
\* and Max returns it.
LEMMA MaxOfNats ==
  ASSUME NEW S, S \subseteq Nat, S # {},
         NEW b \in Nat, \A y \in S : y <= b
  PROVE  Max(S) \in S /\ \A y \in S : y <= Max(S)
<1> DEFINE T == {b - y : y \in S}
<1>1. T \subseteq Nat /\ T # {}
  <2>1. ASSUME NEW y \in S PROVE b - y \in Nat
    <3>1. y \in Nat /\ y <= b
      OBVIOUS
    <3>2. QED
      BY <3>1
  <2>2. QED
    BY <2>1
<1>2. Min(T) \in T /\ \A z \in T : Min(T) <= z
  BY <1>1, MinOfNats
<1>3. PICK x \in S : Min(T) = b - x
  BY <1>2
<1>4. ASSUME NEW y \in S PROVE x >= y
  <2>1. b - x <= b - y
    BY <1>2, <1>3
  <2>2. QED
    BY <2>1
<1>5. QED
  BY <1>4 DEF Max

\* Timestamps of a non-empty set of trades have a least and a greatest one.
LEMMA TimesBounds ==
  ASSUME NEW B, B \subseteq Trade, B # {}
  PROVE  /\ Min(Times(B)) \in Nat
         /\ Max(Times(B)) \in Nat
         /\ \E t \in B : \A u \in B : TsOf[u] <= TsOf[t]
<1>1. Times(B) \subseteq Nat /\ Times(B) # {} /\ MaxTs \in Nat
      /\ \A y \in Times(B) : y <= MaxTs
  BY TradeAssumption DEF Times
<1>2. Min(Times(B)) \in Times(B)
  BY <1>1, MinOfNats
<1>3. Max(Times(B)) \in Times(B) /\ \A y \in Times(B) : y <= Max(Times(B))
  BY <1>1, MaxOfNats
<1>4. \E t \in B : \A u \in B : TsOf[u] <= TsOf[t]
  BY <1>3 DEF Times
<1>5. QED
  BY <1>1, <1>2, <1>3, <1>4

\* The day of a batch is the day of one of its trades, and no trade of the
\* batch is of a later day.
LEMMA BatchDayIsADay ==
  ASSUME NEW B, B \subseteq Trade, B # {}
  PROVE  /\ BatchDay(B) \in {DayOf[t] : t \in B}
         /\ BatchDay(B) \in Nat \ {0}
         /\ \A t \in B : DayOf[t] <= BatchDay(B)
<1> DEFINE S == {DayOf[t] : t \in B}
<1>1. PICK t \in B : \A u \in B : TsOf[u] <= TsOf[t]
  BY TimesBounds
<1>2. S \subseteq Nat \ {0} /\ S # {} /\ DayOf[t] \in Nat
  BY TradeAssumption
<1>3. \A y \in S : y <= DayOf[t]
  BY <1>1, TradeAssumption
<1>4. Max(S) \in S /\ \A y \in S : y <= Max(S)
  BY <1>2, <1>3, MaxOfNats
<1>5. QED
  BY <1>2, <1>4 DEF BatchDay

\* drain takes at most what is there.
LEMMA TakeBounds ==
  ASSUME queue \in Seq(Trade)
  PROVE  Take \in 0..Len(queue)
<1>1. Len(queue) \in Nat /\ MaxRows \in Nat
  BY BoundAssumption
<1>2. Min({MaxRows, Len(queue)}) \in {MaxRows, Len(queue)}
      /\ \A y \in {MaxRows, Len(queue)} : Min({MaxRows, Len(queue)}) <= y
  BY <1>1, MinOfNats
<1>3. QED
  BY <1>1, <1>2 DEF Take

\* What drain leaves behind is a queue of the trades after the taken ones.
LEMMA LeaveRestProperties ==
  ASSUME queue \in Seq(Trade)
  PROVE  /\ LeaveRest \in Seq(Trade)
         /\ Len(LeaveRest) = Len(queue) - Take
         /\ \A i \in 1..Len(LeaveRest) : LeaveRest[i] = queue[Take + i]
<1>1. Take \in 0..Len(queue) /\ Len(queue) \in Nat
  BY TakeBounds
<1>2. \A i \in (Take + 1)..Len(queue) : queue[i] \in Trade
  BY <1>1
<1>3. QED
  BY <1>1, <1>2, SubSeqProperties DEF LeaveRest

\* The set of the first n elements of a sequence is finite.
LEMMA PrefixFinite ==
  ASSUME NEW q, NEW n \in Nat, NEW S, S = {q[i] : i \in 1..n}
  PROVE  IsFiniteSet(S)
<1> DEFINE f == [i \in 1..n |-> q[i]]
<1>1. f \in Surjection(1..n, S)
  BY DEF Surjection
<1>2. IsFiniteSet(1..n)
  BY FS_Interval
<1>3. QED
  BY <1>1, <1>2, FS_Surjection

----------------------------------------------------------------------------
(***************************************************************************)
(* Type correctness.  TypeOK alone is not inductive: trades_received grows *)
(* by seen - reported, and the counts need finite batches.                 *)
(***************************************************************************)
TypeInv ==
  /\ TypeOK
  /\ reported <= tradesSeen
  /\ IsFiniteSet(rawTrades)
  /\ IsFiniteSet(batch)

\* A seed read from raw_trades is a well-formed hash.
LEMMA SeedType ==
  ASSUME TypeInv, NEW s, NEW d \in Nat
  PROVE  Seed(s, d) \in HashType
<1> DEFINE rows == SeedRows(s, d)
<1>1. rows \subseteq Trade /\ IsFiniteSet(rows)
  BY FS_Subset DEF SeedRows, TypeInv, TypeOK
<1>2. Cardinality(rows) \in Nat
  BY <1>1, FS_CardinalityType
<1>3. rows # {} => Min(Times(rows)) \in Nat
  BY <1>1, TimesBounds
<1>4. QED
  BY <1>1, <1>2, <1>3 DEF Seed, NoHash, HashType

\* Merging a non-empty batch into a well-formed hash gives a well-formed one.
LEMMA MergeType ==
  ASSUME NEW old \in HashType, NEW B, B \subseteq Trade, B # {}, IsFiniteSet(B)
  PROVE  Merge(old, B) \in HashType
<1>1. Cardinality(B) \in Nat
  BY FS_CardinalityType
<1>2. Min(Times(B)) \in Nat /\ Max(Times(B)) \in Nat /\ BatchDay(B) \in Nat
  BY TimesBounds, BatchDayIsADay
<1>3. old.seen \cup B \subseteq Trade /\ old.count + Cardinality(B) \in Nat
      /\ OpenAfter(old, B) \in Nat
  BY <1>1, <1>2 DEF HashType, OpenAfter
<1>4. QED
  BY <1>2, <1>3 DEF Merge, HashType

\* The trades of a symbol in the batch: some for each symbol of the batch.
LEMMA OfSymbolProperties ==
  ASSUME NEW B, B \subseteq Trade, IsFiniteSet(B), NEW s \in SymbolsIn(B)
  PROVE  /\ OfSymbol(B, s) \subseteq B
         /\ OfSymbol(B, s) # {}
         /\ IsFiniteSet(OfSymbol(B, s))
<1>1. OfSymbol(B, s) \subseteq B /\ OfSymbol(B, s) # {}
  BY DEF OfSymbol, SymbolsIn
<1>2. QED
  BY <1>1, FS_Subset

LEMMA WriteHashesType ==
  ASSUME TypeInv, WriteHashes
  PROVE  hash' \in [Symbol -> HashType]
<1>1. ASSUME NEW s \in Symbol, s \in SymbolsIn(batch)
      PROVE  Merge(stored[s], OfSymbol(batch, s)) \in HashType
  <2>1. /\ OfSymbol(batch, s) \subseteq Trade
        /\ OfSymbol(batch, s) # {}
        /\ IsFiniteSet(OfSymbol(batch, s))
    BY <1>1, OfSymbolProperties DEF TypeInv, TypeOK
  <2>2. stored[s] \in HashType
    BY <1>1 DEF TypeInv, TypeOK
  <2>3. QED
    BY <2>1, <2>2, MergeType
<1>2. QED
  BY <1>1 DEF WriteHashes, TypeInv, TypeOK

LEMMA NoHashType == NoHash \in HashType
  BY DEF NoHash, HashType

LEMMA DiscardType ==
  ASSUME Discard
  PROVE  /\ batch' = {} /\ IsFiniteSet(batch')
         /\ stored' \in [Symbol -> HashType]
         /\ loaded' \in BOOLEAN
  BY NoHashType, FS_EmptySet DEF Discard

LEMMA MemoryGoneType ==
  ASSUME MemoryGone
  PROVE  /\ batch' = {} /\ IsFiniteSet(batch')
         /\ stored' \in [Symbol -> HashType]
         /\ loaded' \in BOOLEAN
         /\ needsReseed' \in BOOLEAN
         /\ reported' = 0 /\ tradesSeen' = 0 /\ unrecorded' = 0
         /\ queue' = <<>> /\ queue' \in Seq(Trade)
         /\ sock' \in {"up", "down"}
         /\ closed' \in BOOLEAN /\ error' \in BOOLEAN
         /\ pc' = "connect"
  BY DiscardType, EmptySeq DEF MemoryGone, ReseedAtStart

\* The rows of the batch and its heartbeat are well formed.
LEMMA CommitType ==
  ASSUME TypeInv, CommitBatch
  PROVE  /\ rawTrades' \subseteq Trade /\ IsFiniteSet(rawTrades')
         /\ session' \in [Sessions ->
              [status : {"none", "live", "closed", "failed"},
               received : Nat, written : Nat]]
         /\ sid' \in 0..MaxSessions
<1>1. IsFiniteSet(rawTrades')
  BY FS_Union DEF CommitBatch, TypeInv
<1>2. Cardinality(batch) \in Nat
  BY FS_CardinalityType DEF TypeInv
<1>3. tradesSeen - reported \in Nat
  BY DEF TypeInv, TypeOK
<1>4. session' \in [Sessions ->
              [status : {"none", "live", "closed", "failed"},
               received : Nat, written : Nat]]
  <2>1. ASSUME NEW i \in Sessions
        PROVE  session'[i] \in [status : {"none", "live", "closed", "failed"},
                                received : Nat, written : Nat]
    <3>1. CASE i = sid
      <4>1. session'[i] = [session[i] EXCEPT
               !.received = @ + (tradesSeen - reported),
               !.written = @ + Cardinality(batch)]
        BY <3>1 DEF CommitBatch, RowsInserted, TypeInv, TypeOK
      <4>2. QED
        <5>1. session[i] \in [status : {"none", "live", "closed", "failed"},
                               received : Nat, written : Nat]
          BY DEF TypeInv, TypeOK
        <5>2. session[i].received + (tradesSeen - reported) \in Nat
              /\ session[i].written + Cardinality(batch) \in Nat
          BY <5>1, <1>2, <1>3
        <5>3. QED
          BY <4>1, <5>1, <5>2
    <3>2. CASE i # sid
      BY <3>2 DEF CommitBatch, TypeInv, TypeOK
    <3>3. QED
      BY <3>1, <3>2
  <2>2. QED
    BY <2>1 DEF CommitBatch, TypeInv, TypeOK
<1>5. QED
  BY <1>1, <1>4 DEF CommitBatch, TypeInv, TypeOK

\* Every variable keeps its type, and no counter runs behind.
LEMMA TypeInvStep == TypeInv /\ [Next]_vars => TypeInv'
<1> SUFFICES ASSUME TypeInv, [Next]_vars PROVE TypeInv'
  OBVIOUS
<1> USE DEF TypeInv, TypeOK, dbVars, flushVars, eventVars
<1>1. CASE StartSession
  <2>1. session' \in [Sessions ->
              [status : {"none", "live", "closed", "failed"},
               received : Nat, written : Nat]]
    BY <1>1 DEF StartSession, Sessions
  <2>2. sid' \in 0..MaxSessions
    BY <1>1, BoundAssumption DEF StartSession
  <2>3. queue' \in Seq(Trade)
    BY <1>1, EmptySeq DEF StartSession
  <2>4. batch' \subseteq Trade /\ IsFiniteSet(batch')
        /\ stored' \in [Symbol -> HashType] /\ loaded' \in BOOLEAN
    BY <1>1, DiscardType DEF StartSession
  <2>5. /\ rawTrades' = rawTrades /\ hash' = hash /\ arrived' = arrived
        /\ pc' = "drain" /\ sock' = "up"
        /\ needsReseed' = TRUE /\ closed' = FALSE /\ error' = FALSE
        /\ reported' = 0 /\ tradesSeen' = 0 /\ unrecorded' = 0
    BY <1>1 DEF StartSession, ReseedAtStart
  <2>6. /\ rawTrades' \subseteq Trade /\ IsFiniteSet(rawTrades')
        /\ hash' \in [Symbol -> HashType]
        /\ arrived' \subseteq Trade
    BY <2>5
  <2>7. /\ pc' \in {"connect", "drain", "load", "write", "save", "closed",
                   "finish"}
        /\ sock' \in {"up", "down"}
        /\ needsReseed' \in BOOLEAN /\ closed' \in BOOLEAN
        /\ error' \in BOOLEAN
    BY <2>5
  <2>8. /\ reported' \in Nat /\ tradesSeen' \in Nat /\ unrecorded' \in Nat
        /\ reported' <= tradesSeen'
    BY <2>5
  <2>9. QED
    BY <2>1, <2>2, <2>3, <2>4, <2>6, <2>7, <2>8
<1>2. CASE Drain
  <2>1. Take \in 0..Len(queue) /\ Len(queue) \in Nat
    BY TakeBounds
  <2>2. LeaveRest \in Seq(Trade)
    BY LeaveRestProperties
  <2>3. batch' \subseteq Trade
    BY <1>2, <2>1 DEF Drain
  <2>4. IsFiniteSet(batch')
    <3>1. Take \in Nat /\ batch' = {queue[i] : i \in 1..Take}
      BY <1>2, <2>1 DEF Drain
    <3>2. QED
      BY <3>1, PrefixFinite
  <2>5. QED
    BY <1>2, <2>2, <2>3, <2>4 DEF Drain
<1>3. CASE Load
  <2>1. ASSUME NEW s \in Symbol PROVE stored'[s] \in HashType
    <3>1. CASE s \notin SymbolsIn(batch)
      BY <1>3, <3>1, NoHashType DEF Load
    <3>2. CASE s \in SymbolsIn(batch)
      <4>1. BatchDay(batch) \in Nat
        BY <3>2, BatchDayIsADay DEF SymbolsIn
      <4>2. Seed(s, BatchDay(batch)) \in HashType
        BY <4>1, SeedType
      <4>3. Read(s) \in HashType
        BY NoHashType DEF Read
      <4>4. QED
        BY <1>3, <3>2, <4>2, <4>3 DEF Load
    <3>3. QED
      BY <3>1, <3>2
  <2>2. stored' \in [Symbol -> HashType]
    BY <1>3, <2>1 DEF Load
  <2>3. QED
    BY <1>3, <2>2 DEF Load
<1>4. CASE LoadFails
  BY <1>4, NoHashType DEF LoadFails
<1>5. CASE Write
  <2>1. /\ batch' \subseteq Trade /\ IsFiniteSet(batch')
        /\ stored' \in [Symbol -> HashType]
        /\ loaded' \in BOOLEAN
    BY <1>5, DiscardType DEF Write
  <2>2. QED
    BY <1>5, <2>1, CommitType DEF Write, Reported
<1>6. CASE WriteFails
  BY <1>6, DiscardType DEF WriteFails
<1>7. CASE WriteAmbiguous
  BY <1>7, DiscardType, CommitType DEF WriteAmbiguous
<1>8. CASE Save
  BY <1>8, DiscardType, WriteHashesType DEF Save, AfterSave
<1>9. CASE SaveFails
  BY <1>9, DiscardType DEF SaveFails, AfterSave
<1>10. CASE SaveTimesOut
  BY <1>10, DiscardType, WriteHashesType DEF SaveTimesOut, AfterSave
<1>11. CASE CheckClosed
  BY <1>11 DEF CheckClosed
<1>12. CASE Finish
  <2>1. session' \in [Sessions ->
              [status : {"none", "live", "closed", "failed"},
               received : Nat, written : Nat]]
    BY <1>12 DEF Finish, VerdictRow
  <2>2. QED
    BY <1>12, <2>1, MemoryGoneType DEF Finish
<1>13. CASE FinishFails \/ Crash
  BY <1>13, MemoryGoneType DEF FinishFails, Crash, ProcessDies
<1>14. ASSUME NEW t \in Trade, PutTrade(t) PROVE TypeInv'
  <2>1. queue' \in Seq(Trade)
    BY <1>14, AppendProperties DEF PutTrade
  <2>2. QED
    BY <1>14, <2>1 DEF PutTrade
<1>15. CASE RecordTrades
  BY <1>15 DEF RecordTrades
<1>16. CASE SocketError
  BY <1>16 DEF SocketError
<1>17. CASE SocketClose
  BY <1>17 DEF SocketClose
<1>18. CASE RedisRestart
  BY <1>18, NoHashType DEF RedisRestart
<1>19. CASE UNCHANGED vars
  BY <1>19 DEF vars
<1>20. QED
  BY <1>1, <1>2, <1>3, <1>4, <1>5, <1>6, <1>7, <1>8, <1>9, <1>10, <1>11,
     <1>12, <1>13, <1>14, <1>15, <1>16, <1>17, <1>18, <1>19
     DEF Next, MainStep, SocketStep

LEMMA TypeInvInit == Init => TypeInv
<1> SUFFICES ASSUME Init PROVE TypeInv
  OBVIOUS
<1>1. IsFiniteSet({})
  BY FS_EmptySet
<1>2. session \in [Sessions ->
              [status : {"none", "live", "closed", "failed"},
               received : Nat, written : Nat]]
  BY DEF Init, NoRow
<1>3. queue \in Seq(Trade)
  BY EmptySeq DEF Init
<1>4. /\ rawTrades \subseteq Trade /\ IsFiniteSet(rawTrades)
      /\ batch \subseteq Trade /\ IsFiniteSet(batch)
      /\ arrived \subseteq Trade
  BY <1>1 DEF Init
<1>5. /\ sid \in 0..MaxSessions
      /\ hash \in [Symbol -> HashType] /\ stored \in [Symbol -> HashType]
  BY NoHashType, BoundAssumption DEF Init
<1>6. /\ pc \in {"connect", "drain", "load", "write", "save", "closed",
                "finish"}
      /\ sock \in {"up", "down"}
      /\ loaded \in BOOLEAN /\ needsReseed \in BOOLEAN
      /\ closed \in BOOLEAN /\ error \in BOOLEAN
  BY DEF Init
<1>7. /\ reported \in Nat /\ tradesSeen \in Nat /\ unrecorded \in Nat
      /\ reported <= tradesSeen
  BY DEF Init
<1>8. QED
  BY <1>2, <1>3, <1>4, <1>5, <1>6, <1>7 DEF TypeInv, TypeOK

LEMMA TypeInvariant == Spec => []TypeInv
  BY TypeInvInit, TypeInvStep, PTL DEF Spec

\* Type correctness of the service's state: in particular trades_received of
\* a session row never decreases (heartbeat adds seen - reported).
THEOREM TypeCorrect == Spec => []TypeOK
<1>1. TypeInv => TypeOK
  BY DEF TypeInv
<1>2. QED
  BY <1>1, TypeInvariant, PTL

----------------------------------------------------------------------------
(***************************************************************************)
(* The way of a trade: queue, batch, raw_trades, one after the other and   *)
(* never two at a time.                                                    *)
(***************************************************************************)
QueueInv ==
  /\ \A i \in 1..Len(queue) : queue[i] \in arrived
                              /\ queue[i] \notin rawTrades
                              /\ queue[i] \notin batch
  /\ \A i, j \in 1..Len(queue) : queue[i] = queue[j] => i = j

BatchInv ==
  /\ rawTrades \subseteq arrived
  /\ batch \subseteq arrived
  /\ pc \in {"load", "write"} => batch \cap rawTrades = {}
  /\ pc = "save" => batch \subseteq rawTrades
  /\ pc \notin {"load", "write", "save"} => batch = {}

\* Between two sessions nothing is queued and no socket is up.
IdleInv == pc = "connect" => sock = "down" /\ Len(queue) = 0

FlowInv == QueueInv /\ BatchInv /\ IdleInv

LEMMA EmptyQueueInv ==
  ASSUME queue' = <<>>
  PROVE  QueueInv'
<1>1. Len(queue') = 0
  BY EmptySeq
<1>2. QED
  BY <1>1 DEF QueueInv

LEMMA FlowInvStep == TypeInv /\ FlowInv /\ [Next]_vars => FlowInv'
<1> SUFFICES ASSUME TypeInv, FlowInv, [Next]_vars PROVE FlowInv'
  OBVIOUS
<1> USE DEF FlowInv, IdleInv, dbVars, flushVars, eventVars
<1>1. CASE StartSession
  <2>1. QueueInv'
    BY <1>1, EmptyQueueInv DEF StartSession
  <2>2. BatchInv'
    <3>1. batch' = {} /\ pc' = "drain" /\ rawTrades' = rawTrades
          /\ arrived' = arrived
      BY <1>1 DEF StartSession, Discard
    <3>2. QED
      BY <3>1 DEF BatchInv
  <2>3. IdleInv'
    BY <1>1 DEF StartSession
  <2>4. QED
    BY <2>1, <2>2, <2>3
<1>2. CASE Drain
  <2>1. Take \in 0..Len(queue) /\ Len(queue) \in Nat
    BY TakeBounds DEF TypeInv, TypeOK
  <2>2. /\ queue' \in Seq(Trade)
        /\ Len(queue') = Len(queue) - Take
        /\ \A i \in 1..Len(queue') : queue'[i] = queue[Take + i]
    BY <1>2, LeaveRestProperties DEF Drain, TypeInv, TypeOK
  <2>3. /\ batch' = {queue[i] : i \in 1..Take} /\ pc' = "load"
        /\ rawTrades' = rawTrades /\ arrived' = arrived
    BY <1>2 DEF Drain
  <2>4. \A i \in 1..Len(queue') : Take + i \in 1..Len(queue)
    BY <2>1, <2>2
  <2>5. \A i \in 1..Len(queue') : queue'[i] \notin batch'
    <3>1. SUFFICES ASSUME NEW i \in 1..Len(queue'), NEW j \in 1..Take,
                          queue[Take + i] = queue[j]
                   PROVE  FALSE
      BY <2>2, <2>3
    <3>2. Take + i = j
      BY <2>1, <2>4, <3>1 DEF QueueInv
    <3>3. QED
      BY <2>1, <2>2, <3>2
  <2>6. \A i \in 1..Len(queue') : queue'[i] \in arrived'
                                   /\ queue'[i] \notin rawTrades'
    BY <2>2, <2>3, <2>4 DEF QueueInv
  <2>7. \A i, j \in 1..Len(queue') : queue'[i] = queue'[j] => i = j
    <3>1. SUFFICES ASSUME NEW i \in 1..Len(queue'), NEW j \in 1..Len(queue'),
                          queue'[i] = queue'[j]
                   PROVE  i = j
      OBVIOUS
    <3>2. Take + i = Take + j
      BY <2>2, <2>4, <3>1 DEF QueueInv
    <3>3. QED
      BY <2>1, <3>2
  <2>8. BatchInv'
    <3>1. \A i \in 1..Take : queue[i] \in arrived /\ queue[i] \notin rawTrades
      BY <2>1 DEF QueueInv
    <3>2. QED
      BY <2>3, <3>1 DEF BatchInv
  <2>9. IdleInv'
    BY <2>3
  <2>10. QED
    BY <2>5, <2>6, <2>7, <2>8, <2>9 DEF QueueInv
<1>3. CASE Load \/ LoadFails
  <2>1. /\ queue' = queue /\ batch' = batch /\ rawTrades' = rawTrades
        /\ arrived' = arrived /\ pc = "load" /\ pc' = "write"
    BY <1>3 DEF Load, LoadFails
  <2>2. QED
    BY <2>1 DEF QueueInv, BatchInv
<1>4. CASE Write \/ WriteAmbiguous
  <2>1. /\ queue' = queue /\ arrived' = arrived /\ pc = "write"
        /\ rawTrades' = rawTrades \cup batch
        /\ \/ pc' = "save" /\ batch' = batch
           \/ pc' = "closed" /\ batch' = {}
    BY <1>4 DEF Write, WriteAmbiguous, CommitBatch, Discard
  <2>2. QED
    BY <2>1 DEF QueueInv, BatchInv
<1>5. CASE WriteFails \/ Save \/ SaveFails \/ SaveTimesOut
  <2>1. /\ queue' = queue /\ arrived' = arrived /\ rawTrades' = rawTrades
        /\ batch' = {} /\ pc' = "closed"
    BY <1>5 DEF WriteFails, Save, SaveFails, SaveTimesOut, AfterSave, Discard
  <2>2. QED
    BY <2>1 DEF QueueInv, BatchInv
<1>6. CASE CheckClosed
  <2>1. /\ queue' = queue /\ arrived' = arrived /\ rawTrades' = rawTrades
        /\ batch' = batch /\ pc = "closed" /\ pc' \in {"drain", "finish"}
    BY <1>6 DEF CheckClosed
  <2>2. QED
    BY <2>1 DEF QueueInv, BatchInv
<1>7. CASE Finish \/ FinishFails \/ Crash
  <2>1. /\ queue' = <<>> /\ batch' = {} /\ pc' = "connect"
        /\ sock' = "down"
        /\ rawTrades' = rawTrades /\ arrived' = arrived
    BY <1>7 DEF Finish, FinishFails, Crash, ProcessDies, MemoryGone, Discard
  <2>2. BatchInv'
    BY <2>1 DEF BatchInv
  <2>3. QueueInv' /\ Len(queue') = 0
    BY <2>1, EmptyQueueInv, EmptySeq
  <2>4. IdleInv'
    BY <2>1, <2>3
  <2>5. QED
    BY <2>2, <2>3, <2>4
<1>8. ASSUME NEW t \in Trade, PutTrade(t) PROVE FlowInv'
  <2>1. /\ batch' = batch /\ pc' = pc /\ rawTrades' = rawTrades
        /\ sock = "up"
        /\ arrived' = arrived \cup {t} /\ t \notin arrived
        /\ queue' = Append(queue, t)
    BY <1>8 DEF PutTrade
  <2>2. /\ Len(queue') = Len(queue) + 1 /\ Len(queue) \in Nat
        /\ \A i \in 1..Len(queue) : queue'[i] = queue[i]
        /\ queue'[Len(queue) + 1] = t
    BY <2>1, AppendProperties DEF TypeInv, TypeOK
  <2>3. t \notin rawTrades /\ t \notin batch
    BY <2>1 DEF BatchInv
  <2>4. QueueInv'
    BY <2>1, <2>2, <2>3 DEF QueueInv
  <2>5. BatchInv'
    BY <2>1 DEF BatchInv
  <2>6. IdleInv'
    BY <2>1
  <2>7. QED
    BY <2>4, <2>5, <2>6
<1>9. CASE RecordTrades \/ SocketError \/ SocketClose \/ RedisRestart
           \/ UNCHANGED vars
  <2>1. /\ queue' = queue /\ batch' = batch /\ rawTrades' = rawTrades
        /\ arrived' = arrived /\ pc' = pc
        /\ sock' = sock \/ sock' = "down"
    BY <1>9 DEF RecordTrades, SocketError, SocketClose, RedisRestart, vars
  <2>2. QED
    BY <2>1 DEF QueueInv, BatchInv
<1>10. QED
  BY <1>1, <1>2, <1>3, <1>4, <1>5, <1>6, <1>7, <1>8, <1>9
     DEF Next, MainStep, SocketStep

LEMMA FlowInvInit == Init => FlowInv
<1> SUFFICES ASSUME Init PROVE FlowInv
  OBVIOUS
<1>1. Len(queue) = 0
  BY EmptySeq DEF Init
<1>2. QueueInv
  BY <1>1 DEF QueueInv
<1>3. BatchInv
  BY DEF Init, BatchInv
<1>4. IdleInv
  BY <1>1 DEF Init, IdleInv
<1>5. QED
  BY <1>2, <1>3, <1>4 DEF FlowInv

LEMMA FlowInvariant == Spec => [](TypeInv /\ FlowInv)
<1>1. TypeInv /\ FlowInv /\ [Next]_vars => (TypeInv /\ FlowInv)'
  BY TypeInvStep, FlowInvStep
<1>2. QED
  BY <1>1, TypeInvInit, FlowInvInit, PTL DEF Spec

----------------------------------------------------------------------------
(***************************************************************************)
(* No silent loss.                                                         *)
(***************************************************************************)
\* What drain takes off the queue is in the batch, the rest is still queued.
LEMMA DrainKeepsAll ==
  ASSUME TypeInv, Drain
  PROVE  Queued \subseteq Queued' \cup batch'
<1>1. Take \in 0..Len(queue) /\ Len(queue) \in Nat
  BY TakeBounds DEF TypeInv, TypeOK
<1>2. /\ Len(queue') = Len(queue) - Take
      /\ \A i \in 1..Len(queue') : queue'[i] = queue[Take + i]
  BY LeaveRestProperties DEF Drain, TypeInv, TypeOK
<1>3. ASSUME NEW i \in 1..Len(queue) PROVE queue[i] \in Queued' \cup batch'
  <2>1. CASE i <= Take
    <3>1. i \in 1..Take
      BY <1>1, <2>1
    <3>2. QED
      BY <3>1 DEF Drain
  <2>2. CASE i > Take
    <3>1. i - Take \in 1..Len(queue') /\ Take + (i - Take) = i
      BY <1>1, <1>2, <2>2
    <3>2. queue'[i - Take] = queue[i]
      BY <1>2, <3>1
    <3>3. QED
      BY <3>1, <3>2 DEF Queued
  <2>3. QED
    BY <1>1, <2>1, <2>2
<1>4. QED
  BY <1>3 DEF Queued

LEMMA LossStep ==
  ASSUME TypeInv, FlowInv, Next
  PROVE  \/ Lost' \subseteq Lost
         \/ WriteFails /\ Lost' \subseteq Lost \cup batch
         \/ Finish \/ FinishFails \/ Crash
<1> USE DEF dbVars, flushVars, eventVars
<1>1. CASE StartSession
  <2>1. Queued = {} /\ InFlight = {}
    BY <1>1 DEF StartSession, FlowInv, IdleInv, Queued, InFlight
  <2>2. rawTrades' = rawTrades /\ arrived' = arrived
    BY <1>1 DEF StartSession
  <2>3. QED
    BY <2>1, <2>2 DEF Lost
<1>2. CASE Drain
  <2>1. Queued \subseteq Queued' \cup batch'
    BY <1>2, DrainKeepsAll
  <2>2. /\ rawTrades' = rawTrades /\ arrived' = arrived
        /\ InFlight = {} /\ InFlight' = batch'
    BY <1>2 DEF Drain, InFlight
  <2>3. QED
    BY <2>1, <2>2 DEF Lost
<1>3. CASE Load \/ LoadFails \/ Save \/ SaveFails \/ SaveTimesOut \/ CheckClosed
           \/ RecordTrades \/ SocketError \/ SocketClose \/ RedisRestart
  <2>1. /\ queue' = queue /\ rawTrades' = rawTrades /\ arrived' = arrived
        /\ InFlight' = InFlight
    BY <1>3 DEF Load, LoadFails, Save, SaveFails, SaveTimesOut, AfterSave,
                CheckClosed, RecordTrades, SocketError, SocketClose,
                RedisRestart, InFlight
  <2>2. QED
    BY <2>1 DEF Lost, Queued
<1>4. CASE Write \/ WriteAmbiguous
  <2>1. /\ queue' = queue /\ arrived' = arrived
        /\ rawTrades' = rawTrades \cup batch /\ InFlight = batch
    BY <1>4 DEF Write, WriteAmbiguous, CommitBatch, InFlight
  <2>2. QED
    BY <2>1 DEF Lost, Queued
<1>5. ASSUME NEW t \in Trade, PutTrade(t) PROVE Lost' \subseteq Lost
  <2>1. /\ rawTrades' = rawTrades /\ arrived' = arrived \cup {t}
        /\ InFlight' = InFlight /\ queue' = Append(queue, t)
    BY <1>5 DEF PutTrade, InFlight
  <2>2. /\ Len(queue') = Len(queue) + 1 /\ Len(queue) \in Nat
        /\ \A i \in 1..Len(queue) : queue'[i] = queue[i]
        /\ queue'[Len(queue) + 1] = t
    BY <2>1, AppendProperties DEF TypeInv, TypeOK
  <2>3. Queued \subseteq Queued' /\ t \in Queued'
    BY <2>2 DEF Queued
  <2>4. QED
    BY <2>1, <2>3 DEF Lost
<1>6. CASE WriteFails
  <2>1. /\ queue' = queue /\ rawTrades' = rawTrades /\ arrived' = arrived
        /\ InFlight = batch
    BY <1>6 DEF WriteFails, InFlight
  <2>2. Lost' \subseteq Lost \cup batch
    BY <2>1 DEF Lost, Queued
  <2>3. QED
    BY <1>6, <2>2
<1>7. QED
  BY <1>1, <1>2, <1>3, <1>4, <1>5, <1>6 DEF Next, MainStep, SocketStep

\* For every interleaving of the two threads and every failure: a trade that
\* was put on a queue leaves it only for the batch, and the batch only for
\* raw_trades, unless the insert of that batch fails, the session ends or the
\* process dies.
THEOREM NoSilentLoss == Spec => LossIsAccounted
<1>1. TypeInv /\ FlowInv /\ [Next]_vars =>
        [\/ Lost' \subseteq Lost
         \/ WriteFails /\ Lost' \subseteq Lost \cup batch
         \/ Finish \/ FinishFails \/ Crash]_vars
  BY LossStep
<1>2. QED
  BY <1>1, FlowInvariant, PTL DEF Spec, LossIsAccounted

----------------------------------------------------------------------------
(***************************************************************************)
(* Session rows.                                                           *)
(***************************************************************************)
\* Rows are created one after the other, and a running loop writes to the
\* newest of them, which is still live.
SessionInv ==
  /\ \A i \in Sessions : i > sid => session[i].status = "none"
  /\ pc # "connect" => sid \in Sessions /\ session[sid].status = "live"

LEMMA SessionInvStep == TypeInv /\ SessionInv /\ [Next]_vars => SessionInv'
<1> SUFFICES ASSUME TypeInv, SessionInv, [Next]_vars PROVE SessionInv'
  OBVIOUS
<1> USE DEF SessionInv, dbVars, flushVars, eventVars
<1>0. sid \in 0..MaxSessions /\ MaxSessions \in Nat
      /\ session \in [Sessions ->
           [status : {"none", "live", "closed", "failed"},
            received : Nat, written : Nat]]
  BY BoundAssumption DEF TypeInv, TypeOK
<1>1. CASE StartSession
  <2>1. /\ sid' = sid + 1 /\ sid + 1 \in Sessions
        /\ session' = [session EXCEPT ![sid + 1] =
              [status |-> "live", received |-> 0, written |-> 0]]
    BY <1>0, <1>1 DEF StartSession, Sessions
  <2>2. \A i \in Sessions : i > sid + 1 => session'[i].status = "none"
    BY <1>0, <2>1 DEF Sessions
  <2>3. session'[sid'].status = "live"
    BY <1>0, <2>1
  <2>4. QED
    BY <2>1, <2>2, <2>3
<1>2. CASE Write \/ WriteAmbiguous
  <2>1. /\ sid' = sid /\ pc = "write"
        /\ session' = [session EXCEPT
              ![sid].received = @ + (tradesSeen - reported),
              ![sid].written  = @ + RowsInserted]
    BY <1>2 DEF Write, WriteAmbiguous, CommitBatch
  <2>2. \A i \in Sessions : session'[i].status = session[i].status
    BY <1>0, <2>1
  <2>3. QED
    BY <2>1, <2>2
<1>3. CASE Finish
  <2>1. /\ sid' = sid /\ pc' = "connect"
        /\ session' = [session EXCEPT
             ![sid].status = IF error THEN "failed" ELSE "closed"]
    BY <1>3 DEF Finish, VerdictRow, MemoryGone
  <2>2. \A i \in Sessions : i > sid => session'[i] = session[i]
    BY <1>0, <2>1 DEF Sessions
  <2>3. QED
    BY <2>1, <2>2
<1>4. CASE FinishFails \/ Crash
  BY <1>4 DEF FinishFails, Crash, ProcessDies, MemoryGone
<1>5. CASE Drain \/ Load \/ LoadFails \/ WriteFails \/ Save \/ SaveFails
           \/ SaveTimesOut \/ CheckClosed
  <2>1. sid' = sid /\ session' = session /\ pc # "connect"
    BY <1>5 DEF Drain, Load, LoadFails, WriteFails, Save, SaveFails,
                SaveTimesOut, AfterSave, CheckClosed
  <2>2. QED
    BY <2>1
<1>6. CASE SocketStep \/ RedisRestart \/ UNCHANGED vars
  <2>1. sid' = sid /\ session' = session /\ pc' = pc
    BY <1>6 DEF SocketStep, PutTrade, RecordTrades, SocketError, SocketClose,
                RedisRestart, vars
  <2>2. QED
    BY <2>1
<1>7. QED
  BY <1>1, <1>2, <1>3, <1>4, <1>5, <1>6 DEF Next, MainStep

LEMMA SessionInvariant == Spec => [](TypeInv /\ SessionInv)
<1>1. Init => SessionInv
  BY DEF Init, SessionInv, NoRow
<1>2. TypeInv /\ SessionInv /\ [Next]_vars => (TypeInv /\ SessionInv)'
  BY TypeInvStep, SessionInvStep
<1>3. QED
  BY <1>1, <1>2, TypeInvInit, PTL DEF Spec

LEMMA VerdictStep ==
  ASSUME TypeInv, SessionInv, Next,
         NEW i \in Sessions,
         session[i].status \in {"closed", "failed"} \/ i < sid
  PROVE  session'[i] = session[i]
<1> USE DEF SessionInv, dbVars, flushVars, eventVars
<1>0. sid \in 0..MaxSessions /\ MaxSessions \in Nat
      /\ session \in [Sessions ->
           [status : {"none", "live", "closed", "failed"},
            received : Nat, written : Nat]]
  BY BoundAssumption DEF TypeInv, TypeOK
<1>1. CASE StartSession
  <2>1. i # sid + 1
    BY <1>0 DEF Sessions
  <2>2. QED
    BY <1>0, <1>1, <2>1 DEF StartSession
<1>2. CASE Write \/ WriteAmbiguous
  <2>1. i # sid
    BY <1>2 DEF Write, WriteAmbiguous
  <2>2. QED
    BY <1>0, <1>2, <2>1 DEF Write, WriteAmbiguous, CommitBatch
<1>3. CASE Finish
  <2>1. i # sid
    BY <1>3 DEF Finish
  <2>2. QED
    BY <1>0, <1>3, <2>1 DEF Finish, VerdictRow
<1>4. CASE Drain \/ Load \/ LoadFails \/ WriteFails \/ Save \/ SaveFails
           \/ SaveTimesOut \/ CheckClosed \/ FinishFails \/ Crash
           \/ SocketStep \/ RedisRestart
  BY <1>4 DEF Drain, Load, LoadFails, WriteFails, Save, SaveFails,
              SaveTimesOut, AfterSave, CheckClosed, FinishFails, Crash,
              ProcessDies, SocketStep, PutTrade, RecordTrades, SocketError,
              SocketClose, RedisRestart
<1>5. QED
  BY <1>1, <1>2, <1>3, <1>4 DEF Next, MainStep

\* A closed or failed session row, and one that a dead process left live, is
\* never written again, whatever the next loop, a crash or a late heartbeat
\* does.
THEOREM VerdictHolds == Spec => VerdictIsFinal
<1>1. TypeInv /\ SessionInv /\ [Next]_vars =>
        [\A i \in Sessions :
           session[i].status \in {"closed", "failed"} \/ i < sid =>
             session'[i] = session[i]]_vars
  BY VerdictStep
<1>2. QED
  BY <1>1, SessionInvariant, PTL DEF Spec, VerdictIsFinal

----------------------------------------------------------------------------
(***************************************************************************)
(* The price hashes.  The loaded hashes must be known to leave the batch   *)
(* out (or a merge would count it twice), and either to extend what Redis  *)
(* holds or to be seeded with all that Postgres held before the batch.     *)
(***************************************************************************)
GoodHash(h, s) ==
  /\ h.seen \subseteq rawTrades
  /\ \A t \in h.seen : SymbolOf[t] = s
  /\ IsFiniteSet(h.seen)
  /\ h.count = Cardinality(h.seen)

\* stored[s] holds every earlier row of the batch's day.
Seeded(s) ==
  \A t \in rawTrades \ batch :
    SymbolOf[t] = s /\ DayOf[t] = BatchDay(batch) => t \in stored[s].seen

CacheInv ==
  /\ \A s \in Symbol : GoodHash(hash[s], s) /\ GoodHash(stored[s], s)
  /\ pc = "save" =>
       /\ batch # {} /\ loaded
       /\ \A s \in Symbol : stored[s].seen \cap batch = {}
  /\ pc \in {"write", "save"} /\ loaded =>
       \A s \in SymbolsIn(batch) :
         \/ ~needsReseed /\ hash[s].seen \subseteq stored[s].seen
         \/ Seeded(s)

LEMMA NoHashGood == \A s : GoodHash(NoHash, s)
  BY FS_EmptySet DEF GoodHash, NoHash

LEMMA SeedGood ==
  ASSUME TypeInv, NEW s, NEW d
  PROVE  /\ GoodHash(Seed(s, d), s)
         /\ Seed(s, d).seen = SeedRows(s, d)
<1> DEFINE rows == SeedRows(s, d)
<1>1. rows \subseteq rawTrades /\ IsFiniteSet(rows)
      /\ \A t \in rows : SymbolOf[t] = s
  BY FS_Subset DEF SeedRows, TypeInv
<1>2. CASE rows = {}
  BY <1>2, NoHashGood DEF Seed, NoHash
<1>3. CASE rows # {}
  <2>1. Seed(s, d).seen = rows /\ Seed(s, d).count = Cardinality(rows)
    BY <1>3 DEF Seed
  <2>2. QED
    BY <1>1, <2>1 DEF GoodHash
<1>4. QED
  BY <1>2, <1>3

\* A merge of trades the old hash does not hold counts each of them once.
LEMMA MergeGood ==
  ASSUME NEW old \in HashType, NEW s, GoodHash(old, s),
         NEW B, B \subseteq rawTrades, IsFiniteSet(B),
         \A t \in B : SymbolOf[t] = s,
         old.seen \cap B = {}
  PROVE  /\ GoodHash(Merge(old, B), s)
         /\ Merge(old, B).seen = old.seen \cup B
<1>1. /\ Merge(old, B).seen = old.seen \cup B
      /\ Merge(old, B).count = old.count + Cardinality(B)
  BY DEF Merge
<1>2. /\ IsFiniteSet(old.seen \cup B)
      /\ Cardinality(old.seen \cup B)
           = Cardinality(old.seen) + Cardinality(B) - Cardinality({})
  BY FS_Union DEF GoodHash
<1>3. Cardinality({}) = 0 /\ Cardinality(B) \in Nat
      /\ Cardinality(old.seen) \in Nat
  BY FS_EmptySet, FS_CardinalityType DEF GoodHash
<1>4. old.count + Cardinality(B) = Cardinality(old.seen \cup B)
  BY <1>2, <1>3 DEF GoodHash
<1>5. QED
  BY <1>1, <1>2, <1>4 DEF GoodHash

\* What a successful write puts in Redis.
LEMMA WriteHashesGood ==
  ASSUME TypeInv, FlowInv, CacheInv, pc = "save", WriteHashes, NEW s \in Symbol
  PROVE  /\ GoodHash(hash'[s], s)
         /\ s \in SymbolsIn(batch) =>
              hash'[s].seen = stored[s].seen \cup OfSymbol(batch, s)
         /\ s \notin SymbolsIn(batch) => hash'[s] = hash[s]
<1>1. CASE s \in SymbolsIn(batch)
  <2>1. /\ OfSymbol(batch, s) \subseteq batch
        /\ IsFiniteSet(OfSymbol(batch, s))
        /\ \A t \in OfSymbol(batch, s) : SymbolOf[t] = s
    BY <1>1, OfSymbolProperties DEF TypeInv, TypeOK, OfSymbol
  <2>2. /\ stored[s] \in HashType
        /\ GoodHash(stored[s], s)
        /\ stored[s].seen \cap OfSymbol(batch, s) = {}
        /\ OfSymbol(batch, s) \subseteq rawTrades
    BY <2>1 DEF TypeInv, TypeOK, CacheInv, FlowInv, BatchInv
  <2>3. hash'[s] = Merge(stored[s], OfSymbol(batch, s))
    BY <1>1 DEF WriteHashes
  <2>4. QED
    BY <1>1, <2>1, <2>2, <2>3, MergeGood
<1>2. CASE s \notin SymbolsIn(batch)
  BY <1>2 DEF WriteHashes, CacheInv
<1>3. QED
  BY <1>1, <1>2

\* Forgetting the batch leaves nothing to say of stored.
LEMMA DiscardGood ==
  ASSUME Discard, NEW s \in Symbol
  PROVE  GoodHash(stored[s], s)'
<1>1. stored'[s] = NoHash
  BY DEF Discard
<1>2. QED
  BY <1>1, FS_EmptySet DEF GoodHash, NoHash

LEMMA CacheInvStep == TypeInv /\ FlowInv /\ CacheInv /\ [Next]_vars => CacheInv'
<1> SUFFICES ASSUME TypeInv, FlowInv, CacheInv, [Next]_vars PROVE CacheInv'
  OBVIOUS
<1> USE DEF dbVars, flushVars, eventVars
<1>1. CASE StartSession \/ WriteFails \/ Finish \/ FinishFails \/ Crash \/ SaveFails
           \/ (Write /\ pc' = "closed") \/ WriteAmbiguous
  <2>1. /\ hash' = hash /\ rawTrades \subseteq rawTrades' /\ Discard
        /\ pc' \notin {"write", "save"}
    BY <1>1 DEF StartSession, WriteFails, Finish, FinishFails, Crash,
                SaveFails, AfterSave, ProcessDies, MemoryGone, Write,
                WriteAmbiguous, CommitBatch
  <2>2. ASSUME NEW s \in Symbol PROVE GoodHash(hash[s], s)'
    BY <2>1 DEF CacheInv, GoodHash
  <2>3. QED
    BY <2>1, <2>2, DiscardGood DEF CacheInv
<1>2. CASE Save \/ SaveTimesOut
  <2>1. /\ pc = "save" /\ WriteHashes /\ Discard
        /\ rawTrades' = rawTrades /\ pc' = "closed"
    BY <1>2 DEF Save, SaveTimesOut, AfterSave
  <2>2. ASSUME NEW s \in Symbol PROVE GoodHash(hash[s], s)'
    <3>1. GoodHash(hash'[s], s)
      BY <2>1, WriteHashesGood
    <3>2. QED
      BY <2>1, <3>1 DEF GoodHash
  <2>3. QED
    BY <2>1, <2>2, DiscardGood DEF CacheInv
<1>3. CASE Drain \/ CheckClosed
  <2>1. /\ hash' = hash /\ stored' = stored /\ rawTrades' = rawTrades
        /\ pc' \notin {"write", "save"}
    BY <1>3 DEF Drain, CheckClosed
  <2>2. QED
    BY <2>1 DEF CacheInv, GoodHash
<1>4. CASE Load
  <2>1. /\ hash' = hash /\ rawTrades' = rawTrades /\ batch' = batch
        /\ needsReseed' = needsReseed /\ pc = "load" /\ pc' = "write"
        /\ stored' = [s \in Symbol |->
                        IF s \notin SymbolsIn(batch) THEN NoHash
                        ELSE IF Stale(s) THEN Seed(s, BatchDay(batch))
                        ELSE Read(s)]
    BY <1>4 DEF Load
  <2>2. ASSUME NEW s \in Symbol PROVE GoodHash(stored'[s], s)
    <3>1. GoodHash(Read(s), s)
      BY NoHashGood DEF Read, CacheInv
    <3>2. QED
      BY <2>1, <3>1, NoHashGood, SeedGood
  <2>3. ASSUME NEW s \in SymbolsIn(batch)
        PROVE  \/ ~needsReseed /\ hash[s].seen \subseteq stored'[s].seen
               \/ \A t \in rawTrades \ batch :
                    SymbolOf[t] = s /\ DayOf[t] = BatchDay(batch) =>
                      t \in stored'[s].seen
    <3>1. s \in Symbol
      BY <2>3, TradeAssumption DEF SymbolsIn, TypeInv, TypeOK
    <3>2. CASE Stale(s)
      <4>1. stored'[s].seen = SeedRows(s, BatchDay(batch))
        BY <2>1, <2>3, <3>1, <3>2, SeedGood
      <4>2. QED
        BY <4>1 DEF SeedRows
    <3>3. CASE ~Stale(s)
      <4>1. stored'[s] = Read(s) /\ Read(s).day = BatchDay(batch)
        BY <2>1, <2>3, <3>1, <3>3 DEF Stale
      <4>2. BatchDay(batch) # 0
        BY <2>3, BatchDayIsADay DEF SymbolsIn, TypeInv, TypeOK
      <4>3. ~needsReseed /\ Read(s) = hash[s]
        BY <4>1, <4>2 DEF Read, NoHash
      <4>4. QED
        BY <4>1, <4>3
    <3>4. QED
      BY <3>2, <3>3
  <2>4. ASSUME NEW s \in Symbol
        PROVE  GoodHash(hash[s], s)' /\ GoodHash(stored[s], s)'
    BY <2>1, <2>2 DEF CacheInv, GoodHash
  <2>5. QED
    BY <2>1, <2>3, <2>4 DEF CacheInv, Seeded
<1>5. CASE LoadFails
  <2>1. /\ hash' = hash /\ rawTrades' = rawTrades /\ pc' = "write"
        /\ loaded' = FALSE
        /\ stored' = [s \in Symbol |-> NoHash]
    BY <1>5 DEF LoadFails
  <2>2. ASSUME NEW s \in Symbol
        PROVE  GoodHash(hash[s], s)' /\ GoodHash(stored[s], s)'
    BY <2>1, NoHashGood DEF CacheInv, GoodHash
  <2>3. QED
    BY <2>1, <2>2 DEF CacheInv
<1>6. CASE Write /\ pc' # "closed"
  <2>1. /\ hash' = hash /\ stored' = stored /\ batch' = batch
        /\ loaded' = loaded /\ needsReseed' = needsReseed
        /\ rawTrades' = rawTrades \cup batch
        /\ pc = "write" /\ pc' = "save" /\ batch # {} /\ loaded
    BY <1>6 DEF Write, CommitBatch, TypeInv, TypeOK
  <2>2. ASSUME NEW s \in Symbol
        PROVE  GoodHash(hash[s], s)' /\ GoodHash(stored[s], s)'
    BY <2>1 DEF CacheInv, GoodHash
  <2>3. ASSUME NEW s \in Symbol PROVE stored'[s].seen \cap batch' = {}
    <3>1. stored[s].seen \subseteq rawTrades /\ batch \cap rawTrades = {}
      BY <2>1 DEF CacheInv, GoodHash, FlowInv, BatchInv
    <3>2. QED
      BY <2>1, <3>1
  <2>4. rawTrades' \ batch' = rawTrades \ batch
    BY <2>1
  <2>5. \A s \in SymbolsIn(batch) : Seeded(s) => Seeded(s)'
    BY <2>1, <2>4 DEF Seeded
  <2>6. QED
    BY <2>1, <2>2, <2>3, <2>5 DEF CacheInv
<1>7. CASE RedisRestart
  <2>1. /\ hash' = [s \in Symbol |-> NoHash]
        /\ stored' = stored /\ rawTrades' = rawTrades /\ batch' = batch
        /\ loaded' = loaded /\ needsReseed' = needsReseed /\ pc' = pc
    BY <1>7 DEF RedisRestart
  <2>2. ASSUME NEW s \in Symbol
        PROVE  /\ GoodHash(hash[s], s)' /\ GoodHash(stored[s], s)'
               /\ hash'[s].seen = {}
    <3>1. hash'[s] = NoHash
      BY <2>1
    <3>2. QED
      BY <2>1, <3>1, FS_EmptySet DEF CacheInv, GoodHash, NoHash
  <2>3. SymbolsIn(batch) \subseteq Symbol
    BY TradeAssumption DEF SymbolsIn, TypeInv, TypeOK
  <2>4. \A s \in SymbolsIn(batch) : Seeded(s) => Seeded(s)'
    BY <2>1 DEF Seeded
  <2>5. QED
    BY <2>1, <2>2, <2>3, <2>4 DEF CacheInv
<1>8. CASE SocketStep \/ UNCHANGED vars
  <2>1. /\ hash' = hash /\ stored' = stored /\ rawTrades' = rawTrades
        /\ batch' = batch /\ loaded' = loaded /\ needsReseed' = needsReseed
        /\ pc' = pc
    BY <1>8 DEF SocketStep, PutTrade, RecordTrades, SocketError, SocketClose,
                vars
  <2>2. QED
    BY <2>1 DEF CacheInv, GoodHash, Seeded
<1>9. QED
  BY <1>1, <1>2, <1>3, <1>4, <1>5, <1>6, <1>7, <1>8 DEF Next, MainStep

LEMMA CacheInvInit == Init => CacheInv
<1> SUFFICES ASSUME Init PROVE CacheInv
  OBVIOUS
<1>1. \A s \in Symbol : hash[s] = NoHash /\ stored[s] = NoHash
  BY DEF Init
<1>2. pc = "connect"
  BY DEF Init
<1>3. QED
  BY <1>1, <1>2, NoHashGood DEF CacheInv

IInv == TypeInv /\ FlowInv /\ CacheInv

LEMMA IInvariant == Spec => []IInv
<1>1. Init => IInv
  BY TypeInvInit, FlowInvInit, CacheInvInit DEF IInv
<1>2. IInv /\ [Next]_vars => IInv'
  BY TypeInvStep, FlowInvStep, CacheInvStep DEF IInv
<1>3. QED
  BY <1>1, <1>2, PTL DEF Spec

\* Redis never shows a trade that Postgres does not have, for any
\* interleaving and any of the failures, half-known commits and writes
\* included.
THEOREM CacheBehindLedger == Spec => []CacheNeverAhead
<1>1. IInv => CacheNeverAhead
  BY DEF IInv, CacheInv, GoodHash, CacheNeverAhead
<1>2. QED
  BY <1>1, IInvariant, PTL

\* trades_today is the number of different trades it was counted over.
THEOREM EachTradeCountedOnce == Spec => []NoDoubleCount
<1>1. IInv => NoDoubleCount
  BY DEF IInv, CacheInv, GoodHash, NoDoubleCount
<1>2. QED
  BY <1>1, IInvariant, PTL

----------------------------------------------------------------------------
(***************************************************************************)
(* Reseeding, and the abstract ledger and cache.                           *)
(***************************************************************************)
\* The rows of a day in Postgres, once the batch is in, are in the hash that
\* a seeded merge writes.
LEMMA SeededMergeIsComplete ==
  ASSUME IInv, pc = "save", WriteHashes,
         NEW s \in SymbolsIn(batch), Seeded(s)
  PROVE  SeedRows(s, BatchDay(batch)) \subseteq hash'[s].seen
<1>1. s \in Symbol
  BY TradeAssumption DEF SymbolsIn, IInv, TypeInv, TypeOK
<1>2. hash'[s].seen = stored[s].seen \cup OfSymbol(batch, s)
  BY <1>1, WriteHashesGood DEF IInv
<1>3. QED
  BY <1>2 DEF SeedRows, Seeded, OfSymbol

\* Under the flag nothing is taken from Redis: what was loaded for the batch
\* is of the batch's day.
SeedOnlyInv ==
  pc \in {"write", "save"} /\ loaded /\ needsReseed =>
    \A s \in SymbolsIn(batch), t \in Trade :
      t \in stored[s].seen => DayOf[t] = BatchDay(batch)

LEMMA LoadsSeedOnly ==
  ASSUME TypeInv, Load, needsReseed, NEW s \in SymbolsIn(batch)
  PROVE  stored'[s].seen = SeedRows(s, BatchDay(batch))
<1>1. s \in Symbol
  BY TradeAssumption DEF SymbolsIn, TypeInv, TypeOK
<1>2. BatchDay(batch) # 0
  BY BatchDayIsADay DEF SymbolsIn, TypeInv, TypeOK
<1>3. Stale(s)
  BY <1>2 DEF Stale, Read, NoHash
<1>4. stored'[s] = Seed(s, BatchDay(batch))
  BY <1>1, <1>3 DEF Load
<1>5. QED
  BY <1>4, SeedGood

LEMMA SeedOnlyStep == IInv /\ SeedOnlyInv /\ [Next]_vars => SeedOnlyInv'
<1> SUFFICES ASSUME IInv, SeedOnlyInv, [Next]_vars PROVE SeedOnlyInv'
  OBVIOUS
<1> USE DEF dbVars, flushVars, eventVars
<1>1. CASE StartSession \/ Drain \/ WriteFails \/ WriteAmbiguous \/ CheckClosed
           \/ Save \/ SaveFails \/ SaveTimesOut \/ Finish \/ FinishFails \/ Crash
  <2>1. pc' \notin {"write", "save"}
    BY <1>1 DEF StartSession, Drain, WriteFails, WriteAmbiguous, CheckClosed,
                Save, SaveFails, SaveTimesOut, AfterSave, Finish, FinishFails,
                Crash, ProcessDies, MemoryGone
  <2>2. QED
    BY <2>1 DEF SeedOnlyInv
<1>2. CASE Load
  <2>1. batch' = batch /\ needsReseed' = needsReseed
    BY <1>2 DEF Load
  <2>2. ASSUME needsReseed, NEW s \in SymbolsIn(batch), NEW t \in stored'[s].seen
        PROVE  DayOf[t] = BatchDay(batch)
    <3>1. t \in SeedRows(s, BatchDay(batch))
      BY <1>2, <2>2, LoadsSeedOnly DEF IInv
    <3>2. QED
      BY <3>1 DEF SeedRows
  <2>3. QED
    BY <2>1, <2>2 DEF SeedOnlyInv
<1>3. CASE LoadFails
  BY <1>3 DEF LoadFails, SeedOnlyInv
<1>4. CASE Write
  <2>1. CASE batch # {} /\ loaded
    <3>1. /\ batch' = batch /\ stored' = stored /\ loaded' = loaded
          /\ pc = "write" /\ needsReseed' = needsReseed
      BY <1>4, <2>1 DEF Write, IInv, TypeInv, TypeOK
    <3>2. QED
      BY <3>1 DEF SeedOnlyInv
  <2>2. CASE ~(batch # {} /\ loaded)
    <3>1. pc' = "closed"
      BY <1>4, <2>2 DEF Write
    <3>2. QED
      BY <3>1 DEF SeedOnlyInv
  <2>3. QED
    BY <2>1, <2>2
<1>5. CASE SocketStep \/ RedisRestart \/ UNCHANGED vars
  <2>1. /\ pc' = pc /\ stored' = stored /\ batch' = batch /\ loaded' = loaded
        /\ needsReseed' = needsReseed
    BY <1>5 DEF SocketStep, PutTrade, RecordTrades, SocketError, SocketClose,
                RedisRestart, vars
  <2>2. QED
    BY <2>1 DEF SeedOnlyInv
<1>6. QED
  BY <1>1, <1>2, <1>3, <1>4, <1>5 DEF Next, MainStep

LEMMA SeedOnlyInvariant == Spec => [](IInv /\ SeedOnlyInv)
<1>1. Init => SeedOnlyInv
  BY DEF Init, SeedOnlyInv
<1>2. IInv /\ SeedOnlyInv /\ [Next]_vars => SeedOnlyInv'
  BY SeedOnlyStep
<1>3. QED
  BY <1>1, <1>2, IInvariant, PTL DEF Spec

\* After a lost, failed or doubtful Redis write the next batch's symbols have
\* exactly the rows of the batch's day and the batch, for every batch and
\* every state Redis may have been left in.  Of a symbol whose trades of the
\* batch are all of an earlier day that is less than its own day.
THEOREM ReseedIsComplete == Spec => ReseedRebuildsBatch
<1>1. ASSUME IInv, SeedOnlyInv, Save, needsReseed, NEW s \in SymbolsIn(batch)
      PROVE  hash'[s].seen = SeedRows(s, BatchDay(batch)) \cup OfSymbol(batch, s)
  <2>1. s \in Symbol
    BY <1>1, TradeAssumption DEF SymbolsIn, IInv, TypeInv, TypeOK
  <2>2. pc = "save" /\ loaded /\ Seeded(s) /\ GoodHash(stored[s], s)
    BY <1>1, <2>1 DEF IInv, CacheInv, Save
  <2>3. hash'[s].seen = stored[s].seen \cup OfSymbol(batch, s)
    BY <1>1, <2>1, WriteHashesGood DEF IInv, Save
  <2>4. stored[s].seen \subseteq SeedRows(s, BatchDay(batch))
    <3>1. ASSUME NEW t \in stored[s].seen
          PROVE  t \in rawTrades /\ SymbolOf[t] = s /\ DayOf[t] = BatchDay(batch)
      <4>1. t \in rawTrades /\ SymbolOf[t] = s
        BY <2>2 DEF GoodHash
      <4>2. t \in Trade
        BY <1>1, <4>1 DEF IInv, TypeInv, TypeOK
      <4>3. QED
        BY <1>1, <2>2, <4>1, <4>2 DEF SeedOnlyInv
    <3>2. QED
      BY <3>1 DEF SeedRows
  <2>5. SeedRows(s, BatchDay(batch)) \subseteq stored[s].seen \cup OfSymbol(batch, s)
    BY <2>2 DEF SeedRows, Seeded, OfSymbol
  <2>6. QED
    BY <2>3, <2>4, <2>5
<1>2. IInv /\ SeedOnlyInv /\ [Next]_vars =>
        [Save /\ needsReseed =>
           \A s \in SymbolsIn(batch) :
             hash'[s].seen =
               SeedRows(s, BatchDay(batch)) \cup OfSymbol(batch, s)]_vars
  BY <1>1
<1>3. QED
  BY <1>2, SeedOnlyInvariant, PTL DEF Spec, ReseedRebuildsBatch

\* Cached trades, the refinement mapping's view of Redis.
Cached == [s \in Symbol |-> hash[s].seen]

\* A successful or half-known Redis write is a publication.
LEMMA SavePublishes ==
  ASSUME IInv, pc = "save", WriteHashes, rawTrades' = rawTrades
  PROVE  Ledger!Publish
<1>1. ASSUME NEW s \in Symbol
      PROVE  /\ hash'[s].seen \subseteq rawTrades
             /\ \A t \in hash'[s].seen : SymbolOf[t] = s
  BY WriteHashesGood DEF IInv, GoodHash
<1>2. ASSUME NEW s \in Symbol
      PROVE  \/ hash[s].seen \subseteq hash'[s].seen
             \/ \E d \in {DayOf[t] : t \in rawTrades} :
                  SeedRows(s, d) \subseteq hash'[s].seen
  <2>1. CASE s \notin SymbolsIn(batch)
    BY <2>1, WriteHashesGood DEF IInv
  <2>2. CASE s \in SymbolsIn(batch) /\ Seeded(s)
    <3>1. SeedRows(s, BatchDay(batch)) \subseteq hash'[s].seen
      BY <2>2, SeededMergeIsComplete
    <3>2. BatchDay(batch) \in {DayOf[t] : t \in batch}
      BY BatchDayIsADay DEF IInv, TypeInv, TypeOK, CacheInv
    <3>3. batch \subseteq rawTrades
      BY DEF IInv, FlowInv, BatchInv
    <3>4. QED
      BY <3>1, <3>2, <3>3
  <2>3. CASE s \in SymbolsIn(batch) /\ ~Seeded(s)
    <3>1. hash[s].seen \subseteq stored[s].seen
      BY <2>3 DEF IInv, CacheInv
    <3>2. QED
      BY <2>3, <3>1, WriteHashesGood DEF IInv
  <2>4. QED
    BY <2>1, <2>2, <2>3
<1>3. \A s, d : Ledger!DayOfLedger(s, d) = SeedRows(s, d)
  BY DEF Ledger!DayOfLedger, SeedRows
<1>4. ASSUME NEW s \in Symbol
      PROVE  Cached[s] = hash[s].seen /\ Cached'[s] = hash'[s].seen
  BY DEF Cached
<1>5. Cached' \in [Symbol -> SUBSET rawTrades]
  BY <1>1 DEF Cached
<1>6. ASSUME NEW s \in Symbol
      PROVE  Cached'[s] \subseteq Ledger!OwnTrades(s) /\ Ledger!Refreshed(s)
  BY <1>1, <1>2, <1>3, <1>4 DEF Ledger!OwnTrades, Ledger!Refreshed, Cached
<1>7. QED
  BY <1>5, <1>6 DEF Ledger!Publish, Cached

LEMMA LedgerStep ==
  ASSUME IInv, [Next]_vars
  PROVE  [Ledger!LedgerNext]_(Ledger!ledgerVars)
<1> USE DEF dbVars, flushVars, eventVars
<1>1. CASE Write \/ WriteAmbiguous
  <2>1. hash' = hash /\ rawTrades' = rawTrades \cup batch /\ batch \subseteq Trade
        /\ rawTrades \subseteq Trade
    BY <1>1 DEF Write, WriteAmbiguous, CommitBatch, IInv, TypeInv, TypeOK
  <2>2. Ledger!Store
    BY <2>1 DEF Ledger!Store
  <2>3. QED
    BY <2>2 DEF Ledger!LedgerNext
<1>2. CASE Save \/ SaveTimesOut
  <2>1. pc = "save" /\ WriteHashes /\ rawTrades' = rawTrades
    BY <1>2 DEF Save, SaveTimesOut, AfterSave
  <2>2. QED
    BY <2>1, SavePublishes DEF Ledger!LedgerNext
<1>3. CASE RedisRestart
  <2>1. hash' = [s \in Symbol |-> NoHash] /\ rawTrades' = rawTrades
    BY <1>3 DEF RedisRestart
  <2>2. [s \in Symbol |-> hash'[s].seen] = [s \in Symbol |-> {}]
    BY <2>1 DEF NoHash
  <2>3. Ledger!Evict
    BY <2>1, <2>2 DEF Ledger!Evict, Ledger!Empty
  <2>4. QED
    BY <2>3 DEF Ledger!LedgerNext
<1>4. CASE StartSession \/ Drain \/ Load \/ LoadFails \/ WriteFails \/ SaveFails
           \/ CheckClosed \/ Finish \/ FinishFails \/ Crash \/ SocketStep
           \/ UNCHANGED vars
  <2>1. hash' = hash /\ rawTrades' = rawTrades
    BY <1>4 DEF StartSession, Drain, Load, LoadFails, WriteFails, SaveFails,
                AfterSave, CheckClosed, Finish, FinishFails, Crash, ProcessDies,
                SocketStep, PutTrade, RecordTrades, SocketError, SocketClose,
                vars
  <2>2. QED
    BY <2>1 DEF Ledger!ledgerVars
<1>5. QED
  BY <1>1, <1>2, <1>3, <1>4 DEF Next, MainStep

\* The service implements the abstract ledger and its cache: every step of
\* its threads, of Redis and of the container runtime is a store, a
\* publication, an eviction or invisible.
THEOREM LedgerImplemented == Spec => ImplementsLedger
<1>1. Init => Ledger!LedgerInit
  <2> SUFFICES ASSUME Init PROVE Ledger!LedgerInit
    OBVIOUS
  <2>1. rawTrades = {} /\ hash = [s \in Symbol |-> NoHash]
    BY DEF Init
  <2>2. [s \in Symbol |-> hash[s].seen] = [s \in Symbol |-> {}]
    BY <2>1 DEF NoHash
  <2>3. QED
    BY <2>1, <2>2 DEF Ledger!LedgerInit, Ledger!Empty
<1>2. IInv /\ [Next]_vars => [Ledger!LedgerNext]_(Ledger!ledgerVars)
  BY LedgerStep
<1>3. QED
  BY <1>1, <1>2, IInvariant, PTL DEF Spec, ImplementsLedger, Ledger!LedgerSpec

----------------------------------------------------------------------------
(***************************************************************************)
(* What the session rows report as written.  The sum of the property is a  *)
(* fold; Total of SumProofs is the same sum over the values of a function. *)
(***************************************************************************)
Written == [i \in Sessions |-> session[i].written]

WrittenInv ==
  /\ \A i \in Sessions : i > sid => session[i].written = 0
  /\ Total(Written, Sessions) = Cardinality(rawTrades)

LEMMA SessionsFinite == IsFiniteSet(Sessions)
  BY BoundAssumption, FS_Interval DEF Sessions

LEMMA WrittenTotal ==
  ASSUME TypeInv
  PROVE  MapThenSumSet(LAMBDA i : session[i].written, Sessions)
           = Total(Written, Sessions)
<1> DEFINE Row(g, s) ==
             IF s = {} THEN 0
             ELSE session[Picked(s)].written + g[s \ {Picked(s)}]
           c == CHOOSE g : g = [s \in SUBSET Sessions |-> Row(g, s)]
<1>1. MapThenSumSet(LAMBDA i : session[i].written, Sessions) = c[Sessions]
  BY DEF MapThenSumSet, MapThenFoldSet, Picked
<1>2. \A i \in Sessions : Written[i] = session[i].written /\ Written[i] \in Nat
  BY DEF Written, TypeInv, TypeOK
<1>3. ASSUME NEW g, NEW s \in SUBSET Sessions
      PROVE  Row(g, s) = SumStep(Written, g, s)
  BY <1>2, PickedIsElement DEF SumStep
<1>4. PICK g \in [SUBSET Sessions -> Nat] : IsSum(g, Written, Sessions)
  BY <1>2, SessionsFinite, SumExists
<1>5. g = [s \in SUBSET Sessions |-> Row(g, s)]
  BY <1>3, <1>4 DEF IsSum
<1>6. c = [s \in SUBSET Sessions |-> Row(c, s)]
  <2> HIDE DEF Row
  <2>1. QED
    BY <1>5
<1>7. IsSum(c, Written, Sessions)
  <2> HIDE DEF Row, c
  <2>1. QED
    BY <1>3, <1>6 DEF IsSum
<1>8. QED
  <2> HIDE DEF Row, c
  <2>1. QED
    BY <1>1, <1>2, <1>7, SessionsFinite, TotalIsSum

\* The rows a step leaves as written add up to the same number.
LEMMA WrittenSame ==
  ASSUME TypeInv, WrittenInv, rawTrades' = rawTrades, sid' >= sid, sid' \in Nat,
         \A i \in Sessions : session'[i].written = session[i].written
  PROVE  WrittenInv'
<1>1. \A i \in Sessions : Written[i] \in Nat /\ Written'[i] = Written[i]
  BY DEF Written, TypeInv, TypeOK
<1>2. Total(Written', Sessions) = Total(Written, Sessions)
  BY <1>1, SessionsFinite, TotalSame
<1>3. \A i \in Sessions : i > sid' => session'[i].written = 0
  BY BoundAssumption DEF WrittenInv, TypeInv, TypeOK, Sessions
<1>4. QED
  BY <1>2, <1>3 DEF WrittenInv

\* The insert and its heartbeat add the same number on both sides.
LEMMA WrittenCommit ==
  ASSUME TypeInv, FlowInv, SessionInv, WrittenInv, pc = "write", CommitBatch
  PROVE  WrittenInv'
<1> DEFINE n == Cardinality(batch)
<1>0. sid \in Sessions /\ n \in Nat /\ sid' = sid
  BY FS_CardinalityType DEF SessionInv, TypeInv, CommitBatch
<1>1. /\ session'[sid].written = session[sid].written + n
      /\ \A i \in Sessions \ {sid} : session'[i].written = session[i].written
  BY <1>0 DEF CommitBatch, RowsInserted, TypeInv, TypeOK
<1>2. /\ \A i \in Sessions : Written[i] \in Nat
      /\ Written'[sid] = Written[sid] + n
      /\ \A i \in Sessions \ {sid} : Written'[i] = Written[i]
  BY <1>0, <1>1 DEF Written, TypeInv, TypeOK
<1>3. Total(Written', Sessions) = Total(Written, Sessions) + n
  BY <1>0, <1>2, SessionsFinite, TotalGrows
<1>4. Cardinality(rawTrades') = Cardinality(rawTrades) + n
  <2>1. batch \cap rawTrades = {}
    BY DEF FlowInv, BatchInv
  <2>2. Cardinality(rawTrades \cup batch)
          = Cardinality(rawTrades) + n - Cardinality(rawTrades \cap batch)
    BY FS_Union DEF TypeInv
  <2>3. Cardinality(rawTrades \cap batch) = 0
    BY <2>1, FS_EmptySet
  <2>4. QED
    BY <1>0, <2>2, <2>3, FS_CardinalityType DEF CommitBatch, TypeInv
<1>5. \A i \in Sessions : i > sid' => session'[i].written = 0
  BY <1>0, <1>1 DEF WrittenInv, Sessions
<1>6. QED
  BY <1>3, <1>4, <1>5 DEF WrittenInv

LEMMA WrittenInvStep ==
  TypeInv /\ FlowInv /\ SessionInv /\ WrittenInv /\ [Next]_vars => WrittenInv'
<1> SUFFICES ASSUME TypeInv, FlowInv, SessionInv, WrittenInv, [Next]_vars
             PROVE  WrittenInv'
  OBVIOUS
<1> USE DEF dbVars, flushVars, eventVars
<1>0. sid \in Nat /\ MaxSessions \in Nat
      /\ session \in [Sessions ->
           [status : {"none", "live", "closed", "failed"},
            received : Nat, written : Nat]]
  BY BoundAssumption DEF TypeInv, TypeOK
<1>1. CASE StartSession
  <2>1. /\ rawTrades' = rawTrades /\ sid' = sid + 1 /\ sid + 1 \in Sessions
        /\ session' = [session EXCEPT ![sid + 1] =
              [status |-> "live", received |-> 0, written |-> 0]]
    BY <1>0, <1>1 DEF StartSession, Sessions
  <2>2. session[sid + 1].written = 0
    BY <1>0, <2>1 DEF WrittenInv
  <2>3. \A i \in Sessions : session'[i].written = session[i].written
    BY <1>0, <2>1, <2>2
  <2>4. QED
    BY <1>0, <2>1, <2>3, WrittenSame
<1>2. CASE Write \/ WriteAmbiguous
  BY <1>2, WrittenCommit DEF Write, WriteAmbiguous
<1>3. CASE Finish
  <2>1. /\ rawTrades' = rawTrades /\ sid' = sid
        /\ session' = [session EXCEPT
             ![sid].status = IF error THEN "failed" ELSE "closed"]
    BY <1>3 DEF Finish, VerdictRow
  <2>2. \A i \in Sessions : session'[i].written = session[i].written
    BY <1>0, <2>1
  <2>3. QED
    BY <1>0, <2>1, <2>2, WrittenSame
<1>4. CASE Drain \/ Load \/ LoadFails \/ WriteFails \/ Save \/ SaveFails
           \/ SaveTimesOut \/ CheckClosed \/ FinishFails \/ Crash
           \/ SocketStep \/ RedisRestart \/ UNCHANGED vars
  <2>1. rawTrades' = rawTrades /\ sid' = sid /\ session' = session
    BY <1>4 DEF Drain, Load, LoadFails, WriteFails, Save, SaveFails,
                SaveTimesOut, AfterSave, CheckClosed, FinishFails, Crash,
                ProcessDies, SocketStep, PutTrade, RecordTrades, SocketError,
                SocketClose, RedisRestart, vars
  <2>2. QED
    BY <1>0, <2>1, WrittenSame
<1>5. QED
  BY <1>1, <1>2, <1>3, <1>4 DEF Next, MainStep

LEMMA WrittenInvInit == Init => WrittenInv
<1> SUFFICES ASSUME Init PROVE WrittenInv
  OBVIOUS
<1>1. \A i \in Sessions : session[i].written = 0 /\ Written[i] = 0
  BY DEF Init, NoRow, Written
<1>2. Total(Written, Sessions) = 0
  BY <1>1, SessionsFinite, TotalOfZeros
<1>3. Cardinality(rawTrades) = 0
  BY FS_EmptySet DEF Init
<1>4. QED
  BY <1>1, <1>2, <1>3 DEF WrittenInv

\* "Rows written" on the dashboard adds up: over all sessions it is the
\* number of rows in raw_trades, for any batch size, failure and crash.
THEOREM RowsAddUp == Spec => []RowsWrittenMatch
<1>1. Init => WrittenInv
  BY WrittenInvInit
<1>2. TypeInv /\ FlowInv /\ SessionInv /\ WrittenInv /\ [Next]_vars => WrittenInv'
  BY WrittenInvStep
<1>3. TypeInv /\ WrittenInv => RowsWrittenMatch
  BY WrittenTotal DEF WrittenInv, RowsWrittenMatch
<1>4. QED
  BY <1>1, <1>2, <1>3, FlowInvariant, SessionInvariant, PTL DEF Spec

----------------------------------------------------------------------------
(***************************************************************************)
(* The writer's backlog.  While a session runs, every trade put on its     *)
(* queue is written, in flight or still queued, and every trade is counted *)
(* by the socket thread or belongs to the message it is putting.           *)
(***************************************************************************)
BacklogInv ==
  pc # "connect" =>
    /\ session[sid].received = reported
    /\ session[sid].written + Cardinality(InFlight) + Len(queue)
         = tradesSeen + unrecorded

\* A drain takes as many trades as it takes off the queue: no two elements of
\* a queue are the same delivery.
LEMMA DrainCounts ==
  ASSUME TypeInv, FlowInv, Drain
  PROVE  /\ Cardinality(batch') + Len(queue') = Len(queue)
         /\ Cardinality(batch') \in Nat
<1>1. Take \in 0..Len(queue) /\ Len(queue) \in Nat
  BY TakeBounds DEF TypeInv, TypeOK
<1>2. Len(queue') = Len(queue) - Take
  BY LeaveRestProperties DEF Drain, TypeInv, TypeOK
<1> DEFINE f == [i \in 1..Take |-> queue[i]]
<1>3. batch' = {queue[i] : i \in 1..Take}
  BY DEF Drain
<1>4. f \in Bijection(1..Take, batch')
  <2>1. \A i, j \in 1..Take : queue[i] = queue[j] => i = j
    BY <1>1 DEF FlowInv, QueueInv
  <2>2. f \in Injection(1..Take, batch')
    BY <1>3, <2>1 DEF Injection, IsInjective
  <2>3. f \in Surjection(1..Take, batch')
    BY <1>3 DEF Surjection
  <2>4. QED
    BY <2>2, <2>3 DEF Bijection
<1>5. IsFiniteSet(1..Take) /\ Cardinality(1..Take) = Take
  BY <1>1, FS_Interval
<1>6. Cardinality(batch') = Take
  <2> HIDE DEF f
  <2>1. ExistsBijection(1..Take, batch')
    BY <1>4 DEF ExistsBijection
  <2>2. QED
    BY <1>5, <2>1, FS_Bijection
<1>7. QED
  BY <1>1, <1>2, <1>6

LEMMA BacklogStep ==
  ASSUME Faults \cap {"insertFails", "ambiguousCommit"} = {},
         TypeInv, FlowInv, SessionInv, BacklogInv, [Next]_vars
  PROVE  BacklogInv'
<1> USE DEF dbVars, flushVars, eventVars
<1>0. /\ sid \in 0..MaxSessions /\ MaxSessions \in Nat
      /\ session \in [Sessions ->
           [status : {"none", "live", "closed", "failed"},
            received : Nat, written : Nat]]
      /\ reported \in Nat /\ tradesSeen \in Nat /\ unrecorded \in Nat
      /\ Len(queue) \in Nat /\ Cardinality(batch) \in Nat
      /\ Cardinality({}) = 0
  BY BoundAssumption, FS_CardinalityType, FS_EmptySet DEF TypeInv, TypeOK
<1>1. CASE StartSession
  <2>1. /\ sid' = sid + 1 /\ sid + 1 \in Sessions
        /\ session' = [session EXCEPT ![sid + 1] =
              [status |-> "live", received |-> 0, written |-> 0]]
        /\ reported' = 0 /\ tradesSeen' = 0 /\ unrecorded' = 0
        /\ queue' = <<>> /\ pc' = "drain"
    BY <1>0, <1>1 DEF StartSession, Sessions
  <2>2. session'[sid'].received = 0 /\ session'[sid'].written = 0
    BY <1>0, <2>1
  <2>3. InFlight' = {} /\ Len(queue') = 0
    BY <2>1, EmptySeq DEF InFlight
  <2>4. QED
    BY <1>0, <2>1, <2>2, <2>3 DEF BacklogInv
<1>2. CASE Drain
  <2>1. /\ UNCHANGED <<session, sid, reported, tradesSeen, unrecorded>>
        /\ pc = "drain" /\ InFlight = {} /\ InFlight' = batch'
    BY <1>2 DEF Drain, InFlight
  <2>2. /\ Cardinality(batch') + Len(queue') = Len(queue)
        /\ Cardinality(batch') \in Nat /\ Len(queue') \in Nat
    BY <1>2, DrainCounts, LeaveRestProperties DEF Drain, TypeInv, TypeOK
  <2>3. sid \in Sessions /\ session[sid].written \in Nat
    BY <1>0, <2>1 DEF SessionInv
  <2>4. QED
    BY <1>0, <2>1, <2>2, <2>3 DEF BacklogInv
<1>3. CASE Write
  <2>1. /\ pc = "write" /\ sid' = sid /\ reported' = tradesSeen
        /\ UNCHANGED <<queue, tradesSeen, unrecorded>>
        /\ session' = [session EXCEPT
              ![sid].received = @ + (tradesSeen - reported),
              ![sid].written  = @ + Cardinality(batch)]
        /\ InFlight = batch /\ InFlight' = {}
    BY <1>3 DEF Write, CommitBatch, RowsInserted, Reported, InFlight
  <2>2. sid \in Sessions
    BY <2>1 DEF SessionInv
  <2>3. /\ session'[sid].received = session[sid].received + (tradesSeen - reported)
        /\ session'[sid].written = session[sid].written + Cardinality(batch)
        /\ session[sid].received \in Nat /\ session[sid].written \in Nat
    BY <1>0, <2>1, <2>2
  <2>4. QED
    BY <1>0, <2>1, <2>3 DEF BacklogInv
<1>4. CASE WriteFails \/ WriteAmbiguous
  BY <1>4 DEF WriteFails, WriteAmbiguous
<1>5. CASE Finish \/ FinishFails \/ Crash
  BY <1>5 DEF Finish, FinishFails, Crash, ProcessDies, MemoryGone, BacklogInv
<1>6. CASE Load \/ LoadFails \/ Save \/ SaveFails \/ SaveTimesOut \/ CheckClosed
           \/ SocketError \/ SocketClose \/ RedisRestart \/ UNCHANGED vars
  <2>1. /\ UNCHANGED <<session, sid, reported, tradesSeen, unrecorded, queue>>
        /\ InFlight' = InFlight /\ (pc' # "connect" => pc # "connect")
    BY <1>6 DEF Load, LoadFails, Save, SaveFails, SaveTimesOut, AfterSave,
                CheckClosed, SocketError, SocketClose, RedisRestart, InFlight,
                vars
  <2>2. QED
    BY <2>1 DEF BacklogInv
<1>7. ASSUME NEW t \in Trade, PutTrade(t) PROVE BacklogInv'
  <2>1. /\ UNCHANGED <<session, sid, reported, tradesSeen, pc>>
        /\ unrecorded' = unrecorded + 1 /\ InFlight' = InFlight
        /\ queue' = Append(queue, t)
    BY <1>7 DEF PutTrade, InFlight
  <2>2. Len(queue') = Len(queue) + 1
    BY <2>1, AppendProperties DEF TypeInv, TypeOK
  <2>3. CASE pc # "connect"
    <3>1. sid \in Sessions /\ session[sid].written \in Nat
      BY <1>0, <2>3 DEF SessionInv
    <3>2. Cardinality(InFlight) \in Nat
      BY <1>0 DEF InFlight
    <3>0. /\ session[sid].received = reported
          /\ session[sid].written + Cardinality(InFlight) + Len(queue)
               = tradesSeen + unrecorded
      BY <2>3 DEF BacklogInv
    <3>3. session[sid].written + Cardinality(InFlight) + (Len(queue) + 1)
            = tradesSeen + (unrecorded + 1)
      BY <1>0, <3>0, <3>1, <3>2
    <3>4. Cardinality(InFlight)' = Cardinality(InFlight)
      BY <2>1
    <3>5. QED
      BY <2>1, <2>2, <3>0, <3>3, <3>4 DEF BacklogInv
  <2>4. CASE pc = "connect"
    BY <2>1, <2>4 DEF BacklogInv
  <2>5. QED
    BY <2>3, <2>4
<1>8. CASE RecordTrades
  <2>1. /\ UNCHANGED <<session, sid, reported, pc, queue>>
        /\ tradesSeen' = tradesSeen + unrecorded /\ unrecorded' = 0
        /\ InFlight' = InFlight
    BY <1>8 DEF RecordTrades, InFlight
  <2>2. QED
    BY <1>0, <2>1 DEF BacklogInv
<1>9. QED
  BY <1>1, <1>2, <1>3, <1>4, <1>5, <1>6, <1>7, <1>8
     DEF Next, MainStep, SocketStep

\* As long as every insert succeeds, the dashboard's "Writer backlog" is at
\* most what waits on the queue and in the batch, at every step of a flush.
THEOREM BacklogBounded ==
  ASSUME Faults \cap {"insertFails", "ambiguousCommit"} = {}
  PROVE  Spec => []BacklogIsWaiting
<1>1. Init => BacklogInv
  BY DEF Init, BacklogInv
<1>2. TypeInv /\ FlowInv /\ SessionInv /\ BacklogInv /\ [Next]_vars
        => BacklogInv'
  BY BacklogStep
<1>3. TypeInv /\ SessionInv /\ BacklogInv => BacklogIsWaiting
  <2> SUFFICES ASSUME TypeInv, SessionInv, BacklogInv, pc # "connect"
               PROVE  session[sid].received - session[sid].written
                        <= Len(queue) + Cardinality(InFlight)
    BY DEF BacklogIsWaiting
  <2>1. /\ reported \in Nat /\ tradesSeen \in Nat /\ unrecorded \in Nat
        /\ reported <= tradesSeen /\ Len(queue) \in Nat
    BY DEF TypeInv, TypeOK
  <2>2. session[sid].written \in Nat
    BY DEF SessionInv, TypeInv, TypeOK
  <2>3. Cardinality(InFlight) \in Nat
    BY FS_CardinalityType, FS_EmptySet DEF InFlight, TypeInv
  <2>4. QED
    BY <2>1, <2>2, <2>3 DEF BacklogInv
<1>4. QED
  BY <1>1, <1>2, <1>3, FlowInvariant, SessionInvariant, PTL DEF Spec

----------------------------------------------------------------------------
(***************************************************************************)
(* What ~needs_reseed is worth.  Between the insert and the Redis write a  *)
(* trusted hash lacks the batch; there the loaded hashes must have all the *)
(* earlier rows of the batch's day, so that the merge completes the day.   *)
(***************************************************************************)
Complete(s) == SeedRows(s, hash[s].day) \subseteq hash[s].seen

TrustInv ==
  /\ pc # "save" /\ ~needsReseed => \A s \in Symbol : Complete(s)
  /\ pc \in {"write", "save"} /\ loaded => \A s \in SymbolsIn(batch) : Seeded(s)

\* No trade is of day 0, the day of a missing hash.
LEMMA NoHashComplete ==
  ASSUME TypeInv, NEW s
  PROVE  SeedRows(s, NoHash.day) = {}
BY TradeAssumption DEF SeedRows, NoHash, TypeInv, TypeOK

\* What the loop loads for a symbol of its batch has the batch's whole day:
\* it was read from Postgres, or a trusted hash of the same day.
LEMMA LoadSeeds ==
  ASSUME TypeInv, TrustInv, Load, NEW s \in SymbolsIn(batch)
  PROVE  Seeded(s)'
<1>1. /\ rawTrades' = rawTrades /\ batch' = batch /\ pc = "load"
      /\ stored' = [u \in Symbol |->
                      IF u \notin SymbolsIn(batch) THEN NoHash
                      ELSE IF Stale(u) THEN Seed(u, BatchDay(batch))
                      ELSE Read(u)]
  BY DEF Load, dbVars
<1>2. s \in Symbol
  BY TradeAssumption DEF SymbolsIn, TypeInv, TypeOK
<1>3. CASE Stale(s)
  <2>1. stored'[s].seen = SeedRows(s, BatchDay(batch))
    BY <1>1, <1>2, <1>3, SeedGood
  <2>2. QED
    BY <1>1, <2>1 DEF SeedRows, Seeded
<1>4. CASE ~Stale(s)
  <2>1. stored'[s] = Read(s) /\ Read(s).day = BatchDay(batch)
    BY <1>1, <1>2, <1>4 DEF Stale
  <2>2. BatchDay(batch) # 0
    BY BatchDayIsADay DEF SymbolsIn, TypeInv, TypeOK
  <2>3. ~needsReseed /\ Read(s) = hash[s]
    BY <2>1, <2>2 DEF Read, NoHash
  <2>4. SeedRows(s, BatchDay(batch)) \subseteq stored'[s].seen
    BY <1>1, <1>2, <2>1, <2>3 DEF TrustInv, Complete
  <2>5. QED
    BY <1>1, <2>4 DEF SeedRows, Seeded
<1>5. QED
  BY <1>3, <1>4

\* With one symbol every Redis write leaves every hash whole.
LEMMA SaveCompletes ==
  ASSUME \A s, u \in Symbol : s = u,
         IInv, TrustInv, pc = "save", WriteHashes, rawTrades' = rawTrades,
         NEW s \in Symbol
  PROVE  Complete(s)'
<1>1. batch # {} /\ loaded /\ batch \subseteq Trade /\ hash \in [Symbol -> HashType]
  BY DEF IInv, CacheInv, TypeInv, TypeOK
<1>2. \A t \in batch : SymbolOf[t] = s
  BY <1>1, TradeAssumption
<1>3. s \in SymbolsIn(batch) /\ OfSymbol(batch, s) = batch
  BY <1>1, <1>2 DEF SymbolsIn, OfSymbol
<1>4. hash'[s].day = BatchDay(batch)
  BY <1>3 DEF WriteHashes, Merge
<1>5. SeedRows(s, BatchDay(batch)) \subseteq hash'[s].seen
  BY <1>1, <1>3, SeededMergeIsComplete DEF TrustInv
<1>6. QED
  BY <1>4, <1>5 DEF Complete, SeedRows

LEMMA TrustStep ==
  ASSUME \A s, u \in Symbol : s = u, "ambiguousCommit" \notin Faults,
         IInv, TrustInv, [Next]_vars
  PROVE  TrustInv'
<1> USE DEF dbVars, flushVars, eventVars
<1>0. TypeInv
  BY DEF IInv
<1>1. CASE StartSession \/ Finish \/ FinishFails \/ Crash \/ SaveFails
  <2>1. needsReseed' = TRUE /\ pc' \notin {"write", "save"}
    BY <1>1 DEF StartSession, Finish, FinishFails, Crash, ProcessDies,
                MemoryGone, SaveFails, AfterSave, ReseedAtStart
  <2>2. QED
    BY <2>1 DEF TrustInv
<1>2. CASE Drain \/ CheckClosed \/ WriteFails
  <2>1. /\ UNCHANGED <<rawTrades, hash, needsReseed>>
        /\ pc # "save" /\ pc' \notin {"write", "save"}
    BY <1>2 DEF Drain, CheckClosed, WriteFails
  <2>2. QED
    BY <2>1 DEF TrustInv, Complete, SeedRows
<1>3. CASE Load
  <2>1. /\ UNCHANGED <<rawTrades, hash, needsReseed, batch>>
        /\ pc # "save" /\ pc' = "write"
    BY <1>3 DEF Load
  <2>2. \A s \in SymbolsIn(batch) : Seeded(s)'
    BY <1>0, <1>3, LoadSeeds
  <2>3. SymbolsIn(batch)' = SymbolsIn(batch)
    BY <2>1 DEF SymbolsIn
  <2>4. QED
    BY <2>1, <2>2, <2>3 DEF TrustInv, Complete, SeedRows
<1>4. CASE LoadFails
  <2>1. /\ UNCHANGED <<rawTrades, hash, needsReseed>>
        /\ pc # "save" /\ loaded' = FALSE
    BY <1>4 DEF LoadFails
  <2>2. QED
    BY <2>1 DEF TrustInv, Complete, SeedRows
<1>5. CASE Write
  <2>1. /\ rawTrades' = rawTrades \cup batch /\ hash' = hash /\ pc = "write"
        /\ needsReseed' = (needsReseed \/ (batch # {} /\ ~loaded))
    BY <1>5 DEF Write, CommitBatch
  <2>2. CASE batch # {} /\ loaded
    <3>1. /\ UNCHANGED <<batch, stored, loaded>> /\ pc' = "save"
          /\ rawTrades' \ batch = rawTrades \ batch
      BY <1>5, <2>1, <2>2 DEF Write
    <3>2. SymbolsIn(batch)' = SymbolsIn(batch)
      BY <3>1 DEF SymbolsIn
    <3>3. \A s \in SymbolsIn(batch) : Seeded(s)'
      BY <2>1, <2>2, <3>1 DEF TrustInv, Seeded
    <3>4. QED
      BY <3>1, <3>2, <3>3 DEF TrustInv
  <2>3. CASE batch # {} /\ ~loaded
    <3>1. needsReseed' = TRUE /\ pc' = "closed"
      BY <1>5, <2>1, <2>3 DEF Write
    <3>2. QED
      BY <3>1 DEF TrustInv
  <2>4. CASE batch = {}
    <3>1. rawTrades' = rawTrades /\ needsReseed' = needsReseed /\ pc' = "closed"
      <4>1. needsReseed \in BOOLEAN
        BY <1>0 DEF TypeInv, TypeOK
      <4>2. QED
        BY <1>5, <2>1, <2>4, <4>1 DEF Write
    <3>2. QED
      BY <2>1, <3>1 DEF TrustInv, Complete, SeedRows
  <2>5. QED
    BY <2>2, <2>3, <2>4
<1>6. CASE WriteAmbiguous
  BY <1>6 DEF WriteAmbiguous
<1>7. CASE Save \/ SaveTimesOut
  <2>1. pc = "save" /\ WriteHashes /\ rawTrades' = rawTrades /\ pc' = "closed"
    BY <1>7 DEF Save, SaveTimesOut, AfterSave
  <2>2. \A s \in Symbol : Complete(s)'
    BY <2>1, SaveCompletes
  <2>3. QED
    BY <2>1, <2>2 DEF TrustInv
<1>8. CASE RedisRestart
  <2>1. /\ UNCHANGED <<rawTrades, needsReseed, pc, batch, stored, loaded>>
        /\ hash' = [s \in Symbol |-> NoHash]
    BY <1>8 DEF RedisRestart
  <2>2. ASSUME NEW s \in Symbol PROVE Complete(s)'
    <3>1. SeedRows(s, NoHash.day)' = {}
      BY <1>0, <2>1, NoHashComplete DEF SeedRows
    <3>2. QED
      BY <2>1, <3>1 DEF Complete, SeedRows
  <2>3. SymbolsIn(batch)' = SymbolsIn(batch) /\ \A s : Seeded(s)' <=> Seeded(s)
    BY <2>1 DEF SymbolsIn, Seeded
  <2>4. QED
    BY <2>1, <2>2, <2>3 DEF TrustInv
<1>9. CASE SocketStep \/ UNCHANGED vars
  <2>1. UNCHANGED <<rawTrades, hash, needsReseed, pc, batch, stored, loaded>>
    BY <1>9 DEF SocketStep, PutTrade, RecordTrades, SocketError, SocketClose,
                vars
  <2>2. SymbolsIn(batch)' = SymbolsIn(batch) /\ \A s : Seeded(s)' <=> Seeded(s)
    BY <2>1 DEF SymbolsIn, Seeded
  <2>3. \A s : Complete(s)' <=> Complete(s)
    BY <2>1 DEF Complete, SeedRows
  <2>4. QED
    BY <2>1, <2>2, <2>3 DEF TrustInv
<1>10. QED
  BY <1>1, <1>2, <1>3, <1>4, <1>5, <1>6, <1>7, <1>8, <1>9 DEF Next, MainStep

\* With a single symbol, and as long as no commit is ambiguous, the hash that
\* the loop trusts covers its day, through any sequence of failed loads,
\* failed, half-known and refused writes, Redis restarts and crashes.
THEOREM TrustIsJustified ==
  ASSUME \A s, u \in Symbol : s = u, "ambiguousCommit" \notin Faults
  PROVE  Spec => []TrustedHashIsComplete
<1>1. Init => TrustInv
  BY DEF Init, TrustInv
<1>2. IInv /\ TrustInv /\ [Next]_vars => TrustInv'
  BY TrustStep
<1>3. TrustInv => TrustedHashIsComplete
  BY DEF TrustInv, Complete, TrustedHashIsComplete
<1>4. QED
  BY <1>1, <1>2, <1>3, IInvariant, PTL DEF Spec

\* Several symbols.  The flag knows nothing of the symbols a flush left out,
\* so all hashes must be whole at all times, except those about to be written.
WholeInv ==
  /\ loaded
  /\ \A s \in Symbol : Complete(s) \/ (pc = "save" /\ s \in SymbolsIn(batch))
  /\ pc \in {"write", "save"} => \A s \in SymbolsIn(batch) : Seeded(s)

\* Trades of a single day: those of one symbol have the batch's day.
LEMMA OneDayWrite ==
  ASSUME \A t, u \in Trade : DayOf[t] = DayOf[u],
         IInv, WholeInv, pc = "save", WriteHashes, rawTrades' = rawTrades,
         NEW s \in Symbol
  PROVE  Complete(s)'
<1>1. CASE s \in SymbolsIn(batch)
  <2> DEFINE B == OfSymbol(batch, s)
  <2>1. B \subseteq batch /\ B # {} /\ batch \subseteq Trade /\ batch # {}
    BY <1>1, OfSymbolProperties DEF IInv, TypeInv, TypeOK
  <2>2. hash'[s].day = BatchDay(B)
    BY <1>1 DEF WriteHashes, Merge
  <2> HIDE DEF B
  <2>3. BatchDay(B) = BatchDay(batch)
    <3>1. /\ \E t \in B : BatchDay(B) = DayOf[t]
          /\ \E u \in batch : BatchDay(batch) = DayOf[u]
      BY <2>1, BatchDayIsADay
    <3>2. QED
      BY <2>1, <3>1
  <2>4. SeedRows(s, BatchDay(batch)) \subseteq hash'[s].seen
    BY <1>1, SeededMergeIsComplete DEF WholeInv
  <2>5. QED
    BY <2>2, <2>3, <2>4 DEF Complete, SeedRows
<1>2. CASE s \notin SymbolsIn(batch)
  <2>1. hash'[s] = hash[s] /\ Complete(s)
    BY <1>2 DEF WriteHashes, WholeInv
  <2>2. QED
    BY <2>1 DEF Complete, SeedRows
<1>3. QED
  BY <1>1, <1>2

LEMMA WholeStep ==
  ASSUME \A t, u \in Trade : DayOf[t] = DayOf[u],
         Faults \cap {"loadFails", "saveFails", "crash", "ambiguousCommit"} = {},
         IInv, WholeInv, [Next]_vars
  PROVE  WholeInv'
<1> USE DEF dbVars, flushVars, eventVars
<1>0. TypeInv /\ TrustInv
  BY DEF IInv, WholeInv, TrustInv
<1>1. CASE StartSession \/ Drain \/ WriteFails \/ CheckClosed \/ Finish
           \/ FinishFails
  <2>1. /\ UNCHANGED <<rawTrades, hash>>
        /\ loaded' = loaded \/ loaded' = TRUE
        /\ pc # "save" /\ pc' \notin {"write", "save"}
    BY <1>1 DEF StartSession, Drain, WriteFails, CheckClosed, Finish,
                FinishFails, ProcessDies, MemoryGone, Discard
  <2>2. QED
    BY <2>1 DEF WholeInv, Complete, SeedRows
<1>2. CASE Load
  <2>1. /\ UNCHANGED <<rawTrades, hash, batch>> /\ loaded' = TRUE
        /\ pc # "save" /\ pc' = "write"
    BY <1>2 DEF Load
  <2>2. \A s \in SymbolsIn(batch) : Seeded(s)'
    BY <1>0, <1>2, LoadSeeds
  <2>3. SymbolsIn(batch)' = SymbolsIn(batch)
    BY <2>1 DEF SymbolsIn
  <2>4. QED
    BY <2>1, <2>2, <2>3 DEF WholeInv, Complete, SeedRows
<1>3. CASE LoadFails \/ WriteAmbiguous \/ SaveFails \/ Crash
  BY <1>3 DEF LoadFails, WriteAmbiguous, SaveFails, Crash
<1>4. CASE Write
  <2>1. rawTrades' = rawTrades \cup batch /\ hash' = hash /\ pc = "write"
    BY <1>4 DEF Write, CommitBatch
  <2>2. CASE batch # {}
    <3>1. /\ UNCHANGED <<batch, stored, loaded>> /\ pc' = "save"
          /\ rawTrades' \ batch = rawTrades \ batch
      BY <1>4, <2>1, <2>2 DEF Write, WholeInv
    <3>2. SymbolsIn(batch)' = SymbolsIn(batch)
      BY <3>1 DEF SymbolsIn
    <3>3. \A s \in SymbolsIn(batch) : Seeded(s)'
      BY <2>1, <3>1 DEF WholeInv, Seeded
    <3>4. ASSUME NEW s \in Symbol, s \notin SymbolsIn(batch)
          PROVE  Complete(s)'
      <4>1. Complete(s)
        BY <2>1, <3>4 DEF WholeInv
      <4>2. \A t \in batch : SymbolOf[t] # s
        BY <3>4 DEF SymbolsIn
      <4>3. QED
        BY <2>1, <4>1, <4>2 DEF Complete, SeedRows
    <3>5. QED
      BY <3>1, <3>2, <3>3, <3>4 DEF WholeInv
  <2>3. CASE batch = {}
    <3>1. rawTrades' = rawTrades /\ loaded' = TRUE /\ pc' = "closed"
      BY <1>4, <2>1, <2>3 DEF Write, Discard
    <3>2. QED
      BY <2>1, <3>1 DEF WholeInv, Complete, SeedRows
  <2>4. QED
    BY <2>2, <2>3
<1>5. CASE Save \/ SaveTimesOut
  <2>1. /\ pc = "save" /\ WriteHashes /\ rawTrades' = rawTrades
        /\ pc' = "closed" /\ loaded' = TRUE
    BY <1>5 DEF Save, SaveTimesOut, AfterSave, Discard
  <2>2. \A s \in Symbol : Complete(s)'
    BY <2>1, OneDayWrite
  <2>3. QED
    BY <2>1, <2>2 DEF WholeInv
<1>6. CASE RedisRestart
  <2>1. /\ UNCHANGED <<rawTrades, pc, batch, stored, loaded>>
        /\ hash' = [s \in Symbol |-> NoHash]
    BY <1>6 DEF RedisRestart
  <2>2. ASSUME NEW s \in Symbol PROVE Complete(s)'
    <3>1. SeedRows(s, NoHash.day)' = {}
      BY <1>0, <2>1, NoHashComplete DEF SeedRows
    <3>2. QED
      BY <2>1, <3>1 DEF Complete, SeedRows
  <2>3. SymbolsIn(batch)' = SymbolsIn(batch) /\ \A s : Seeded(s)' <=> Seeded(s)
    BY <2>1 DEF SymbolsIn, Seeded
  <2>4. QED
    BY <2>1, <2>2, <2>3 DEF WholeInv
<1>7. CASE SocketStep \/ UNCHANGED vars
  <2>1. UNCHANGED <<rawTrades, hash, pc, batch, stored, loaded>>
    BY <1>7 DEF SocketStep, PutTrade, RecordTrades, SocketError, SocketClose,
                vars
  <2>2. SymbolsIn(batch)' = SymbolsIn(batch) /\ \A s : Seeded(s)' <=> Seeded(s)
    BY <2>1 DEF SymbolsIn, Seeded
  <2>3. \A s : Complete(s)' <=> Complete(s)
    BY <2>1 DEF Complete, SeedRows
  <2>4. QED
    BY <2>1, <2>2, <2>3 DEF WholeInv
<1>8. QED
  BY <1>1, <1>2, <1>3, <1>4, <1>5, <1>6, <1>7 DEF Next, MainStep

\* With any number of symbols a trusted hash lacks trades only after a load
\* or a write that failed, a crash or an ambiguous commit, or over midnight:
\* failed inserts, answers of Redis that came too late, its restarts and
\* reconnects leave no hash behind.
THEOREM TrustOfAllSymbols ==
  ASSUME \A t, u \in Trade : DayOf[t] = DayOf[u],
         Faults \cap {"loadFails", "saveFails", "crash", "ambiguousCommit"} = {}
  PROVE  Spec => []TrustedHashIsComplete
<1>1. Init => WholeInv
  <2> SUFFICES ASSUME Init PROVE WholeInv
    OBVIOUS
  <2>1. \A s \in Symbol : Complete(s)
    BY DEF Init, Complete, SeedRows
  <2>2. QED
    BY <2>1 DEF Init, WholeInv
<1>2. IInv /\ WholeInv /\ [Next]_vars => WholeInv'
  BY WholeStep
<1>3. WholeInv => TrustedHashIsComplete
  BY DEF WholeInv, Complete, TrustedHashIsComplete
<1>4. QED
  BY <1>1, <1>2, <1>3, IInvariant, PTL DEF Spec

----------------------------------------------------------------------------
(***************************************************************************)
(* A feed in time order.  It orders each symbol's trades along their way:  *)
(* stored before the batch, before the queue.  The hashes then keep price  *)
(* and open by looking at the batch alone: its latest trade is the day's   *)
(* latest, and none of its trades is earlier than the day's open.          *)
(***************************************************************************)
NotAfter(t, u) == SymbolOf[t] = SymbolOf[u] => TsOf[t] <= TsOf[u]

OrderInv ==
  /\ \A i, j \in 1..Len(queue) : i <= j => NotAfter(queue[i], queue[j])
  /\ \A t \in rawTrades \cup batch : \A i \in 1..Len(queue) :
       NotAfter(t, queue[i])
  /\ \A t \in rawTrades \ batch : \A u \in batch : NotAfter(t, u)

\* The trades of the queue are numbered by time: so are those of its parts.
LEMMA OrderDrain ==
  ASSUME TypeInv, OrderInv, pc = "drain", BatchInv, Drain
  PROVE  OrderInv'
<1>1. /\ Take \in 0..Len(queue) /\ Len(queue) \in Nat
      /\ Len(queue') = Len(queue) - Take
      /\ \A i \in 1..Len(queue') : queue'[i] = queue[Take + i]
  BY TakeBounds, LeaveRestProperties DEF Drain, TypeInv, TypeOK
<1>2. /\ batch' = {queue[i] : i \in 1..Take} /\ rawTrades' = rawTrades
      /\ batch = {}
  BY DEF Drain, dbVars, BatchInv
<1>3. \A i, j \in 1..Len(queue') :
        i <= j => NotAfter(queue'[i], queue'[j])
  <2>1. SUFFICES ASSUME NEW i \in 1..Len(queue'), NEW j \in 1..Len(queue'),
                        i <= j
                 PROVE  NotAfter(queue[Take + i], queue[Take + j])
    BY <1>1
  <2>2. /\ Take + i \in 1..Len(queue) /\ Take + j \in 1..Len(queue)
        /\ Take + i <= Take + j
    <3>1. /\ i \in Nat /\ j \in Nat /\ i >= 1 /\ j >= 1
          /\ i <= Len(queue) - Take /\ j <= Len(queue) - Take
      BY <1>1
    <3>2. QED
      BY <1>1, <2>1, <3>1
  <2>3. QED
    BY <2>2 DEF OrderInv
<1>4. ASSUME NEW i \in 1..Len(queue')
      PROVE  /\ \A t \in rawTrades : NotAfter(t, queue'[i])
             /\ \A t \in batch' : NotAfter(t, queue'[i])
  <2>1. Take + i \in 1..Len(queue) /\ queue'[i] = queue[Take + i]
    BY <1>1
  <2>2. \A j \in 1..Take : NotAfter(queue[j], queue[Take + i])
    <3>1. \A j \in 1..Take : j \in 1..Len(queue) /\ j <= Take + i
      BY <1>1
    <3>2. QED
      BY <2>1, <3>1 DEF OrderInv
  <2>3. QED
    BY <1>2, <2>1, <2>2 DEF OrderInv
<1>5. \A t \in rawTrades : \A u \in batch' : NotAfter(t, u)
  <2>1. \A j \in 1..Take : j \in 1..Len(queue)
    BY <1>1
  <2>2. QED
    BY <1>2, <2>1 DEF OrderInv
<1>6. QED
  BY <1>2, <1>3, <1>4, <1>5 DEF OrderInv, NotAfter

\* A new trade is no earlier than any that arrived of its symbol.
LEMMA OrderPut ==
  ASSUME InOrder, TypeInv, FlowInv, OrderInv, NEW t \in Trade, PutTrade(t)
  PROVE  OrderInv'
<1>1. /\ rawTrades' = rawTrades /\ batch' = batch
      /\ queue' = Append(queue, t)
      /\ \A u \in arrived : NotAfter(u, t)
  BY DEF PutTrade, dbVars, flushVars, OfSymbol, NotAfter
<1>2. /\ Len(queue') = Len(queue) + 1 /\ Len(queue) \in Nat
      /\ \A i \in 1..Len(queue) : queue'[i] = queue[i]
      /\ queue'[Len(queue) + 1] = t
  BY <1>1, AppendProperties DEF TypeInv, TypeOK
<1>3. /\ \A i \in 1..Len(queue) : NotAfter(queue[i], t)
      /\ \A u \in rawTrades \cup batch : NotAfter(u, t)
  BY <1>1 DEF FlowInv, QueueInv, BatchInv
<1>4. NotAfter(t, t)
  BY TradeAssumption DEF NotAfter
<1>5. \A i \in 1..Len(queue') : i \in 1..Len(queue) \/ i = Len(queue) + 1
  BY <1>2
<1>6. \A i, j \in 1..Len(queue') : i <= j => NotAfter(queue'[i], queue'[j])
  <2>1. SUFFICES ASSUME NEW i \in 1..Len(queue'), NEW j \in 1..Len(queue'),
                        i <= j
                 PROVE  NotAfter(queue'[i], queue'[j])
    OBVIOUS
  <2>2. CASE j \in 1..Len(queue)
    <3>1. i \in 1..Len(queue)
      BY <1>2, <2>1, <2>2
    <3>2. QED
      BY <1>2, <2>1, <2>2, <3>1 DEF OrderInv
  <2>3. CASE j = Len(queue) + 1
    BY <1>2, <1>3, <1>4, <1>5, <2>3
  <2>4. QED
    BY <1>5, <2>2, <2>3
<1>7. \A u \in rawTrades \cup batch : \A i \in 1..Len(queue') :
        NotAfter(u, queue'[i])
  BY <1>2, <1>3, <1>5 DEF OrderInv
<1>8. QED
  BY <1>1, <1>6, <1>7 DEF OrderInv, NotAfter

LEMMA OrderStep ==
  ASSUME InOrder, TypeInv, FlowInv, OrderInv, [Next]_vars
  PROVE  OrderInv'
<1> USE DEF dbVars, flushVars, eventVars
<1>1. CASE StartSession \/ Finish \/ FinishFails \/ Crash
  <2>1. queue' = <<>> /\ batch' = {}
    BY <1>1 DEF StartSession, Finish, FinishFails, Crash, ProcessDies,
                MemoryGone, Discard
  <2>2. QED
    BY <2>1, EmptySeq DEF OrderInv
<1>2. CASE Drain
  BY <1>2, OrderDrain DEF Drain, FlowInv
<1>3. CASE Write \/ WriteAmbiguous
  <2>1. /\ rawTrades' = rawTrades \cup batch /\ queue' = queue
        /\ batch' = batch \/ batch' = {}
    BY <1>3 DEF Write, WriteAmbiguous, CommitBatch, Discard
  <2>2. QED
    BY <2>1 DEF OrderInv, NotAfter
<1>4. CASE WriteFails \/ Save \/ SaveFails \/ SaveTimesOut
  <2>1. rawTrades' = rawTrades /\ queue' = queue /\ batch' = {}
    BY <1>4 DEF WriteFails, Save, SaveFails, SaveTimesOut, AfterSave, Discard
  <2>2. QED
    BY <2>1 DEF OrderInv, NotAfter
<1>5. ASSUME NEW t \in Trade, PutTrade(t) PROVE OrderInv'
  BY <1>5, OrderPut
<1>6. CASE Load \/ LoadFails \/ CheckClosed \/ RecordTrades \/ SocketError
           \/ SocketClose \/ RedisRestart \/ UNCHANGED vars
  <2>1. rawTrades' = rawTrades /\ queue' = queue /\ batch' = batch
    BY <1>6 DEF Load, LoadFails, CheckClosed, RecordTrades, SocketError,
                SocketClose, RedisRestart, vars
  <2>2. QED
    BY <2>1 DEF OrderInv, NotAfter
<1>7. QED
  BY <1>1, <1>2, <1>3, <1>4, <1>5, <1>6 DEF Next, MainStep, SocketStep

\* The hashes' statistics: those of the trades seen.  A seed from Postgres
\* has the day's open; its price is that of the batch about to be merged.
OpenFollows(h) ==
  /\ h.seen = {} <=> h.day = 0
  /\ h.seen # {} => h.openTs = Min(Times(h.seen))

StatsFollow(h) ==
  OpenFollows(h) /\ (h.seen # {} => h.tradeTs = Max(Times(h.seen)))

StatsInv ==
  \A s \in Symbol : StatsFollow(hash[s]) /\ OpenFollows(stored[s])

LEMMA NoHashFollows == StatsFollow(NoHash) /\ OpenFollows(NoHash)
BY DEF StatsFollow, OpenFollows, NoHash

\* Min and Max of the times of a set that later trades are added to.
LEMMA LaterTimes ==
  ASSUME NEW A, A \subseteq Trade, NEW B, B \subseteq Trade, B # {},
         \A t \in A, u \in B : TsOf[t] <= TsOf[u]
  PROVE  /\ Max(Times(A \cup B)) = Max(Times(B))
         /\ A # {} => Min(Times(A \cup B)) = Min(Times(A))
<1>0. \A C : C \subseteq Trade /\ C # {} =>
        /\ Times(C) \subseteq Nat /\ Times(C) # {}
        /\ Min(Times(C)) \in Times(C) /\ Max(Times(C)) \in Times(C)
        /\ \A y \in Times(C) : Min(Times(C)) <= y /\ y <= Max(Times(C))
  <2>1. SUFFICES ASSUME NEW C, C \subseteq Trade, C # {}
                 PROVE  /\ Times(C) \subseteq Nat /\ Times(C) # {}
                        /\ Min(Times(C)) \in Times(C)
                        /\ Max(Times(C)) \in Times(C)
                        /\ \A y \in Times(C) :
                             Min(Times(C)) <= y /\ y <= Max(Times(C))
    OBVIOUS
  <2>2. /\ Times(C) \subseteq Nat /\ Times(C) # {} /\ MaxTs \in Nat
        /\ \A y \in Times(C) : y <= MaxTs
    BY <2>1, TradeAssumption DEF Times
  <2>3. QED
    BY <2>2, MinOfNats, MaxOfNats
<1>1. /\ Times(A \cup B) = Times(A) \cup Times(B)
      /\ \A x \in Times(A), y \in Times(B) : x <= y
  BY DEF Times
<1>2. A \cup B \subseteq Trade /\ A \cup B # {}
  OBVIOUS
<1>3. Max(Times(A \cup B)) = Max(Times(B))
  <2>1. /\ Max(Times(A \cup B)) \in Nat /\ Max(Times(B)) \in Nat
        /\ Max(Times(B)) <= Max(Times(A \cup B))
        /\ Max(Times(A \cup B)) <= Max(Times(B))
    BY <1>0, <1>1, <1>2
  <2>2. QED
    BY <2>1
<1>4. A # {} => Min(Times(A \cup B)) = Min(Times(A))
  <2>1. A # {} => /\ Min(Times(A \cup B)) \in Nat /\ Min(Times(A)) \in Nat
                  /\ Min(Times(A)) <= Min(Times(A \cup B))
                  /\ Min(Times(A \cup B)) <= Min(Times(A))
    BY <1>0, <1>1, <1>2
  <2>2. QED
    BY <2>1
<1>5. QED
  BY <1>3, <1>4

\* A seed has the open of the rows it was read from.
LEMMA SeedFollows ==
  ASSUME TypeInv, NEW s, NEW d \in Nat \ {0}
  PROVE  OpenFollows(Seed(s, d))
<1>1. CASE SeedRows(s, d) = {}
  BY <1>1, NoHashFollows DEF Seed
<1>2. CASE SeedRows(s, d) # {}
  BY <1>2 DEF Seed, OpenFollows
<1>3. QED
  BY <1>1, <1>2

\* A merge of later trades keeps the open and takes the batch's price.
LEMMA MergeFollows ==
  ASSUME NEW old \in HashType, OpenFollows(old),
         NEW B, B \subseteq Trade, B # {},
         \A t \in old.seen, u \in B : TsOf[t] <= TsOf[u]
  PROVE  StatsFollow(Merge(old, B))
<1>1. old.seen \subseteq Trade
  BY DEF HashType
<1>2. /\ Max(Times(old.seen \cup B)) = Max(Times(B))
      /\ old.seen # {} => Min(Times(old.seen \cup B)) = Min(Times(old.seen))
  BY <1>1, LaterTimes
<1>3. BatchDay(B) # 0
  BY BatchDayIsADay
<1>4. OpenAfter(old, B) = Min(Times(old.seen \cup B))
  <2>1. CASE old.seen = {}
    BY <2>1 DEF OpenAfter, OpenFollows
  <2>2. CASE old.seen # {}
    BY <1>2, <2>2 DEF OpenAfter, OpenFollows
  <2>3. QED
    BY <2>1, <2>2
<1>5. QED
  BY <1>2, <1>3, <1>4 DEF Merge, StatsFollow, OpenFollows

LEMMA WriteHashesFollow ==
  ASSUME IInv, OrderInv, StatsInv, pc = "save", WriteHashes, NEW s \in Symbol
  PROVE  StatsFollow(hash'[s])
<1>1. CASE s \in SymbolsIn(batch)
  <2> DEFINE B == OfSymbol(batch, s)
  <2>1. B \subseteq batch /\ B # {} /\ B \subseteq Trade
    BY <1>1, OfSymbolProperties DEF IInv, TypeInv, TypeOK
  <2>2. /\ stored[s] \in HashType /\ OpenFollows(stored[s])
        /\ stored[s].seen \subseteq rawTrades \ batch
        /\ \A t \in stored[s].seen : SymbolOf[t] = s
    BY DEF IInv, TypeInv, TypeOK, StatsInv, CacheInv, GoodHash
  <2>3. \A t \in stored[s].seen, u \in B : TsOf[t] <= TsOf[u]
    BY <2>1, <2>2 DEF OrderInv, NotAfter, OfSymbol
  <2>4. hash'[s] = Merge(stored[s], B)
    BY <1>1 DEF WriteHashes
  <2> HIDE DEF B
  <2>5. QED
    BY <2>1, <2>2, <2>3, <2>4, MergeFollows
<1>2. CASE s \notin SymbolsIn(batch)
  BY <1>2 DEF WriteHashes, StatsInv
<1>3. QED
  BY <1>1, <1>2

LEMMA StatsStep ==
  ASSUME IInv, OrderInv, StatsInv, [Next]_vars
  PROVE  StatsInv'
<1> USE DEF dbVars, flushVars, eventVars
<1>1. CASE StartSession \/ WriteFails \/ WriteAmbiguous \/ SaveFails \/ Finish
           \/ FinishFails \/ Crash \/ LoadFails
  <2>1. hash' = hash /\ stored' = [s \in Symbol |-> NoHash]
    BY <1>1 DEF StartSession, WriteFails, WriteAmbiguous, SaveFails, AfterSave,
                Finish, FinishFails, Crash, ProcessDies, MemoryGone, Discard,
                LoadFails
  <2>2. QED
    BY <2>1, NoHashFollows DEF StatsInv
<1>2. CASE Load
  <2>1. /\ hash' = hash
        /\ stored' = [s \in Symbol |->
              IF s \notin SymbolsIn(batch) THEN NoHash
              ELSE IF Stale(s) THEN Seed(s, BatchDay(batch))
              ELSE Read(s)]
    BY <1>2 DEF Load
  <2>2. ASSUME NEW s \in Symbol PROVE OpenFollows(stored'[s])
    <3>1. OpenFollows(Read(s))
      BY NoHashFollows DEF Read, StatsInv, StatsFollow
    <3>2. s \in SymbolsIn(batch) => BatchDay(batch) \in Nat \ {0}
      BY BatchDayIsADay DEF SymbolsIn, IInv, TypeInv, TypeOK
    <3>3. s \in SymbolsIn(batch) => OpenFollows(Seed(s, BatchDay(batch)))
      BY <3>2, SeedFollows DEF IInv
    <3>4. QED
      BY <2>1, <3>1, <3>3, NoHashFollows
  <2>3. QED
    BY <2>1, <2>2 DEF StatsInv
<1>3. CASE Write
  <2>1. /\ hash' = hash
        /\ stored' = stored \/ stored' = [s \in Symbol |-> NoHash]
    BY <1>3 DEF Write, Discard
  <2>2. QED
    BY <2>1, NoHashFollows DEF StatsInv
<1>4. CASE Save \/ SaveTimesOut
  <2>1. /\ pc = "save" /\ WriteHashes
        /\ stored' = [s \in Symbol |-> NoHash]
    BY <1>4 DEF Save, SaveTimesOut, AfterSave, Discard
  <2>2. \A s \in Symbol : StatsFollow(hash'[s])
    BY <2>1, WriteHashesFollow
  <2>3. QED
    BY <2>1, <2>2, NoHashFollows DEF StatsInv
<1>5. CASE RedisRestart
  <2>1. hash' = [s \in Symbol |-> NoHash] /\ stored' = stored
    BY <1>5 DEF RedisRestart
  <2>2. QED
    BY <2>1, NoHashFollows DEF StatsInv
<1>6. CASE Drain \/ CheckClosed \/ SocketStep \/ UNCHANGED vars
  <2>1. hash' = hash /\ stored' = stored
    BY <1>6 DEF Drain, CheckClosed, SocketStep, PutTrade, RecordTrades,
                SocketError, SocketClose, vars
  <2>2. QED
    BY <2>1 DEF StatsInv
<1>7. QED
  BY <1>1, <1>2, <1>3, <1>4, <1>5, <1>6 DEF Next, MainStep

\* With a feed in time order the dashboard's price and the day's open are
\* those of the latest and the earliest trade its hash covers: for any number
\* of symbols, any midnight, and through every failure of the model.
THEOREM PriceIsLatest ==
  ASSUME InOrder
  PROVE  Spec => []StatsFollowSeen
<1>1. Init => OrderInv /\ StatsInv
  BY NoHashFollows, EmptySeq DEF Init, OrderInv, StatsInv
<1>2. IInv /\ OrderInv /\ [Next]_vars => OrderInv'
  BY OrderStep DEF IInv
<1>3. IInv /\ OrderInv /\ StatsInv /\ [Next]_vars => StatsInv'
  BY StatsStep
<1>4. StatsInv => StatsFollowSeen
  BY DEF StatsInv, StatsFollow, OpenFollows, StatsFollowSeen
<1>5. QED
  BY <1>1, <1>2, <1>3, <1>4, IInvariant, PTL DEF Spec

=============================================================================

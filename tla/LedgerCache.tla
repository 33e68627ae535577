---------------------------- MODULE LedgerCache ----------------------------
(***************************************************************************)
(* What the stream service promises of Postgres and Redis together, without*)
(* its threads, queue or batches: an append-only ledger of trades, and per *)
(* symbol a cache entry, the set of trades its statistics were taken over. *)
(* An entry holds ledger trades only, and each publication either grows it *)
(* or rebuilds it for a whole day; the only other thing that can happen to *)
(* an entry is that the cache loses all of them.                           *)
(***************************************************************************)
CONSTANTS Trade, Symbol, SymbolOf, DayOf

VARIABLES
  ledger,   \* the stored trades
  cache     \* symbol -> the trades its entry covers

ledgerVars == <<ledger, cache>>

DayOfLedger(s, d) == {t \in ledger : SymbolOf[t] = s /\ DayOf[t] = d}

OwnTrades(s) == {t \in ledger : SymbolOf[t] = s}

Empty == [s \in Symbol |-> {}]

LedgerInit == ledger = {} /\ cache = Empty

\* New trades are stored.
Store ==
  /\ ledger' \in SUBSET Trade
  /\ ledger \subseteq ledger'
  /\ UNCHANGED cache

\* An entry is left alone, grown, or rebuilt for a day the ledger knows.
\* Around midnight that may be a day on which only other symbols have traded:
\* then the entry starts over.
Refreshed(s) ==
  \/ cache[s] \subseteq cache'[s]
  \/ \E d \in {DayOf[t] : t \in ledger} :
       DayOfLedger(s, d) \subseteq cache'[s]

\* Entries of some symbols are published.
Publish ==
  /\ UNCHANGED ledger
  /\ cache' \in [Symbol -> SUBSET ledger]
  /\ \A s \in Symbol : cache'[s] \subseteq OwnTrades(s) /\ Refreshed(s)

\* The cache restarts empty.
Evict ==
  /\ UNCHANGED ledger
  /\ cache' = Empty

LedgerNext == Store \/ Publish \/ Evict

LedgerSpec == LedgerInit /\ [][LedgerNext]_ledgerVars

=============================================================================

---------------------------- MODULE MCPriceAlerts ----------------------------
(* Values of PriceAlerts' and Accounts' constants for TLC. *)
EXTENDS PriceAlerts

\* Both addresses are typed as they are stored; Accounts' own run has more.
Lower == [s \in Spelling |-> s]

OneSymbol == [t \in Trade |-> "A"]

\* The price rises to 2 and falls back.
RiseAndFall == [t \in Trade |-> IF t = 2 THEN 2 ELSE 1]
Ts == [t \in Trade |-> t]

\* One alert that trade 2 crosses, one that trades 1 and 3 cross.
Wishes == {[symbol |-> "A", direction |-> "above", threshold |-> 2],
           [symbol |-> "A", direction |-> "below", threshold |-> 1]}

=============================================================================

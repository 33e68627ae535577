------------------------------ MODULE MCRollup ------------------------------
(* Values of Rollup's constants for TLC: small worlds of trades. *)
EXTENDS Rollup

OneSymbol == [t \in Trade |-> 1]

\* Trade 1 is of the first symbol, all others of the second.
TwoSymbols == [t \in Trade |-> IF t = 1 THEN 1 ELSE 2]

\* Trade t happens at tick t.
Ts == [t \in Trade |-> t]

\* Trades 3 and 4 happen at the same tick, so LIMIT may cut between them.
TsTie == [t \in Trade |-> IF t = 4 THEN 3 ELSE t]

=============================================================================

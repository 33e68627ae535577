------------------------------ MODULE MCStream ------------------------------
(***************************************************************************)
(* Instances of Stream for TLC.  A trade is a number, its timestamp is that*)
(* number; the instances differ in its symbol and its day.                 *)
(***************************************************************************)
EXTENDS Stream

Ts == [t \in Trade |-> t]

OneSymbol == [t \in Trade |-> "A"]

\* The oldest trade is the only one of the second symbol.
TwoSymbols == [t \in Trade |-> IF t = 1 THEN "B" ELSE "A"]

\* The newest trade is the only one of the second symbol.
NewestOther == [t \in Trade |-> IF t = MaxTs THEN "B" ELSE "A"]

\* Midnight falls after the oldest trade, before the newest, or not at all.
MidnightEarly == [t \in Trade |-> IF t = 1 THEN 1 ELSE 2]
MidnightLate == [t \in Trade |-> IF t = MaxTs THEN 2 ELSE 1]
OneDay == [t \in Trade |-> 1]

=============================================================================

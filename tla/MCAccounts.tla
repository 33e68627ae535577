----------------------------- MODULE MCAccounts -----------------------------
(* Values of Accounts' constants for TLC. *)
EXTENDS Accounts, TLC

CONSTANTS b1, b2

\* "Ada" and "Root" are spellings of "ada" and "root".
Lower == [s \in Spelling |-> CASE s = "Ada" -> "ada" [] s = "Root" -> "root"
                               [] OTHER -> s]

\* Nothing tells the two browsers apart.
Symmetry == Permutations({b1, b2})

=============================================================================

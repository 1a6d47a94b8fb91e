----------------------------- MODULE MCAccounts -----------------------------
(***************************************************************************)
(* Instances of Accounts for TLC.                                          *)
(***************************************************************************)
EXTENDS Accounts, TLC

CONSTANT Returning   \* an account that may log in after it has registered

LoginsAllowed == [u \in Users |-> IF u = Returning THEN 2 ELSE 1]

OneEmail == [u \in Users |-> "a@example.org"]

Symmetric == Permutations(Handlers)
=============================================================================

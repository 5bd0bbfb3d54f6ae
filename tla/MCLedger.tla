------------------------------- MODULE MCLedger -------------------------------
(* A pending transaction and those that replace it, over interchangeable      *)
(* accounts.                                                                  *)
EXTENDS Ledger

CONSTANT tPending

PredecessorOf == [t \in TxnIds |-> IF t = tPending THEN NULL ELSE tPending]
Interchangeable == Permutations(AccountIds) \cup Permutations(TxnIds \ {tPending})
===============================================================================

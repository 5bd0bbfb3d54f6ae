------------------------------ MODULE MCItemSync ------------------------------
(* Two concurrent calls of SyncItem, interchangeable. *)
EXTENDS ItemSync, TLC

SyncerSymmetry == Permutations(Syncers)
===============================================================================

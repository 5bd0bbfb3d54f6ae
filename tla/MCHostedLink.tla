----------------------------- MODULE MCHostedLink -----------------------------
(* Link tokens and polls are interchangeable. *)
EXTENDS HostedLink, TLC

Interchangeable == Permutations(Tokens) \cup Permutations(Polls)
=============================================================================

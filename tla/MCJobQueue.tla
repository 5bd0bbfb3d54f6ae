------------------------------ MODULE MCJobQueue ------------------------------
(* Interchangeable items, jobs and workers. *)
EXTENDS JobQueue, TLC

Interchangeable == Permutations(Items) \cup Permutations(JobIds) \cup Permutations(Workers)
===============================================================================

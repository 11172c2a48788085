---------------------------- MODULE MCScheduler -----------------------------
(* Scheduler with interchangeable pool threads and jobs, for safety runs.  *)
EXTENDS Scheduler

Symmetry == Permutations(Workers) \cup Permutations(Jobs)
=============================================================================

---------------------------- MODULE MCIOManager -----------------------------
(* Instances of IOManager for TLC: the jobs are the fibers and the callbacks *)
(* of their sleeps.                                                          *)
EXTENDS IOManager, TLC

MCJobs == Fibers \cup (Fibers \X (1..MaxYields))

\* Threads are interchangeable.  So are fibers, but their names are part of
\* those of the callbacks: only threads are permuted.
Symmetry == Permutations(Workers)
=============================================================================

---------------------------- MODULE MCDatabaseJobs ---------------------------
(* DatabaseJobs for TLC: the I/O threads are interchangeable.               *)
EXTENDS DatabaseJobs, TLC

Symmetry == Permutations(IOThread)
=============================================================================

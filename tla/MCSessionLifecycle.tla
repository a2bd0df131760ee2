-------------------------- MODULE MCSessionLifecycle -------------------------
(* SessionLifecycle for TLC: the sessions are interchangeable, and so are   *)
(* the threads.                                                             *)
EXTENDS SessionLifecycle, TLC

Symmetry == Permutations(Session) \union Permutations(IOThread)
=============================================================================

------------------------- MODULE ReadersWriterLock --------------------------
(***************************************************************************)
(* What a lock with an exclusive and a shared mode promises: any number of *)
(* holders in shared mode, or one holder in exclusive mode.                *)
(***************************************************************************)
CONSTANT Thread

VARIABLES exclusive, shared      \* the threads that hold the lock

Init == exclusive = {} /\ shared = {}

AcquireExclusive(t) ==
  /\ exclusive = {} /\ shared = {}
  /\ exclusive' = {t} /\ UNCHANGED shared

AcquireShared(t) ==
  /\ exclusive = {} /\ t \notin shared
  /\ shared' = shared \union {t} /\ UNCHANGED exclusive

Release(t) ==
  /\ t \in exclusive \union shared
  /\ exclusive' = exclusive \ {t} /\ shared' = shared \ {t}

Next == \E t \in Thread : AcquireExclusive(t) \/ AcquireShared(t) \/ Release(t)

Spec == Init /\ [][Next]_<<exclusive, shared>>
=============================================================================

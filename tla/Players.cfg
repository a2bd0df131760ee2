\* Two players, two threads; the clock stops and the accepts end.
CONSTANTS
  IOThread = {t1, t2}
  Session = {s1, s2}
  None = None
  MAX_LOCK_DEPTH = 32
  StartDelay = 1
  HeartBeat = 1
  MaxTick = 2
  MaxAccepts = 2
SPECIFICATION Spec
INVARIANTS
  TypeOK
  OnlyDanglingFails
  PopsWhatItRan
  AliveIsRegistered
  NoDeadlock
CHECK_DEADLOCK FALSE

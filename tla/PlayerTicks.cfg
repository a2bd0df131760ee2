\* One player, accepted twice.
CONSTANTS
  IOThread = {t1, t2}
  Session = {s1}
  None = None
  MAX_LOCK_DEPTH = 32
  StartDelay = 1
  HeartBeat = 2
  MaxTick = 4
  MaxAccepts = 2
SPECIFICATION Spec
INVARIANT
  OneTickChain
CHECK_DEADLOCK FALSE

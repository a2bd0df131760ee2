\* Three threads, and more tasks than threads: a thread can dispatch again
\* while the executer is between its decrement and its return.
CONSTANTS
  IOThread = {t1, t2, t3}
  Task = {x1, x2, x3, x4}
  None = None
SPECIFICATION FairSpec
INVARIANTS
  TypeOK
  OneExecuter
  CountExact
PROPERTY
  DispatchedIsExecuted
\* When all tasks have been dispatched nothing is left to do.
CHECK_DEADLOCK FALSE

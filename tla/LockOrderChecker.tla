-------------------------- MODULE LockOrderChecker --------------------------
(***************************************************************************)
(* LockOrderChecker of Homework4, as the locks with an order call it:      *)
(* EnterLock of FastSpinlock pushes the lock on the stack of the thread    *)
(* before it waits for it, LeaveLock pops it after it has released it.     *)
(* Both are CRASH_ASSERTs: the program ends at the first one that fails.   *)
(* Readers and writers push and pop alike; what they exclude is the        *)
(* subject of FastSpinlock, here every lock has one holder.                *)
(***************************************************************************)
EXTENDS Integers, Sequences

CONSTANTS IOThread,
          Session,
          None,
          MAX_LOCK_DEPTH

ASSUME LockAssumption == None \notin Session /\ MAX_LOCK_DEPTH \in Nat

LO_FIRST_CLASS == 1
LO_BUSINESS_CLASS == 2
LO_ECONOMLY_CLASS == 3
LO_LUGGAGE_CLASS == 4
LockOrder == LO_FIRST_CLASS .. LO_LUGGAGE_CLASS

\* A lock and the session it belongs to; None for the lock of a manager.
Lock == [mLockOrder : LockOrder, of : Session \union {None}]

VARIABLES mLockStack,      \* of each thread, with the lock it waits for
          waiting,         \* threads that spin in EnterWriteLock or EnterReadLock
          failed           \* an assertion has ended the program

lockVars == <<mLockStack, waiting, failed>>

LockInit ==
  /\ mLockStack = [t \in IOThread |-> << >>]
  /\ waiting = {} /\ failed = FALSE

LastLock(t) == mLockStack[t][Len(mLockStack[t])]

\* The two assertions of Push.
MayPush(t, l) ==
  /\ Len(mLockStack[t]) < MAX_LOCK_DEPTH
  /\ mLockStack[t] # << >> => LastLock(t).mLockOrder < l.mLockOrder

\* EnterWriteLock or EnterReadLock up to the spinning: Push.
EnterLock(t, l) ==
  /\ ~failed /\ t \notin waiting
  /\ IF MayPush(t, l)
     THEN /\ mLockStack' = [mLockStack EXCEPT ![t] = Append(@, l)]
          /\ waiting' = waiting \union {t}
          /\ UNCHANGED failed
     ELSE failed' = TRUE /\ UNCHANGED <<mLockStack, waiting>>

\* The locks a thread has entered.
Holds(t, l) ==
  \E i \in 1 .. Len(mLockStack[t]) :
     mLockStack[t][i] = l /\ ~(t \in waiting /\ i = Len(mLockStack[t]))

\* The end of the spinning.
Acquire(t) ==
  /\ ~failed /\ t \in waiting
  /\ \A u \in IOThread \ {t} : ~Holds(u, LastLock(t))
  /\ waiting' = waiting \ {t}
  /\ UNCHANGED <<mLockStack, failed>>

\* The two assertions of Pop.
MayPop(t, l) == mLockStack[t] # << >> /\ LastLock(t) = l

\* LeaveWriteLock or LeaveReadLock: release and Pop.
LeaveLock(t, l) ==
  /\ ~failed /\ t \notin waiting
  /\ IF MayPop(t, l)
     THEN /\ mLockStack' = [mLockStack EXCEPT ![t] = SubSeq(@, 1, Len(@) - 1)]
          /\ UNCHANGED failed
     ELSE failed' = TRUE /\ UNCHANGED mLockStack
  /\ UNCHANGED waiting

\* Any program that uses the locks.
LockNext ==
  \E t \in IOThread : Acquire(t) \/ \E l \in Lock : EnterLock(t, l) \/ LeaveLock(t, l)

LockSpec == LockInit /\ [][LockNext]_lockVars

-----------------------------------------------------------------------------
LockTypeOK ==
  /\ mLockStack \in [IOThread -> Seq(Lock)]
  /\ waiting \in SUBSET IOThread
  /\ failed \in BOOLEAN

\* What the checker promises to every program: as long as its assertions hold,
\* no threads wait for each other in a circle.
NoCircle ==
  \A C \in (SUBSET IOThread) \ {{}} :
     \E t \in C : ~(t \in waiting /\ \E u \in C : Holds(u, LastLock(t)))
=============================================================================

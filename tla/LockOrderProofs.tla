--------------------------- MODULE LockOrderProofs ---------------------------
(***************************************************************************)
(* The argument behind the lock-order checker: every thread holds locks of *)
(* increasing classes, the one it waits for being the highest.  In a       *)
(* circle of waiting threads each would wait for a higher class than the   *)
(* one before it, and there are only four classes.                         *)
(***************************************************************************)
EXTENDS LockOrderChecker, SequenceTheorems, TLAPS

\* The stack of a thread grows upwards in class, and a waiting thread has the
\* lock it waits for on top.
Increasing ==
  /\ \A t \in IOThread : \A i, j \in 1 .. Len(mLockStack[t]) :
        i < j => mLockStack[t][i].mLockOrder < mLockStack[t][j].mLockOrder
  /\ \A t \in waiting : mLockStack[t] # << >>

OrderInv == LockTypeOK /\ Increasing

LEMMA PushStep ==
  ASSUME OrderInv, NEW t \in IOThread, NEW l \in Lock, EnterLock(t, l)
  PROVE  OrderInv'
<1> USE DEF OrderInv, LockTypeOK
<1>1. CASE MayPush(t, l)
  <2> DEFINE old == mLockStack[t]
             new == Append(old, l)
  <2>1. mLockStack' = [mLockStack EXCEPT ![t] = new] /\ waiting' = waiting \union {t}
        /\ failed' = failed
    BY <1>1 DEF EnterLock
  <2>2. old \in Seq(Lock)
    OBVIOUS
  <2>3. new \in Seq(Lock) /\ Len(new) = Len(old) + 1 /\ new # << >> /\ new[Len(old) + 1] = l
        /\ \A i \in 1 .. Len(old) : new[i] = old[i]
    BY <2>2, AppendProperties
  <2> HIDE DEF new
  <2>4. LockTypeOK'
    BY <2>1, <2>3
  <2>5. \A i \in 1 .. Len(old) : old[i].mLockOrder < l.mLockOrder
    <3> SUFFICES ASSUME NEW i \in 1 .. Len(old)
                 PROVE  old[i].mLockOrder < l.mLockOrder
      OBVIOUS
    <3>1. old[i] \in Lock /\ old[Len(old)] \in Lock /\ Len(old) \in 1 .. Len(old)
      BY <2>2, ElementOfSeq
    <3>2. old # << >>
      BY <2>2
    <3>3. old[Len(old)].mLockOrder < l.mLockOrder
      BY <1>1, <3>2 DEF MayPush, LastLock
    <3>4. CASE i = Len(old)
      BY <3>3, <3>4
    <3>5. CASE i < Len(old)
      <4>1. old[i].mLockOrder < old[Len(old)].mLockOrder
        BY <3>1, <3>5 DEF Increasing
      <4> QED
        BY <3>1, <3>3, <4>1 DEF Lock, LockOrder, LO_FIRST_CLASS, LO_LUGGAGE_CLASS
    <3> QED
      BY <2>2, <3>4, <3>5, LenProperties
  <2>6. \A i, j \in 1 .. Len(new) : i < j => new[i].mLockOrder < new[j].mLockOrder
    <3> SUFFICES ASSUME NEW i \in 1 .. Len(new), NEW j \in 1 .. Len(new), i < j
                 PROVE  new[i].mLockOrder < new[j].mLockOrder
      OBVIOUS
    <3>0. Len(old) \in Nat
      BY <2>2, LenProperties
    <3>1. i \in 1 .. Len(old) /\ new[i] = old[i]
      BY <2>3, <3>0
    <3>2. CASE j = Len(old) + 1
      BY <2>3, <2>5, <3>1, <3>2
    <3>3. CASE j \in 1 .. Len(old)
      <4>1. old[i].mLockOrder < old[j].mLockOrder
        BY <3>1, <3>3 DEF Increasing
      <4> QED
        BY <2>3, <3>1, <3>3, <4>1
    <3> QED
      BY <2>3, <3>0, <3>2, <3>3
  <2>7. Increasing'
    BY <2>1, <2>3, <2>6 DEF Increasing
  <2> QED
    BY <2>4, <2>7
<1>2. CASE ~MayPush(t, l)
  BY <1>2 DEF EnterLock, Increasing
<1> QED
  BY <1>1, <1>2

LEMMA WithoutLast ==
  ASSUME NEW S, NEW q \in Seq(S), q # << >>
  PROVE  /\ SubSeq(q, 1, Len(q) - 1) \in Seq(S)
         /\ Len(SubSeq(q, 1, Len(q) - 1)) = Len(q) - 1
         /\ \A i \in 1 .. Len(SubSeq(q, 1, Len(q) - 1)) : SubSeq(q, 1, Len(q) - 1)[i] = q[i]
<1>1. Len(q) \in Nat \ {0}
  BY EmptySeq
<1>2. \A i \in 1 .. Len(q) : q[i] \in S
  BY ElementOfSeq
<1> DEFINE n == Len(q) - 1
<1>3. n \in Nat /\ \A i \in 1 .. n : q[i] \in S
  BY <1>1, <1>2
<1> HIDE DEF n
<1>4. /\ SubSeq(q, 1, n) \in Seq(S)
      /\ Len(SubSeq(q, 1, n)) = IF 1 <= n THEN n - 1 + 1 ELSE 0
      /\ \A i \in 1 .. n - 1 + 1 : SubSeq(q, 1, n)[i] = q[1 + i - 1]
  BY <1>3, SubSeqProperties
<1>5. Len(SubSeq(q, 1, n)) = n
  BY <1>3, <1>4
<1>6. \A i \in 1 .. n : SubSeq(q, 1, n)[i] = q[i]
  BY <1>3, <1>4
<1> QED
  BY <1>4, <1>5, <1>6 DEF n

LEMMA PopStep ==
  ASSUME OrderInv, NEW t \in IOThread, NEW l \in Lock, LeaveLock(t, l)
  PROVE  OrderInv'
<1> USE DEF OrderInv, LockTypeOK
<1>1. CASE MayPop(t, l)
  <2> DEFINE old == mLockStack[t]
             new == SubSeq(old, 1, Len(old) - 1)
  <2>1. /\ mLockStack' = [mLockStack EXCEPT ![t] = new]
        /\ waiting' = waiting /\ failed' = failed /\ t \notin waiting
    BY <1>1 DEF LeaveLock
  <2>2. old \in Seq(Lock) /\ Len(old) \in Nat /\ old # << >>
    BY <1>1, LenProperties DEF MayPop
  <2>3. new \in Seq(Lock) /\ Len(new) = Len(old) - 1
        /\ \A i \in 1 .. Len(new) : new[i] = old[i]
    BY <2>2, WithoutLast
  <2> HIDE DEF new
  <2>4. LockTypeOK'
    BY <2>1, <2>3
  <2>5. \A i, j \in 1 .. Len(new) : i < j => new[i].mLockOrder < new[j].mLockOrder
    <3> SUFFICES ASSUME NEW i \in 1 .. Len(new), NEW j \in 1 .. Len(new), i < j
                 PROVE  new[i].mLockOrder < new[j].mLockOrder
      OBVIOUS
    <3>1. i \in 1 .. Len(old) /\ j \in 1 .. Len(old)
      BY <2>2, <2>3
    <3>2. old[i].mLockOrder < old[j].mLockOrder
      BY <3>1 DEF Increasing
    <3> QED
      BY <2>3, <3>2
  <2>6. Increasing'
    BY <2>1, <2>5 DEF Increasing
  <2> QED
    BY <2>4, <2>6
<1>2. CASE ~MayPop(t, l)
  BY <1>2 DEF LeaveLock, Increasing
<1> QED
  BY <1>1, <1>2

\* What LockSpec keeps: the stacks grow in class.
THEOREM StacksIncrease == LockSpec => []OrderInv
<1>1. LockInit => OrderInv
  <2> SUFFICES ASSUME LockInit
               PROVE  OrderInv
    OBVIOUS
  <2>1. \A t \in IOThread : mLockStack[t] = << >> /\ Len(mLockStack[t]) = 0
    BY DEF LockInit
  <2>2. LockTypeOK
    BY EmptySeq DEF LockInit, LockTypeOK
  <2>3. Increasing
    BY <2>1 DEF LockInit, Increasing
  <2> QED
    BY <2>2, <2>3 DEF OrderInv
<1>2. OrderInv /\ [LockNext]_lockVars => OrderInv'
  <2> SUFFICES ASSUME OrderInv, [LockNext]_lockVars
               PROVE  OrderInv'
    OBVIOUS
  <2>1. ASSUME NEW t \in IOThread, Acquire(t)
        PROVE  OrderInv'
    BY <2>1 DEF Acquire, OrderInv, LockTypeOK, Increasing
  <2>2. CASE UNCHANGED lockVars
    BY <2>2 DEF lockVars, OrderInv, LockTypeOK, Increasing
  <2> QED
    BY <2>1, <2>2, PushStep, PopStep DEF LockNext
<1> QED
  BY <1>1, <1>2, PTL DEF LockSpec

\* A thread that waits for a lock another waiting thread holds: that one waits
\* for a higher class.
LEMMA WaitsHigher ==
  ASSUME OrderInv, NEW t \in waiting, NEW u \in waiting, Holds(u, LastLock(t))
  PROVE  /\ LastLock(t).mLockOrder \in LockOrder /\ LastLock(u).mLockOrder \in LockOrder
         /\ LastLock(t).mLockOrder < LastLock(u).mLockOrder
<1> USE DEF OrderInv, LockTypeOK
<1> DEFINE top == Len(mLockStack[u])
<1>1. mLockStack[t] \in Seq(Lock) /\ mLockStack[u] \in Seq(Lock)
      /\ mLockStack[t] # << >> /\ mLockStack[u] # << >>
  BY DEF Increasing
<1>2. LastLock(t) \in Lock /\ LastLock(u) \in Lock /\ top \in 1 .. top
  BY <1>1, ElementOfSeq, LenProperties, EmptySeq DEF LastLock
<1>3. PICK i \in 1 .. top : mLockStack[u][i] = LastLock(t) /\ i # top
  BY DEF Holds
<1>4. i < top
  BY <1>2, <1>3
<1>5. mLockStack[u][i].mLockOrder < mLockStack[u][top].mLockOrder
  BY <1>2, <1>3, <1>4 DEF Increasing
<1> QED
  BY <1>2, <1>3, <1>5 DEF Lock, LastLock

\* Deadlock freedom of the locks with an order (LockOrderChecker::Push): as long
\* as its assertions hold, no set of threads waits in a circle.
THEOREM NoCircularWait == LockSpec => []NoCircle
<1>1. OrderInv => NoCircle
  <2> SUFFICES ASSUME OrderInv, NEW C \in SUBSET IOThread, C # {},
                      \A t \in C : t \in waiting /\ \E u \in C : Holds(u, LastLock(t))
               PROVE  FALSE
    BY DEF NoCircle
  <2> DEFINE Class(t) == LastLock(t).mLockOrder
  <2>1. \A t \in C : \E u \in C : Class(t) \in 1 .. 4 /\ Class(u) \in 1 .. 4 /\ Class(t) < Class(u)
    BY WaitsHigher DEF LockOrder, LO_FIRST_CLASS, LO_LUGGAGE_CLASS
  <2> HIDE DEF Class
  <2>2. PICK t1 \in C : TRUE
    OBVIOUS
  <2>3. PICK t2 \in C : Class(t1) \in 1 .. 4 /\ Class(t2) \in 1 .. 4 /\ Class(t1) < Class(t2)
    BY <2>1, <2>2
  <2>4. PICK t3 \in C : Class(t3) \in 1 .. 4 /\ Class(t2) < Class(t3)
    BY <2>1, <2>3
  <2>5. PICK t4 \in C : Class(t4) \in 1 .. 4 /\ Class(t3) < Class(t4)
    BY <2>1, <2>4
  <2>6. PICK t5 \in C : Class(t5) \in 1 .. 4 /\ Class(t4) < Class(t5)
    BY <2>1, <2>5
  <2> QED
    BY <2>3, <2>4, <2>5, <2>6
<1> QED
  BY <1>1, StacksIncrease, PTL
=============================================================================

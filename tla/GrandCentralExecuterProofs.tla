--------------------- MODULE GrandCentralExecuterProofs ---------------------
(***************************************************************************)
(* GrandCentralExecuter runs one task at a time, for any number of threads *)
(* and tasks.  OneExecuter carries the reason with it: whoever executes    *)
(* has not yet brought the counter to 0, so no increment returns 1.        *)
(***************************************************************************)
EXTENDS GrandCentralExecuter, FiniteSetTheorems, SequenceTheorems, TLAPS

LEMMA TypeAndExecuterStep ==
  ASSUME TypeOK, OneExecuter, [Next]_vars
  PROVE  TypeOK' /\ OneExecuter'
<1> USE DEF TypeOK, Label, Goto, Executing
<1>1. ASSUME NEW t \in IOThread, NEW x \in Task, DoDispatch(t, x)
      PROVE  TypeOK' /\ OneExecuter'
  <2>1. TypeOK'
    BY <1>1, NoneAssumption DEF DoDispatch
  <2>2. OneExecuter'
    <3>1. CASE mRemainTaskCount + 1 > 1
      BY <1>1, <3>1 DEF DoDispatch, OneExecuter
    <3>2. CASE mRemainTaskCount = 0
      <4>1. \A u \in IOThread : ~Executing(u)
        BY <3>2 DEF OneExecuter
      <4> QED
        BY <1>1, <3>2, <4>1 DEF DoDispatch, OneExecuter
    <3> QED
      BY <3>1, <3>2
  <2> QED
    BY <2>1, <2>2
<1>2. ASSUME NEW t \in IOThread, Push(t)
      PROVE  TypeOK' /\ OneExecuter'
  <2>1. TypeOK'
    <3>1. task[t] \in Task
      BY <1>2 DEF Push
    <3>2. mCentralTaskQueue' \in Seq(Task)
      BY <1>2, <3>1 DEF Push
    <3> QED
      BY <1>2, <3>2 DEF Push
  <2>2. OneExecuter'
    BY <1>2 DEF Push, OneExecuter
  <2> QED
    BY <2>1, <2>2
<1>3. ASSUME NEW t \in IOThread, TryPop(t)
      PROVE  TypeOK' /\ OneExecuter'
  <2>1. TypeOK'
    <3>1. Head(mCentralTaskQueue) \in Task /\ Tail(mCentralTaskQueue) \in Seq(Task)
      BY <1>3 DEF TryPop
    <3> QED
      BY <1>3, <3>1, NoneAssumption DEF TryPop
  <2>2. OneExecuter'
    BY <1>3 DEF TryPop, OneExecuter
  <2> QED
    BY <2>1, <2>2
<1>4. ASSUME NEW t \in IOThread, TaskReturns(t)
      PROVE  TypeOK' /\ OneExecuter'
  <2>1. TypeOK'
    BY <1>4 DEF TaskReturns
  <2>2. OneExecuter'
    BY <1>4 DEF TaskReturns, OneExecuter
  <2> QED
    BY <2>1, <2>2
<1>5. ASSUME NEW t \in IOThread, Decrement(t)
      PROVE  TypeOK' /\ OneExecuter'
  <2>1. mRemainTaskCount > 0 /\ \A u \in IOThread : Executing(u) => u = t
    BY <1>5 DEF Decrement, OneExecuter
  <2>2. TypeOK'
    BY <1>5, <2>1 DEF Decrement
  <2>3. OneExecuter'
    BY <1>5, <2>1 DEF Decrement, OneExecuter
  <2> QED
    BY <2>2, <2>3
<1>6. CASE UNCHANGED vars
  BY <1>6 DEF vars, OneExecuter
<1> QED
  BY <1>1, <1>2, <1>3, <1>4, <1>5, <1>6 DEF Next, Continue

\* A state satisfies the type invariant and has at most one executer, which
\* holds the counter above 0, in every behaviour of DoDispatch.
THEOREM SingleExecuter == Spec => [](TypeOK /\ OneExecuter)
<1>1. Init => TypeOK /\ OneExecuter
  BY DEF Init, TypeOK, OneExecuter, Executing, Label
<1>2. TypeOK /\ OneExecuter /\ [Next]_vars => TypeOK' /\ OneExecuter'
  BY TypeAndExecuterStep
<1> QED
  BY <1>1, <1>2, PTL DEF Spec

\* Only counted tasks are in the queue, and a thread has a task exactly between
\* its DoDispatch or try_pop and the end of what it does with it.
THEOREM ExecuterTypeOK == Spec => []TypeOK
<1>1. TypeOK /\ OneExecuter => TypeOK
  OBVIOUS
<1> QED
  BY <1>1, SingleExecuter, PTL

-----------------------------------------------------------------------------
\* One thread joins or leaves a set of threads.
LEMMA ThreadCount ==
  ASSUME NEW S \in SUBSET IOThread, NEW t \in IOThread
  PROVE  /\ Cardinality(S) \in Nat
         /\ t \notin S => Cardinality(S \union {t}) = Cardinality(S) + 1
         /\ t \in S => Cardinality(S \ {t}) = Cardinality(S) - 1
<1>1. IsFiniteSet(S)
  BY ThreadAssumption, FS_Subset
<1> QED
  BY <1>1, FS_CardinalityType, FS_AddElement, FS_RemoveElement

LEMMA CountStep ==
  ASSUME TypeOK, CountExact, [Next]_vars
  PROVE  CountExact'
<1> DEFINE p == Cardinality(Pushing)
           r == Cardinality(Running)
           q == Len(mCentralTaskQueue)
<1>1. Pushing \in SUBSET IOThread /\ Running \in SUBSET IOThread
  BY DEF Pushing, Running
<1>2. ASSUME NEW t \in IOThread
      PROVE  /\ p \in Nat /\ r \in Nat /\ q \in Nat
             /\ t \notin Pushing => Cardinality(Pushing \union {t}) = p + 1
             /\ t \in Pushing => Cardinality(Pushing \ {t}) = p - 1
             /\ t \notin Running => Cardinality(Running \union {t}) = r + 1
             /\ t \in Running => Cardinality(Running \ {t}) = r - 1
  <2>1. q \in Nat
    BY DEF TypeOK
  <2> QED
    BY <1>1, <2>1, ThreadCount, Zenon
<1>3. mRemainTaskCount \in Nat /\ mRemainTaskCount = q + p + r
  BY DEF TypeOK, CountExact
<1> SUFFICES mRemainTaskCount' = q' + p' + r'
  BY DEF CountExact
<1> USE DEF TypeOK, Label, Goto
<1>4. ASSUME NEW t \in IOThread, NEW x \in Task, DoDispatch(t, x)
      PROVE  mRemainTaskCount' = q' + p' + r'
  <2>1. t \notin Pushing /\ Pushing' = Pushing \union {t} /\ Running' = Running
    BY <1>4 DEF DoDispatch, Pushing, Running
  <2>2. q' = q /\ mRemainTaskCount' = mRemainTaskCount + 1
    BY <1>4 DEF DoDispatch
  <2>3. p' = p + 1 /\ r' = r
    BY <1>2, <2>1, Zenon
  <2>4. p \in Nat /\ r \in Nat /\ q \in Nat
    BY <1>2
  <2> HIDE DEF p, q, r
  <2> QED
    BY <1>3, <2>2, <2>3, <2>4
<1>5. ASSUME NEW t \in IOThread, Push(t)
      PROVE  mRemainTaskCount' = q' + p' + r'
  <2>1. t \in Pushing /\ Pushing' = Pushing \ {t} /\ Running' = Running
    BY <1>5 DEF Push, Pushing, Running
  <2>2. q' = q + 1 /\ mRemainTaskCount' = mRemainTaskCount
    <3>1. task[t] \in Task
      BY <1>5 DEF Push
    <3> QED
      BY <1>5, <3>1 DEF Push
  <2>3. p' = p - 1 /\ r' = r
    BY <1>2, <2>1, Zenon
  <2>4. p \in Nat /\ r \in Nat /\ q \in Nat
    BY <1>2
  <2> HIDE DEF p, q, r
  <2> QED
    BY <1>3, <2>2, <2>3, <2>4
<1>6. ASSUME NEW t \in IOThread, TryPop(t)
      PROVE  mRemainTaskCount' = q' + p' + r'
  <2>1. t \notin Running /\ Running' = Running \union {t} /\ Pushing' = Pushing
    BY <1>6 DEF TryPop, Pushing, Running
  <2>2. q' = q - 1 /\ mRemainTaskCount' = mRemainTaskCount
    BY <1>6 DEF TryPop
  <2>3. r' = r + 1 /\ p' = p
    BY <1>2, <2>1, Zenon
  <2>4. p \in Nat /\ r \in Nat /\ q \in Nat
    BY <1>2
  <2> HIDE DEF p, q, r
  <2> QED
    BY <1>3, <2>2, <2>3, <2>4
<1>7. ASSUME NEW t \in IOThread, TaskReturns(t)
      PROVE  mRemainTaskCount' = q' + p' + r'
  <2>1. Running' = Running /\ Pushing' = Pushing
    BY <1>7 DEF TaskReturns, Pushing, Running
  <2>2. q' = q /\ mRemainTaskCount' = mRemainTaskCount
    BY <1>7 DEF TaskReturns
  <2>3. p' = p /\ r' = r
    BY <1>2, <2>1, Zenon
  <2>4. p \in Nat /\ r \in Nat /\ q \in Nat
    BY <1>2
  <2> HIDE DEF p, q, r
  <2> QED
    BY <1>3, <2>2, <2>3, <2>4
<1>8. ASSUME NEW t \in IOThread, Decrement(t)
      PROVE  mRemainTaskCount' = q' + p' + r'
  <2>1. t \in Running /\ Running' = Running \ {t} /\ Pushing' = Pushing
    BY <1>8 DEF Decrement, Pushing, Running
  <2>2. q' = q /\ mRemainTaskCount' = mRemainTaskCount - 1
    BY <1>8 DEF Decrement
  <2>3. r' = r - 1 /\ p' = p
    BY <1>2, <2>1, Zenon
  <2>4. p \in Nat /\ r \in Nat /\ q \in Nat
    BY <1>2
  <2> HIDE DEF p, q, r
  <2> QED
    BY <1>3, <2>2, <2>3, <2>4
<1>9. CASE UNCHANGED vars
  BY <1>3, <1>9 DEF vars, Pushing, Running
<1> QED
  BY <1>4, <1>5, <1>6, <1>7, <1>8, <1>9 DEF Next, Continue

\* mRemainTaskCount is at every moment the number of tasks that are counted
\* but not finished, so DoDispatch neither leaves a task behind nor waits for
\* one that nobody pushes.
THEOREM CounterIsExact == Spec => []CountExact
<1>1. Init => CountExact
  <2> SUFFICES ASSUME Init PROVE CountExact
    OBVIOUS
  <2>1. Pushing = {} /\ Running = {}
    BY DEF Init, Pushing, Running
  <2>2. Cardinality(Pushing) = 0 /\ Cardinality(Running) = 0
    BY <2>1, FS_EmptySet
  <2> QED
    BY <2>2 DEF Init, CountExact
<1>2. TypeOK /\ CountExact /\ [Next]_vars => CountExact'
  BY CountStep
<1> QED
  BY <1>1, <1>2, SingleExecuter, PTL DEF Spec
=============================================================================

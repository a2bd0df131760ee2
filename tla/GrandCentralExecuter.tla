------------------------ MODULE GrandCentralExecuter ------------------------
(***************************************************************************)
(* GrandCentralExecuter of Homework4: a thread that dispatches a task      *)
(* counts it in mRemainTaskCount and pushes it; the thread whose increment *)
(* finds the counter at 0 becomes the executer and runs the tasks of all   *)
(* threads until its decrement reaches 0.  Increment, push, try_pop, the   *)
(* task and the decrement are steps of their own.  The tasks of this       *)
(* program (AllPlayerBuffEvent, AllPlayerBuffDecay) dispatch no task.      *)
(***************************************************************************)
EXTENDS Integers, Sequences, FiniteSets

CONSTANTS IOThread,
          Task,          \* the std::function objects, each dispatched once
          None

ASSUME ThreadAssumption == IsFiniteSet(IOThread)
ASSUME NoneAssumption == None \notin Task

VARIABLES mRemainTaskCount, mCentralTaskQueue,
          pc,
          task,          \* the task a thread is dispatching or running
          dispatched,    \* history: tasks for which DoDispatch was called
          executed       \* history: tasks that have returned

vars == <<mRemainTaskCount, mCentralTaskQueue, pc, task, dispatched, executed>>

Label == {"outside", "push", "pushfirst", "pop", "run", "dec"}

Init ==
  /\ mRemainTaskCount = 0 /\ mCentralTaskQueue = << >>
  /\ pc = [t \in IOThread |-> "outside"]
  /\ task = [t \in IOThread |-> None]
  /\ dispatched = {} /\ executed = {}

Goto(t, from, to) == pc[t] = from /\ pc' = [pc EXCEPT ![t] = to]

\* Mutant: the executer is the thread that finds the queue empty.
DoDispatchIfEmpty(t, x) ==
  /\ x \notin dispatched
  /\ mRemainTaskCount' = mRemainTaskCount + 1
  /\ Goto(t, "outside", IF mCentralTaskQueue # << >> THEN "push" ELSE "pushfirst")
  /\ task' = [task EXCEPT ![t] = x]
  /\ dispatched' = dispatched \union {x}
  /\ UNCHANGED <<mCentralTaskQueue, executed>>

\* GCEDispatch and DoDispatch up to the increment.
DoDispatch(t, x) ==
  /\ x \notin dispatched
  /\ mRemainTaskCount' = mRemainTaskCount + 1
  /\ Goto(t, "outside", IF mRemainTaskCount + 1 > 1 THEN "push" ELSE "pushfirst")
  /\ task' = [task EXCEPT ![t] = x]
  /\ dispatched' = dispatched \union {x}
  /\ UNCHANGED <<mCentralTaskQueue, executed>>

\* mCentralTaskQueue.push(task), in both branches.
Push(t) ==
  /\ \/ Goto(t, "push", "outside")
     \/ Goto(t, "pushfirst", "pop")
  /\ mCentralTaskQueue' = Append(mCentralTaskQueue, task[t])
  /\ task' = [task EXCEPT ![t] = None]
  /\ UNCHANGED <<mRemainTaskCount, dispatched, executed>>

\* A try_pop that finds a task; one that finds none changes nothing and is
\* tried again.
TryPop(t) ==
  /\ mCentralTaskQueue # << >>
  /\ Goto(t, "pop", "run")
  /\ task' = [task EXCEPT ![t] = Head(mCentralTaskQueue)]
  /\ mCentralTaskQueue' = Tail(mCentralTaskQueue)
  /\ UNCHANGED <<mRemainTaskCount, dispatched, executed>>

\* task() returns.
TaskReturns(t) ==
  /\ Goto(t, "run", "dec")
  /\ executed' = executed \union {task[t]}
  /\ UNCHANGED <<mRemainTaskCount, mCentralTaskQueue, task, dispatched>>

\* Mutant: the loop ends when the queue looks empty.
DecrementUntilEmpty(t) ==
  /\ mRemainTaskCount' = mRemainTaskCount - 1
  /\ Goto(t, "dec", IF mCentralTaskQueue = << >> THEN "outside" ELSE "pop")
  /\ task' = [task EXCEPT ![t] = None]
  /\ UNCHANGED <<mCentralTaskQueue, dispatched, executed>>

\* Mutant: the test of the counter decrements it a second time.
DecrementTwice(t) ==
  /\ mRemainTaskCount' = mRemainTaskCount - 2
  /\ Goto(t, "dec", IF mRemainTaskCount - 2 <= 0 THEN "outside" ELSE "pop")
  /\ task' = [task EXCEPT ![t] = None]
  /\ UNCHANGED <<mCentralTaskQueue, dispatched, executed>>

\* The decrement; the executer leaves when it reaches 0.
Decrement(t) ==
  /\ mRemainTaskCount' = mRemainTaskCount - 1
  /\ Goto(t, "dec", IF mRemainTaskCount - 1 = 0 THEN "outside" ELSE "pop")
  /\ task' = [task EXCEPT ![t] = None]
  /\ UNCHANGED <<mCentralTaskQueue, dispatched, executed>>

Continue(t) == Push(t) \/ TryPop(t) \/ TaskReturns(t) \/ Decrement(t)

Next ==
  \E t \in IOThread : Continue(t) \/ \E x \in Task : DoDispatch(t, x)

Spec == Init /\ [][Next]_vars

\* A thread inside DoDispatch keeps running, and tasks return.
FairSpec == Spec /\ \A t \in IOThread : WF_vars(Continue(t))

-----------------------------------------------------------------------------
TypeOK ==
  /\ mRemainTaskCount \in Nat
  /\ mCentralTaskQueue \in Seq(Task)
  /\ pc \in [IOThread -> Label]
  /\ task \in [IOThread -> Task \union {None}]
  /\ \A t \in IOThread : task[t] = None <=> pc[t] \in {"outside", "pop"}
  /\ dispatched \in SUBSET Task /\ executed \in SUBSET Task

Executing(t) == pc[t] \in {"pushfirst", "pop", "run", "dec"}

\* The tasks of all threads are run by one thread at a time: what they share
\* (the buff lists of the players, which have no lock) needs no other
\* protection.  A thread takes over only after the counter has reached 0.
OneExecuter ==
  /\ \A t, u \in IOThread : Executing(t) /\ Executing(u) => t = u
  /\ \A t \in IOThread : Executing(t) => mRemainTaskCount > 0

Pushing == {t \in IOThread : pc[t] \in {"push", "pushfirst"}}
Running == {t \in IOThread : pc[t] \in {"run", "dec"}}

\* The counter is the number of tasks that have been dispatched and not yet
\* finished, wherever they are: so the executer neither leaves one behind nor
\* waits for one that nobody will push.
CountExact ==
  mRemainTaskCount = Len(mCentralTaskQueue) + Cardinality(Pushing) + Cardinality(Running)

\* A task that has been dispatched is run, without any other thread having to
\* dispatch again.
DispatchedIsExecuted == \A x \in Task : x \in dispatched ~> x \in executed
=============================================================================

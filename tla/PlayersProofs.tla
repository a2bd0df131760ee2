---------------------------- MODULE PlayersProofs ----------------------------
(***************************************************************************)
(* Proofs about Players, for any number of threads, players, accepts and   *)
(* ticks: the timer pops the job it ran, an alive player is registered,    *)
(* no assertion of the lock-order checker fails but through a dangling     *)
(* reference into a timer queue, and no threads wait for each other.       *)
(***************************************************************************)
EXTENDS Players, LockOrderProofs, FiniteSetTheorems

-----------------------------------------------------------------------------
(* The heap of a timer.                                                     *)

LEMMA PushedProperties ==
  ASSUME NEW q \in Seq(Job), NEW job \in Job
  PROVE  /\ Pushed(q, job) \in Seq(Job) /\ Len(Pushed(q, job)) = Len(q) + 1
         /\ q # << >> /\ ~(job.mExecutionTick < q[1].mExecutionTick) =>
              Pushed(q, job) # << >> /\ Pushed(q, job)[1] = q[1]
<1>1. CASE q # << >> /\ job.mExecutionTick < q[1].mExecutionTick
  <2>1. Pushed(q, job) = <<job>> \o q
    BY <1>1 DEF Pushed
  <2>2. <<job>> \in Seq(Job) /\ Len(<<job>>) = 1
    OBVIOUS
  <2> QED
    BY <1>1, <2>1, <2>2, ConcatProperties
<1>2. CASE ~(q # << >> /\ job.mExecutionTick < q[1].mExecutionTick)
  <2>1. Pushed(q, job) = Append(q, job)
    BY <1>2 DEF Pushed
  <2> QED
    BY <2>1, AppendProperties, LenProperties, EmptySeq
<1> QED
  BY <1>1, <1>2

LEMMA PoppedProperties ==
  ASSUME NEW q \in Seq(Job), q # << >>, NEW r \in Popped(q)
  PROVE  r \in Seq(Job) /\ Len(r) = Len(q) - 1
<1>1. Len(q) \in Nat \ {0} /\ \A i \in 1 .. Len(q) : q[i] \in Job
  BY LenProperties, EmptySeq, ElementOfSeq
<1>2. CASE Len(q) = 1
  BY <1>2 DEF Popped
<1>3. CASE Len(q) # 1
  <2>1. PICK i \in 2 .. Len(q) : r = <<q[i]>> \o SubSeq(q, 2, i - 1) \o SubSeq(q, i + 1, Len(q))
    BY <1>3 DEF Popped
  <2>2. <<q[i]>> \in Seq(Job) /\ Len(<<q[i]>>) = 1
    BY <1>1
  <2>3. SubSeq(q, 2, i - 1) \in Seq(Job) /\ Len(SubSeq(q, 2, i - 1)) = i - 2
    <3>1. \A k \in 2 .. i - 1 : q[k] \in Job
      BY <1>1
    <3> QED
      BY <1>1, <3>1, SubSeqProperties
  <2>4. SubSeq(q, i + 1, Len(q)) \in Seq(Job) /\ Len(SubSeq(q, i + 1, Len(q))) = Len(q) - i
    <3>1. \A k \in i + 1 .. Len(q) : q[k] \in Job
      BY <1>1
    <3> QED
      BY <1>1, <3>1, SubSeqProperties
  <2>5. /\ <<q[i]>> \o SubSeq(q, 2, i - 1) \in Seq(Job)
        /\ Len(<<q[i]>> \o SubSeq(q, 2, i - 1)) = 1 + (i - 2)
    BY <2>2, <2>3, ConcatProperties
  <2> DEFINE a == <<q[i]>> \o SubSeq(q, 2, i - 1)
             b == SubSeq(q, i + 1, Len(q))
  <2> HIDE DEF a, b
  <2>6. a \o b \in Seq(Job) /\ Len(a \o b) = Len(a) + Len(b)
    BY <2>4, <2>5, ConcatProperties DEF a, b
  <2>7. Len(a) + Len(b) = Len(q) - 1
    <3>1. Len(a) = 1 + (i - 2) /\ Len(b) = Len(q) - i
      BY <2>4, <2>5 DEF a, b
    <3> QED
      BY <1>1, <3>1
  <2> QED
    BY <2>1, <2>6, <2>7 DEF a, b
<1> QED
  BY <1>2, <1>3

\* A thread that pushes a job into its own queue.
LEMMA PushStepProperties ==
  ASSUME PlayerTypeOK, NEW t \in IOThread, NEW s \in Session, NEW task \in {"Start", "OnTick"},
         NEW after \in Nat \ {0}, PushTimerJob(t, s, task, after)
  PROVE  /\ mTimerJobQueue' \in [IOThread -> Seq(Job)]
         /\ capacity' \in [IOThread -> Nat] /\ dangling' \in SUBSET IOThread
         /\ \A u \in IOThread \ {t} : mTimerJobQueue'[u] = mTimerJobQueue[u]
         /\ Len(mTimerJobQueue'[t]) = Len(mTimerJobQueue[t]) + 1
         /\ mTimerJobQueue[t] # << >> /\ mTimerJobQueue[t][1].mExecutionTick <= LTickCount[t] =>
              mTimerJobQueue'[t] # << >> /\ mTimerJobQueue'[t][1] = mTimerJobQueue[t][1]
<1> DEFINE job == [mOwner |-> s, mTask |-> task, mExecutionTick |-> after + LTickCount[t]]
           q == mTimerJobQueue[t]
<1>1. job \in Job /\ q \in Seq(Job) /\ LTickCount[t] \in Nat
  <2>1. LTickCount[t] \in 0 .. MaxTick /\ MaxTick \in Nat
    BY PlayersAssumption DEF PlayerTypeOK
  <2>2. LTickCount[t] \in Nat /\ after + LTickCount[t] \in Nat
    BY <2>1
  <2> QED
    BY <2>2 DEF PlayerTypeOK, Job
<1>2. mTimerJobQueue' = [mTimerJobQueue EXCEPT ![t] = Pushed(q, job)]
  BY DEF PushTimerJob
<1>3. capacity' \in [IOThread -> Nat] /\ dangling' \in SUBSET IOThread
  <2>1. Grown(capacity[t]) \in Nat
    BY DEF Grown, PlayerTypeOK
  <2> QED
    BY <2>1 DEF PushTimerJob, PlayerTypeOK
<1>4. job.mExecutionTick = after + LTickCount[t]
  OBVIOUS
<1> HIDE DEF job
<1>5. ASSUME q # << >>, q[1].mExecutionTick <= LTickCount[t]
      PROVE  ~(job.mExecutionTick < q[1].mExecutionTick)
  <2>1. q[1] \in Job
    BY <1>1, <1>5, ElementOfSeq, LenProperties, EmptySeq
  <2> QED
    BY <1>1, <1>4, <1>5, <2>1 DEF Job
<1> QED
  BY <1>1, <1>2, <1>3, <1>5, PushedProperties DEF PlayerTypeOK

-----------------------------------------------------------------------------
(* Timers and registration, whatever the locks do.                          *)


\* A thread that is not the executer becomes it when it finds no task counted;
\* the executer ends when its decrement has reached 0.
LEMMA ExecuterStep ==
  ASSUME JobInv, NEW t \in IOThread, Completion(t) \/ Continue(t)
  PROVE  ExecuterOK' /\ mRemainTaskCount' \in Nat
<1> USE DEF JobInv, PlayerTypeOK, ExecuterOK, Executing, Enter, Leave, Step, NextRound
<1>1. ASSUME NEW task \in {"buff", "decay"}, GCEDispatch(t, task)
      PROVE  ExecuterOK' /\ mRemainTaskCount' \in Nat
  <2>1. /\ pc[t] = task /\ mRemainTaskCount' = mRemainTaskCount + 1
        /\ \A u \in IOThread \ {t} : pc'[u] = pc[u]
        /\ mRemainTaskCount > 0 => pc'[t] \in {"decay", "rearm"}
    BY <1>1 DEF GCEDispatch, After
  <2>2. mRemainTaskCount \in Nat /\ mRemainTaskCount' \in Nat /\ mRemainTaskCount' > 0
    BY <2>1
  <2>3. CASE mRemainTaskCount > 0
    <3>1. Executing' \subseteq Executing
      BY <2>1, <2>3
    <3> QED
      BY <2>2, <3>1
  <2>4. CASE mRemainTaskCount = 0
    <3>1. Executing' \subseteq {t}
      BY <2>1, <2>4
    <3> QED
      BY <2>2, <3>1
  <2> QED
    BY <2>2, <2>3, <2>4
<1>2. ASSUME RunTask(t)
      PROVE  ExecuterOK' /\ mRemainTaskCount' \in Nat
  BY <1>2 DEF RunTask
<1>3. ASSUME TaskDone(t)
      PROVE  ExecuterOK' /\ mRemainTaskCount' \in Nat
  <2>1. /\ pc[t] \in {"buffs", "decays"} /\ mRemainTaskCount' = mRemainTaskCount - 1
        /\ \A u \in IOThread \ {t} : pc'[u] = pc[u]
        /\ mRemainTaskCount = 1 => pc'[t] \in {"decay", "rearm"}
    BY <1>3 DEF TaskDone
  <2>2. mRemainTaskCount > 0 /\ \A u \in Executing : u = t
    BY <2>1
  <2>3. mRemainTaskCount \in Nat /\ mRemainTaskCount' \in Nat
    BY <2>1, <2>2
  <2>4. CASE mRemainTaskCount = 1
    <3>1. Executing' = {}
      BY <2>1, <2>2, <2>4
    <3> QED
      BY <2>3, <3>1
  <2>5. CASE mRemainTaskCount # 1
    <3>1. Executing' \subseteq Executing /\ mRemainTaskCount' > 0
      BY <2>1, <2>2, <2>3, <2>5
    <3> QED
      BY <2>3, <3>1
  <2> QED
    BY <2>4, <2>5
<1>4. ASSUME \/ Completion(t)
             \/ DoTimerJobEnds(t) \/ DoTimerJob(t) \/ LeaveOwner(t) \/ Pop(t) \/ Start(t)
             \/ RegisterPlayer(t) \/ OnTick(t) \/ Rearm(t) \/ SessionReset(t)
             \/ PlayerReset(t) \/ UnregisterPlayer(t) \/ PlayerResetEnds(t)
             \/ SessionReturned(t) \/ SpinEnds(t)
      PROVE  ExecuterOK' /\ mRemainTaskCount' \in Nat
  <2>1. mRemainTaskCount' = mRemainTaskCount
    BY <1>4 DEF Completion, AcceptCompletion, AcceptCompletionFails, IoCompletion, ReturnClientSession, DoTimerJobEnds,
       DoTimerJob, LeaveOwner, Pop, Start, RegisterPlayer, OnTick, Rearm, SessionReset,
       PlayerReset, UnregisterPlayer, PlayerResetEnds, SessionReturned, SpinEnds
  <2>2. /\ \A u \in IOThread \ {t} : pc'[u] = pc[u]
        /\ pc'[t] = pc[t] \/ pc'[t] \notin {"runbuff", "buffs", "rundecay", "decays"}
    <3>1. CASE DoTimerJob(t)
      <4>1. mTimerJobQueue[t][1] \in Job
        BY <3>1, ElementOfSeq, LenProperties, EmptySeq DEF DoTimerJob
      <4> QED
        BY <3>1, <4>1 DEF DoTimerJob, Job
    <3>2. CASE SpinEnds(t)
      BY <3>2 DEF SpinEnds
    <3>3. CASE ~DoTimerJob(t) /\ ~SpinEnds(t)
      BY <1>4, <3>3 DEF Completion, AcceptCompletion, AcceptCompletionFails, IoCompletion, ReturnClientSession,
         DoTimerJobEnds, LeaveOwner, Pop, Start, RegisterPlayer, OnTick, Rearm, SessionReset,
         PlayerReset, UnregisterPlayer, PlayerResetEnds, SessionReturned
    <3> QED
      BY <3>1, <3>2, <3>3
  <2> QED
    BY <2>1, <2>2
<1> QED
  BY <1>1, <1>2, <1>3, <1>4 DEF Continue

\* A step of thread t of which the rest of the invariant sees only the label.
Jump(t) ==
  \E to : /\ pc' = [pc EXCEPT ![t] = to]
          /\ \/ pc[t] \in JobLabel /\ to \in JobLabel
             \/ pc[t] \in ReturnLabel /\ to \in ReturnLabel
             \/ pc[t] = "DoTimerJob" /\ to = "GetQueuedCompletionStatus"
          /\ pc[t] \notin {"RegisterPlayer", "reset", "pop"}
          /\ pc[t] = "LeaveLock" => to = "pop"

JumpVars == <<tick, LTickCount, mTimerJobQueue, capacity, running, dangling, arg, accepts,
              mPlayerId, mHeartBeat, mIsAlive, mPlayerMap, mCurrentIssueId>>

LEMMA JumpStep ==
  ASSUME JobInv, NEW t \in IOThread, Jump(t), UNCHANGED JumpVars,
         ExecuterOK', mRemainTaskCount' \in Nat
  PROVE  JobInv'
<1>1. PICK to : /\ pc' = [pc EXCEPT ![t] = to]
                /\ \/ pc[t] \in JobLabel /\ to \in JobLabel
                   \/ pc[t] \in ReturnLabel /\ to \in ReturnLabel
                   \/ pc[t] = "DoTimerJob" /\ to = "GetQueuedCompletionStatus"
                /\ pc[t] \notin {"RegisterPlayer", "reset", "pop"}
                /\ pc[t] = "LeaveLock" => to = "pop"
  BY DEF Jump
<1>2. PlayerTypeOK'
  BY <1>1 DEF JobInv, PlayerTypeOK, JumpVars
<1>3. ASSUME NEW u \in IOThread PROVE TimerOK(u)'
  <2>1. TimerOK(u) /\ accepts \in Nat /\ Len(mTimerJobQueue[u]) \in Nat
    BY PlayersAssumption, LenProperties DEF JobInv, PlayerTypeOK
  <2>2. CASE u = t
    BY <1>1, <2>1, <2>2 DEF JobInv, PlayerTypeOK, TimerOK, JumpVars, JobLabel, ReturnLabel
  <2>3. CASE u # t
    BY <1>1, <2>1, <2>3 DEF JobInv, PlayerTypeOK, TimerOK, JumpVars
  <2> QED
    BY <2>2, <2>3
<1>4. ASSUME NEW s \in Session PROVE RegistrationOK(s)'
  <2>1. RegistrationOK(s)
    BY DEF JobInv
  <2> QED
    BY <1>1, <2>1 DEF JobInv, PlayerTypeOK, RegistrationOK, Registered, JumpVars
<1> QED
  BY <1>2, <1>3, <1>4 DEF JobInv

LEMMA JumpingSteps ==
  ASSUME JobInv, NEW t \in IOThread,
         \/ DoTimerJobEnds(t) \/ OnTick(t) \/ RunTask(t) \/ TaskDone(t) \/ LeaveOwner(t)
         \/ \E task \in {"buff", "decay"} : GCEDispatch(t, task)
         \/ SessionReset(t) \/ PlayerReset(t)
  PROVE  JobInv'
<1>1. UNCHANGED JumpVars
  BY DEF JumpVars, timerVars, playerVars, mapVars, sessionVars, DoTimerJobEnds, OnTick, RunTask,
     TaskDone, LeaveOwner, GCEDispatch, SessionReset, PlayerReset
<1>2. Jump(t)
  <2> USE DEF Enter, Leave, Step, Jump, JobLabel, ReturnLabel
  <2>1. CASE DoTimerJobEnds(t)
    BY <2>1 DEF DoTimerJobEnds
  <2>2. CASE OnTick(t)
    BY <2>2 DEF OnTick
  <2>3. CASE RunTask(t)
    BY <2>3 DEF RunTask
  <2>4. CASE TaskDone(t)
    BY <2>4 DEF TaskDone
  <2>5. CASE \E task \in {"buff", "decay"} : GCEDispatch(t, task)
    BY <2>5 DEF GCEDispatch, After
  <2>6. CASE LeaveOwner(t)
    BY <2>6 DEF LeaveOwner
  <2>7. CASE SessionReset(t) \/ PlayerReset(t)
    BY <2>7 DEF SessionReset, PlayerReset
  <2> QED
    BY <2>1, <2>2, <2>3, <2>4, <2>5, <2>6, <2>7
<1>3. ExecuterOK' /\ mRemainTaskCount' \in Nat
  BY ExecuterStep DEF Continue
<1> QED
  BY <1>1, <1>2, <1>3, JumpStep

\* Steps that leave the players and the map alone.
LEMMA RegistrationKept ==
  ASSUME JobInv, UNCHANGED <<playerVars, mapVars>>,
         \A u \in IOThread : pc[u] \in {"RegisterPlayer", "reset"} =>
           pc'[u] = pc[u] /\ running'[u] = running[u] /\ arg'[u] = arg[u]
  PROVE  \A s \in Session : RegistrationOK(s)'
<1> SUFFICES ASSUME NEW s \in Session PROVE RegistrationOK(s)'
  OBVIOUS
<1>1. RegistrationOK(s)
  BY DEF JobInv
<1> QED
  BY <1>1 DEF RegistrationOK, Registered, playerVars, mapVars

\* Steps of one thread: the timers of the others are as they were.
LEMMA TimerKept ==
  ASSUME JobInv, NEW t \in IOThread, accepts' \in Nat, accepts <= accepts',
         \A u \in IOThread \ {t} :
           /\ pc'[u] = pc[u] /\ running'[u] = running[u] /\ arg'[u] = arg[u]
           /\ mTimerJobQueue'[u] = mTimerJobQueue[u] /\ LTickCount'[u] = LTickCount[u],
         TimerOK(t)'
  PROVE  \A u \in IOThread : TimerOK(u)'
<1> SUFFICES ASSUME NEW u \in IOThread, u # t PROVE TimerOK(u)'
  OBVIOUS
<1>1. TimerOK(u) /\ Len(mTimerJobQueue[u]) \in Nat /\ accepts \in Nat
  BY LenProperties, PlayersAssumption DEF JobInv, PlayerTypeOK
<1> DEFINE n == IF pc[u] \in {"LeaveLock", "pop"} THEN 1 ELSE 0
<1>2. n \in Nat /\ Len(mTimerJobQueue[u]) <= accepts + n
  BY <1>1 DEF TimerOK
<1> HIDE DEF n
<1>3. Len(mTimerJobQueue[u]) <= accepts' + n
  BY <1>1, <1>2
<1> QED
  BY <1>1, <1>3 DEF TimerOK, n

LEMMA DoTimerJobStep ==
  ASSUME JobInv, NEW t \in IOThread, DoTimerJob(t)
  PROVE  JobInv'
<1> USE DEF JobInv, PlayerTypeOK
<1>1. PICK job \in Job :
        /\ job = mTimerJobQueue[t][1] /\ mTimerJobQueue[t] # << >>
        /\ LTickCount[t] >= job.mExecutionTick
        /\ running' = [running EXCEPT ![t] = job]
        /\ pc[t] = "DoTimerJob" /\ pc' = [pc EXCEPT ![t] = job.mTask]
        /\ job.mTask \in {"Start", "OnTick"}
  <2>1. mTimerJobQueue[t][1] \in Job
    BY ElementOfSeq, LenProperties, EmptySeq DEF DoTimerJob
  <2> QED
    BY <2>1 DEF DoTimerJob, Enter, Step, Job
<1>2. /\ UNCHANGED <<tick, LTickCount, mTimerJobQueue, capacity, dangling, arg, accepts,
                  mRemainTaskCount>>
      /\ UNCHANGED <<playerVars, mapVars>>
  BY DEF DoTimerJob, sessionVars
<1>3. PlayerTypeOK'
  BY <1>1, <1>2 DEF playerVars, mapVars, JobLabel
<1>4. TimerOK(t)'
  <2>1. TimerOK(t) /\ job # None
    BY <1>1, NoneAssumption
  <2>2. job.mExecutionTick \in Nat /\ LTickCount[t] \in Nat
    BY <1>1, PlayersAssumption DEF Job
  <2> QED
    BY <1>1, <1>2, <2>1, <2>2 DEF TimerOK, JobLabel, ReturnLabel
<1>5. \A u \in IOThread : TimerOK(u)'
  <2>1. accepts' \in Nat /\ accepts <= accepts'
    BY <1>2, PlayersAssumption
  <2> QED
    BY <1>1, <1>2, <1>4, <2>1, TimerKept
<1>6. \A s \in Session : RegistrationOK(s)'
  BY <1>1, <1>2, RegistrationKept
<1>7. ExecuterOK'
  BY ExecuterStep DEF Continue
<1> QED
  BY <1>3, <1>5, <1>6, <1>7

LEMMA PopJobStep ==
  ASSUME JobInv, NEW t \in IOThread, Pop(t)
  PROVE  JobInv'
<1> USE DEF JobInv, PlayerTypeOK
<1>1. PICK q \in Popped(mTimerJobQueue[t]) :
        mTimerJobQueue' = [mTimerJobQueue EXCEPT ![t] = q]
  BY DEF Pop
<1>2. /\ pc[t] = "pop" /\ pc' = [pc EXCEPT ![t] = "DoTimerJob"]
      /\ running' = [running EXCEPT ![t] = None] /\ dangling' = dangling \ {t}
      /\ UNCHANGED <<tick, LTickCount, capacity, arg, accepts, mRemainTaskCount>>
      /\ UNCHANGED <<playerVars, mapVars>>
  BY DEF Pop, Step, sessionVars
<1>3. TimerOK(t) /\ mTimerJobQueue[t] # << >>
  BY <1>2 DEF TimerOK, JobLabel
<1>4. q \in Seq(Job) /\ Len(q) = Len(mTimerJobQueue[t]) - 1
  BY <1>3, PoppedProperties
<1>5. PlayerTypeOK'
  BY <1>1, <1>2, <1>4 DEF playerVars, mapVars
<1>6. TimerOK(t)'
  <2>1. Len(q) <= accepts
    <3>1. Len(mTimerJobQueue[t]) <= accepts + 1 /\ Len(mTimerJobQueue[t]) \in Nat
      BY <1>2, <1>3, LenProperties DEF TimerOK
    <3> QED
      BY <1>4, <3>1, PlayersAssumption
  <2> QED
    BY <1>1, <1>2, <1>3, <2>1, PlayersAssumption DEF TimerOK, JobLabel, ReturnLabel
<1>7. \A u \in IOThread : TimerOK(u)'
  <2>1. accepts' \in Nat /\ accepts <= accepts'
    BY <1>2, PlayersAssumption
  <2>2. \A u \in IOThread \ {t} :
          /\ pc'[u] = pc[u] /\ running'[u] = running[u] /\ arg'[u] = arg[u]
          /\ mTimerJobQueue'[u] = mTimerJobQueue[u] /\ LTickCount'[u] = LTickCount[u]
    BY <1>1, <1>2
  <2> HIDE DEF JobInv
  <2> QED
    BY <1>6, <2>1, <2>2, TimerKept
<1>8. \A s \in Session : RegistrationOK(s)'
  BY <1>2, RegistrationKept
<1>9. ExecuterOK'
  BY ExecuterStep DEF Continue
<1> QED
  BY <1>5, <1>7, <1>8, <1>9

LEMMA RearmStep ==
  ASSUME JobInv, NEW t \in IOThread, Rearm(t)
  PROVE  JobInv'
<1> USE DEF JobInv, PlayerTypeOK
<1>1. /\ pc[t] = "rearm" /\ pc' = [pc EXCEPT ![t] = "LeaveLock"]
      /\ UNCHANGED <<tick, LTickCount, running, arg, accepts, mRemainTaskCount>>
      /\ UNCHANGED <<playerVars, mapVars>>
  BY DEF Rearm, Step, sessionVars
<1>2. /\ TimerOK(t) /\ running[t] \in Job /\ running[t].mOwner \in Session
      /\ mTimerJobQueue[t] # << >> /\ Len(mTimerJobQueue[t]) <= accepts
      /\ mTimerJobQueue[t][1].mExecutionTick <= LTickCount[t]
  <2>1. TimerOK(t) /\ running[t] # None
    BY <1>1 DEF TimerOK, JobLabel
  <2> QED
    BY <1>1, <2>1, PlayersAssumption DEF TimerOK, Job
<1>3. /\ mTimerJobQueue' \in [IOThread -> Seq(Job)] /\ dangling' \in SUBSET IOThread
      /\ capacity' \in [IOThread -> Nat]
      /\ \A u \in IOThread \ {t} : mTimerJobQueue'[u] = mTimerJobQueue[u]
      /\ Len(mTimerJobQueue'[t]) <= Len(mTimerJobQueue[t]) + 1
      /\ mTimerJobQueue'[t] # << >> /\ mTimerJobQueue'[t][1] = mTimerJobQueue[t][1]
  <2>1. CASE mHeartBeat[running[t].mOwner] > 0
    <3>1. mHeartBeat[running[t].mOwner] \in Nat \ {0}
      BY <1>2, <2>1, PlayersAssumption
    <3>2. PushTimerJob(t, running[t].mOwner, "OnTick", mHeartBeat[running[t].mOwner])
      BY <2>1 DEF Rearm
    <3>3. Len(mTimerJobQueue'[t]) = Len(mTimerJobQueue[t]) + 1
      BY <1>2, <3>1, <3>2, PushStepProperties
    <3>4. Len(mTimerJobQueue[t]) \in Nat
      BY LenProperties
    <3>5. Len(mTimerJobQueue'[t]) <= Len(mTimerJobQueue[t]) + 1
      BY <3>3, <3>4
    <3> QED
      BY <1>2, <3>1, <3>2, <3>5, PushStepProperties
  <2>2. CASE ~(mHeartBeat[running[t].mOwner] > 0)
    <3>1. UNCHANGED <<mTimerJobQueue, capacity, dangling>>
      BY <2>2 DEF Rearm
    <3>2. Len(mTimerJobQueue[t]) \in Nat
      BY LenProperties
    <3> QED
      BY <1>2, <3>1, <3>2
  <2> QED
    BY <2>1, <2>2
<1>4. PlayerTypeOK'
  BY <1>1, <1>3 DEF playerVars, mapVars, JobLabel
<1>5. TimerOK(t)'
  <2>1. Len(mTimerJobQueue'[t]) <= accepts + 1
    <3>1. Len(mTimerJobQueue'[t]) \in Nat /\ Len(mTimerJobQueue[t]) \in Nat /\ accepts \in Nat
      BY <1>3, LenProperties, PlayersAssumption
    <3> QED
      BY <1>2, <1>3, <3>1
  <2> QED
    BY <1>1, <1>2, <1>3, <2>1 DEF TimerOK, JobLabel, ReturnLabel
<1>6. \A u \in IOThread : TimerOK(u)'
  <2>1. accepts' \in Nat /\ accepts <= accepts'
    BY <1>1, PlayersAssumption
  <2>2. \A u \in IOThread \ {t} :
          /\ pc'[u] = pc[u] /\ running'[u] = running[u] /\ arg'[u] = arg[u]
          /\ mTimerJobQueue'[u] = mTimerJobQueue[u] /\ LTickCount'[u] = LTickCount[u]
    BY <1>1, <1>3
  <2> QED
    BY <1>5, <2>1, <2>2, TimerKept
<1>7. \A s \in Session : RegistrationOK(s)'
  BY <1>1, RegistrationKept
<1>8. ExecuterOK'
  BY ExecuterStep DEF Continue
<1> QED
  BY <1>4, <1>6, <1>7, <1>8

LEMMA CompletionJobStep ==
  ASSUME JobInv, NEW t \in IOThread, NEW s \in Session,
         \/ AcceptCompletion(t, s) \/ AcceptCompletionFails(t, s)
         \/ IoCompletion(t, s) \/ ReturnClientSession(t, s)
  PROVE  JobInv'
<1> USE DEF JobInv, PlayerTypeOK
<1>1. /\ pc[t] = "GetQueuedCompletionStatus"
      /\ running' = running /\ mRemainTaskCount' = mRemainTaskCount
      /\ UNCHANGED <<tick, playerVars, mapVars>>
  BY DEF AcceptCompletion, AcceptCompletionFails, IoCompletion, ReturnClientSession, NextRound,
     Enter, Step, timerVars
<1>2. /\ TimerOK(t) /\ running[t] = None /\ arg[t] = None
      /\ accepts \in Nat /\ Len(mTimerJobQueue[t]) \in Nat /\ Len(mTimerJobQueue[t]) <= accepts
  <2>1. TimerOK(t) /\ pc[t] \notin JobLabel \union ReturnLabel
    BY <1>1 DEF JobLabel, ReturnLabel
  <2> QED
    BY <1>1, <2>1, LenProperties, PlayersAssumption DEF TimerOK
<1>3. ASSUME AcceptCompletion(t, s)
      PROVE  /\ PlayerTypeOK' /\ TimerOK(t)' /\ accepts' \in Nat /\ accepts <= accepts'
             /\ \A u \in IOThread \ {t} :
                  /\ pc'[u] = pc[u] /\ arg'[u] = arg[u] /\ LTickCount'[u] = LTickCount[u]
                  /\ mTimerJobQueue'[u] = mTimerJobQueue[u]
  <2>1. /\ accepts' = accepts + 1 /\ accepts' \in 0 .. MaxAccepts /\ arg' = arg
        /\ pc' = [pc EXCEPT ![t] = "DoTimerJob"]
        /\ LTickCount' = [LTickCount EXCEPT ![t] = tick]
        /\ PushTimerJob(t, s, "Start", StartDelay)
    BY <1>2, <1>3, PlayersAssumption DEF AcceptCompletion, NextRound, Step
  <2>2. /\ mTimerJobQueue' \in [IOThread -> Seq(Job)] /\ dangling' \in SUBSET IOThread
        /\ capacity' \in [IOThread -> Nat]
        /\ \A u \in IOThread \ {t} : mTimerJobQueue'[u] = mTimerJobQueue[u]
        /\ Len(mTimerJobQueue'[t]) = Len(mTimerJobQueue[t]) + 1
    BY <2>1, PushStepProperties, PlayersAssumption
  <2>3. PlayerTypeOK'
    BY <1>1, <2>1, <2>2 DEF playerVars, mapVars
  <2>4. TimerOK(t)'
    BY <1>1, <1>2, <2>1, <2>2 DEF TimerOK, JobLabel, ReturnLabel
  <2>5. accepts' \in Nat /\ accepts <= accepts'
    BY <1>2, <2>1
  <2>6. \A u \in IOThread \ {t} :
          /\ pc'[u] = pc[u] /\ arg'[u] = arg[u] /\ LTickCount'[u] = LTickCount[u]
          /\ mTimerJobQueue'[u] = mTimerJobQueue[u]
    BY <2>1, <2>2
  <2> HIDE DEF PlayerTypeOK
  <2> QED
    BY <2>3, <2>4, <2>5, <2>6
<1>4. ASSUME AcceptCompletionFails(t, s) \/ IoCompletion(t, s)
      PROVE  /\ PlayerTypeOK' /\ TimerOK(t)' /\ accepts' \in Nat /\ accepts <= accepts'
             /\ \A u \in IOThread \ {t} :
                  /\ pc'[u] = pc[u] /\ arg'[u] = arg[u] /\ LTickCount'[u] = LTickCount[u]
                  /\ mTimerJobQueue'[u] = mTimerJobQueue[u]
  <2>1. /\ UNCHANGED <<accepts, arg, mTimerJobQueue, capacity, dangling>>
        /\ pc' = [pc EXCEPT ![t] = "DoTimerJob"]
        /\ LTickCount' = [LTickCount EXCEPT ![t] = tick]
    BY <1>4 DEF AcceptCompletionFails, IoCompletion, NextRound, Step, sessionVars
  <2>2. PlayerTypeOK'
    BY <1>1, <2>1 DEF playerVars, mapVars
  <2>3. TimerOK(t)'
    BY <1>1, <1>2, <2>1 DEF TimerOK, JobLabel, ReturnLabel
  <2> QED
    BY <1>2, <2>1, <2>2, <2>3
<1>5. ASSUME ReturnClientSession(t, s)
      PROVE  /\ PlayerTypeOK' /\ TimerOK(t)' /\ accepts' \in Nat /\ accepts <= accepts'
             /\ \A u \in IOThread \ {t} :
                  /\ pc'[u] = pc[u] /\ arg'[u] = arg[u] /\ LTickCount'[u] = LTickCount[u]
                  /\ mTimerJobQueue'[u] = mTimerJobQueue[u]
  <2>1. /\ UNCHANGED <<accepts, LTickCount, mTimerJobQueue, capacity, dangling>>
        /\ pc' = [pc EXCEPT ![t] = "SessionReset"] /\ arg' = [arg EXCEPT ![t] = s]
    BY <1>5 DEF ReturnClientSession, Enter, Step, timerVars
  <2>2. PlayerTypeOK'
    BY <1>1, <2>1 DEF playerVars, mapVars, ReturnLabel
  <2>3. TimerOK(t)'
    BY <1>1, <1>2, <2>1, LockAssumption DEF TimerOK, JobLabel, ReturnLabel
  <2> QED
    BY <1>2, <2>1, <2>2, <2>3
<1>6. /\ PlayerTypeOK' /\ TimerOK(t)' /\ accepts' \in Nat /\ accepts <= accepts'
      /\ \A u \in IOThread \ {t} :
           /\ pc'[u] = pc[u] /\ arg'[u] = arg[u] /\ LTickCount'[u] = LTickCount[u]
           /\ mTimerJobQueue'[u] = mTimerJobQueue[u]
  BY <1>3, <1>4, <1>5
<1>7. \A u \in IOThread : TimerOK(u)'
  BY <1>1, <1>6, TimerKept
<1>8. \A r \in Session : RegistrationOK(r)'
  BY <1>1, <1>6, RegistrationKept
<1>9. ExecuterOK'
  BY ExecuterStep DEF Completion
<1> QED
  BY <1>6, <1>7, <1>8, <1>9

LEMMA SessionReturnedStep ==
  ASSUME JobInv, NEW t \in IOThread, SessionReturned(t)
  PROVE  JobInv'
<1> USE DEF JobInv, PlayerTypeOK
<1>1. /\ pc[t] = "free" /\ pc' = [pc EXCEPT ![t] = "DoTimerJob"]
      /\ arg' = [arg EXCEPT ![t] = None] /\ LTickCount' = [LTickCount EXCEPT ![t] = tick]
      /\ UNCHANGED <<tick, mTimerJobQueue, capacity, running, dangling, accepts,
                      mRemainTaskCount>>
      /\ UNCHANGED <<playerVars, mapVars>>
  BY DEF SessionReturned, NextRound, Step
<1>2. TimerOK(t) /\ running[t] = None /\ accepts \in Nat
  <2>1. TimerOK(t) /\ pc[t] \notin JobLabel
    BY <1>1 DEF JobLabel
  <2> QED
    BY <2>1, PlayersAssumption DEF TimerOK
<1>3. PlayerTypeOK'
  BY <1>1 DEF playerVars, mapVars
<1>4. TimerOK(t)'
  BY <1>1, <1>2 DEF TimerOK, JobLabel, ReturnLabel
<1>5. \A u \in IOThread : TimerOK(u)'
  <2>1. accepts' \in Nat /\ accepts <= accepts'
    BY <1>1, <1>2
  <2> QED
    BY <1>1, <1>4, <2>1, TimerKept
<1>6. \A s \in Session : RegistrationOK(s)'
  BY <1>1, RegistrationKept
<1>7. ExecuterOK'
  BY ExecuterStep DEF Continue
<1> QED
  BY <1>3, <1>5, <1>6, <1>7

LEMMA OutsideStep ==
  ASSUME JobInv, Clock \/ UNCHANGED vars \/ \E t \in IOThread : SpinEnds(t)
  PROVE  JobInv'
<1> USE DEF JobInv, PlayerTypeOK
<1>1. /\ UNCHANGED <<pc, arg, timerVars, sessionVars, playerVars, mapVars, mRemainTaskCount>>
      /\ tick' \in 0 .. MaxTick
  <2>1. CASE Clock
    BY <2>1, PlayersAssumption DEF Clock
  <2>2. CASE ~Clock
    BY <2>2 DEF SpinEnds, vars
  <2> QED
    BY <2>1, <2>2
<1>2. PlayerTypeOK'
  BY <1>1 DEF timerVars, sessionVars, playerVars, mapVars
<1>3. \A u \in IOThread : TimerOK(u)'
  BY <1>1 DEF TimerOK, timerVars, sessionVars
<1>4. \A s \in Session : RegistrationOK(s)'
  BY <1>1, RegistrationKept DEF timerVars
<1>5. ExecuterOK'
  BY <1>1 DEF ExecuterOK, Executing
<1> QED
  BY <1>2, <1>3, <1>4, <1>5

\* What the steps on players leave alone.
LEMMA PlayerStepTimers ==
  ASSUME JobInv, NEW t \in IOThread, NEW to,
         \/ pc[t] \in {"Start", "RegisterPlayer"} /\ to \in {"RegisterPlayer", "OnTick"}
         \/ pc[t] \in {"UnregisterPlayer", "reset"} /\ to \in {"reset", "free"},
         pc' = [pc EXCEPT ![t] = to], UNCHANGED <<timerVars, arg, sessionVars>>
  PROVE  \A u \in IOThread : TimerOK(u)'
<1> SUFFICES ASSUME NEW u \in IOThread PROVE TimerOK(u)'
  OBVIOUS
<1>1. TimerOK(u)
  BY DEF JobInv
<1> QED
  BY <1>1 DEF JobInv, PlayerTypeOK, TimerOK, JobLabel, ReturnLabel, timerVars, sessionVars

LEMMA StartStep ==
  ASSUME JobInv, NEW t \in IOThread, Start(t)
  PROVE  JobInv'
<1> USE DEF JobInv, PlayerTypeOK
<1>1. pc[t] = "Start" /\ pc' = [pc EXCEPT ![t] = "RegisterPlayer"]
  BY DEF Start, Enter, Step
<1>2. PICK s \in Session : s = running[t].mOwner
  BY <1>1 DEF TimerOK, JobLabel, Job
<1>3. /\ mIsAlive' = [mIsAlive EXCEPT ![s] = TRUE]
      /\ mHeartBeat' = [mHeartBeat EXCEPT ![s] = HeartBeat]
      /\ UNCHANGED <<tick, timerVars, arg, sessionVars, mPlayerId, mapVars, mRemainTaskCount>>
  BY <1>2 DEF Start
<1>4. PlayerTypeOK'
  BY <1>1, <1>3 DEF timerVars, sessionVars, mapVars, JobLabel
<1>5. \A u \in IOThread : TimerOK(u)'
  BY <1>1, <1>3, PlayerStepTimers
<1>6. ASSUME NEW r \in Session PROVE RegistrationOK(r)'
  <2>1. RegistrationOK(r)
    OBVIOUS
  <2>2. CASE r = s
    BY <1>1, <1>2, <1>3, <2>1, <2>2 DEF RegistrationOK, Registered, timerVars, mapVars
  <2>3. CASE r # s
    BY <1>1, <1>3, <2>1, <2>3 DEF RegistrationOK, Registered, timerVars, mapVars
  <2> QED
    BY <2>2, <2>3
<1>7. ExecuterOK'
  BY ExecuterStep DEF Continue
<1> QED
  BY <1>4, <1>5, <1>6, <1>7

LEMMA RegisterPlayerStep ==
  ASSUME JobInv, NEW t \in IOThread, RegisterPlayer(t)
  PROVE  JobInv'
<1> USE DEF JobInv, PlayerTypeOK
<1>1. pc[t] = "RegisterPlayer" /\ pc' = [pc EXCEPT ![t] = "OnTick"]
  BY DEF RegisterPlayer, Leave, Step
<1>2. PICK s \in Session : s = running[t].mOwner
  BY <1>1 DEF TimerOK, JobLabel, Job
<1>3. PICK i : i = mCurrentIssueId + 1
  OBVIOUS
<1>4. /\ mCurrentIssueId' = i
      /\ mPlayerMap' = [j \in DOMAIN mPlayerMap \union {i} |-> IF j = i THEN s ELSE mPlayerMap[j]]
      /\ mPlayerId' = [mPlayerId EXCEPT ![s] = i]
      /\ UNCHANGED <<tick, timerVars, arg, sessionVars, mHeartBeat, mIsAlive, mRemainTaskCount>>
  BY <1>2, <1>3 DEF RegisterPlayer
<1>5. /\ i \in Nat \ {0} /\ i \notin DOMAIN mPlayerMap /\ mCurrentIssueId < i
      /\ DOMAIN mPlayerMap' = DOMAIN mPlayerMap \union {i}
  BY <1>3, <1>4
<1>6. PlayerTypeOK'
  <2>1. /\ mPlayerMap' \in [DOMAIN mPlayerMap' -> Session]
        /\ DOMAIN mPlayerMap' \subseteq 1 .. mCurrentIssueId'
    BY <1>4, <1>5
  <2>2. mPlayerId' \in [Session -> {-1} \union 1 .. mCurrentIssueId'] /\ mCurrentIssueId' \in Nat
    BY <1>4, <1>5
  <2>3. pc' \in [IOThread -> {"DoTimerJob", "GetQueuedCompletionStatus"} \union JobLabel
                              \union ReturnLabel]
    BY <1>1 DEF JobLabel
  <2> QED
    BY <1>4, <2>1, <2>2, <2>3 DEF timerVars, sessionVars
<1>7. \A u \in IOThread : TimerOK(u)'
  BY <1>1, <1>4, PlayerStepTimers
<1>8. ASSUME NEW r \in Session PROVE RegistrationOK(r)'
  <2>1. RegistrationOK(r) /\ mPlayerId[r] # i
    <3>1. mPlayerId[r] \in {-1} \union 1 .. mCurrentIssueId
      OBVIOUS
    <3> QED
      BY <1>5, <3>1
  <2>2. CASE r = s
    <3>1. mPlayerId'[r] = i /\ mPlayerMap'[i] = s
      BY <1>4, <2>2
    <3> QED
      BY <1>5, <2>2, <3>1 DEF RegistrationOK, Registered
  <2>3. CASE r # s
    <3>1. /\ mPlayerId'[r] = mPlayerId[r] /\ mIsAlive'[r] = mIsAlive[r]
          /\ Registered(r)' <=> Registered(r)
          /\ Registered(r) => mPlayerMap'[mPlayerId[r]] = mPlayerMap[mPlayerId[r]]
      BY <1>4, <1>5, <2>1, <2>3 DEF Registered
    <3>2. \A u \in IOThread : /\ running'[u] = running[u] /\ arg'[u] = arg[u]
                              /\ running[u].mOwner = r \/ u # t => pc'[u] = pc[u]
      BY <1>1, <1>2, <1>4, <2>3 DEF timerVars
    <3>3. ASSUME NEW u \in IOThread, pc[u] = "RegisterPlayer", running[u].mOwner = r
          PROVE  pc'[u] = "RegisterPlayer" /\ running'[u].mOwner = r
      BY <3>2, <3>3
    <3>4. ASSUME NEW u \in IOThread, pc[u] = "reset", arg[u] = r
          PROVE  pc'[u] = "reset" /\ arg'[u] = r
      BY <1>1, <3>2, <3>4
    <3> HIDE DEF JobInv, PlayerTypeOK
    <3> QED
      BY <2>1, <3>1, <3>3, <3>4 DEF RegistrationOK
  <2> QED
    BY <2>2, <2>3
<1>9. ExecuterOK'
  BY ExecuterStep DEF Continue
<1> QED
  BY <1>6, <1>7, <1>8, <1>9

LEMMA UnregisterPlayerStep ==
  ASSUME JobInv, NEW t \in IOThread, UnregisterPlayer(t)
  PROVE  JobInv'
<1> USE DEF JobInv, PlayerTypeOK
<1>1. pc[t] = "UnregisterPlayer" /\ pc' = [pc EXCEPT ![t] = "reset"]
  BY DEF UnregisterPlayer, Leave, Step
<1>2. PICK s \in Session : s = arg[t]
  BY <1>1 DEF TimerOK, ReturnLabel
<1>3. /\ mPlayerMap' = [i \in DOMAIN mPlayerMap \ {mPlayerId[s]} |-> mPlayerMap[i]]
      /\ UNCHANGED <<tick, timerVars, arg, sessionVars, playerVars, mCurrentIssueId,
                     mRemainTaskCount>>
  BY <1>2 DEF UnregisterPlayer
<1>4. PlayerTypeOK'
  BY <1>1, <1>3 DEF timerVars, sessionVars, playerVars, ReturnLabel
<1>5. \A u \in IOThread : TimerOK(u)'
  BY <1>1, <1>3, PlayerStepTimers
<1>6. ASSUME NEW r \in Session PROVE RegistrationOK(r)'
  <2>1. RegistrationOK(r) /\ RegistrationOK(s)
    OBVIOUS
  <2>2. CASE r = s
    <3>1. ~Registered(r)'
      BY <1>3, <2>2 DEF Registered, playerVars
    <3>2. pc'[t] = "reset" /\ arg'[t] = r
      BY <1>1, <1>2, <1>3, <2>2
    <3> QED
      BY <3>1, <3>2 DEF RegistrationOK
  <2>3. CASE r # s
    <3>1. Registered(r) => Registered(r)' /\ mPlayerMap'[mPlayerId'[r]] = mPlayerMap[mPlayerId[r]]
      BY <1>3, <2>1, <2>3 DEF Registered, RegistrationOK, playerVars
    <3>2. Registered(r)' => Registered(r)
      BY <1>3 DEF Registered, playerVars
    <3>3. \A u \in IOThread : pc[u] \in {"RegisterPlayer", "reset"} =>
            pc'[u] = pc[u] /\ running'[u] = running[u] /\ arg'[u] = arg[u]
      BY <1>1, <1>3 DEF timerVars
    <3>4. mIsAlive'[r] = mIsAlive[r]
      BY <1>3 DEF playerVars
    <3> HIDE DEF JobInv, PlayerTypeOK
    <3>5. ASSUME mIsAlive'[r]
          PROVE  \/ Registered(r)'
                 \/ \E u \in IOThread : pc'[u] = "RegisterPlayer" /\ running'[u].mOwner = r
                 \/ \E u \in IOThread : pc'[u] = "reset" /\ arg'[u] = r
      BY <2>1, <3>1, <3>3, <3>4, <3>5 DEF RegistrationOK
    <3>6. Registered(r)' => mPlayerMap'[mPlayerId'[r]] = r
      BY <2>1, <3>1, <3>2 DEF RegistrationOK
    <3> QED
      BY <3>5, <3>6 DEF RegistrationOK
  <2> QED
    BY <2>2, <2>3
<1>7. ExecuterOK'
  BY ExecuterStep DEF Continue
<1> QED
  BY <1>4, <1>5, <1>6, <1>7

LEMMA PlayerResetEndsStep ==
  ASSUME JobInv, NEW t \in IOThread, PlayerResetEnds(t)
  PROVE  JobInv'
<1> USE DEF JobInv, PlayerTypeOK
<1>1. pc[t] = "reset" /\ pc' = [pc EXCEPT ![t] = "free"]
  BY DEF PlayerResetEnds, Leave, Step
<1>2. PICK s \in Session : s = arg[t]
  BY <1>1 DEF TimerOK, ReturnLabel
<1>3. /\ mPlayerId' = [mPlayerId EXCEPT ![s] = -1]
      /\ mHeartBeat' = [mHeartBeat EXCEPT ![s] = -1]
      /\ mIsAlive' = [mIsAlive EXCEPT ![s] = FALSE]
      /\ UNCHANGED <<tick, timerVars, arg, sessionVars, mapVars, mRemainTaskCount>>
  BY <1>2 DEF PlayerResetEnds
<1>4. PlayerTypeOK'
  BY <1>1, <1>3 DEF timerVars, sessionVars, mapVars, ReturnLabel
<1>5. \A u \in IOThread : TimerOK(u)'
  BY <1>1, <1>3, PlayerStepTimers
<1>6. ASSUME NEW r \in Session PROVE RegistrationOK(r)'
  <2>1. RegistrationOK(r)
    OBVIOUS
  <2>2. CASE r = s
    <3>1. mPlayerId'[r] = -1 /\ ~mIsAlive'[r] /\ -1 \notin DOMAIN mPlayerMap'
      BY <1>3, <2>2 DEF mapVars
    <3> QED
      BY <3>1 DEF RegistrationOK, Registered
  <2>3. CASE r # s
    <3>1. /\ mPlayerId'[r] = mPlayerId[r] /\ mIsAlive'[r] = mIsAlive[r] /\ mPlayerMap' = mPlayerMap
          /\ \A u \in IOThread : /\ running'[u] = running[u] /\ arg'[u] = arg[u]
                                 /\ arg[u] = r \/ u # t => pc'[u] = pc[u]
          /\ pc[t] # "RegisterPlayer"
      BY <1>1, <1>2, <1>3, <2>3 DEF timerVars, mapVars
    <3>2. Registered(r)' <=> Registered(r)
      BY <3>1 DEF Registered
    <3>3. ASSUME NEW u \in IOThread, pc[u] = "RegisterPlayer", running[u].mOwner = r
          PROVE  pc'[u] = "RegisterPlayer" /\ running'[u].mOwner = r
      BY <3>1, <3>3
    <3>4. ASSUME NEW u \in IOThread, pc[u] = "reset", arg[u] = r
          PROVE  pc'[u] = "reset" /\ arg'[u] = r
      BY <3>1, <3>4
    <3>5. mPlayerId'[r] = mPlayerId[r] /\ mIsAlive'[r] = mIsAlive[r] /\ mPlayerMap' = mPlayerMap
      BY <3>1
    <3> HIDE DEF JobInv, PlayerTypeOK
    <3> QED
      BY <2>1, <3>2, <3>3, <3>4, <3>5 DEF RegistrationOK
  <2> QED
    BY <2>2, <2>3
<1>7. ExecuterOK'
  BY ExecuterStep DEF Continue
<1> QED
  BY <1>4, <1>5, <1>6, <1>7

LEMMA NextJobInv == JobInv /\ [Next]_vars => JobInv'
<1> SUFFICES ASSUME JobInv, [Next]_vars PROVE JobInv'
  OBVIOUS
<1>1. CASE Clock \/ UNCHANGED vars
  BY <1>1, OutsideStep
<1>2. ASSUME NEW t \in IOThread, Completion(t)
      PROVE  JobInv'
  BY <1>2, CompletionJobStep DEF Completion
<1>3. ASSUME NEW t \in IOThread, Continue(t)
      PROVE  JobInv'
  BY <1>3, DoTimerJobStep, PopJobStep, RearmStep, StartStep, RegisterPlayerStep, JumpingSteps,
     UnregisterPlayerStep, PlayerResetEndsStep, SessionReturnedStep, OutsideStep DEF Continue
<1> QED
  BY <1>1, <1>2, <1>3 DEF Next

LEMMA InitJobInv == Init => JobInv
<1> SUFFICES ASSUME Init PROVE JobInv
  OBVIOUS
<1>1. PlayerTypeOK
  <2>1. mPlayerMap \in [DOMAIN mPlayerMap -> Session] /\ DOMAIN mPlayerMap = {}
    BY DEF Init
  <2>2. MaxTick \in Nat /\ MaxAccepts \in Nat
    BY PlayersAssumption
  <2> QED
    BY <2>1, <2>2, EmptySeq DEF Init, PlayerTypeOK
<1>2. ASSUME NEW t \in IOThread PROVE TimerOK(t)
  <2>1. /\ pc[t] \notin JobLabel /\ pc[t] \notin ReturnLabel
        /\ running[t] = None /\ arg[t] = None
    BY DEF Init, JobLabel, ReturnLabel
  <2>2. Len(mTimerJobQueue[t]) = 0 /\ accepts = 0 /\ pc[t] \notin {"LeaveLock", "pop"}
    BY DEF Init
  <2> QED
    BY <2>1, <2>2 DEF TimerOK
<1>3. \A s \in Session : RegistrationOK(s)
  BY DEF Init, RegistrationOK, Registered
<1>4. ExecuterOK
  BY DEF Init, ExecuterOK, Executing
<1> QED
  BY <1>1, <1>2, <1>3, <1>4 DEF JobInv

\* DoTimerJob pops the job it has run, although the job pushes into the same
\* queue in between.
THEOREM TimerPopsWhatItRan == Spec => []PopsWhatItRan
<1>1. Init => JobInv
  BY InitJobInv
<1>2. JobInv /\ [Next]_vars => JobInv'
  BY NextJobInv
<1>3. JobInv => PopsWhatItRan
  BY DEF JobInv, TimerOK, PopsWhatItRan
<1> QED
  BY <1>1, <1>2, <1>3, PTL DEF Spec

-----------------------------------------------------------------------------
(* The locks.                                                               *)

LEMMA Tuples ==
  ASSUME NEW a, NEW b, NEW c
  PROVE  /\ Append(<< >>, a) = <<a>> /\ Append(<<a>>, b) = <<a, b>>
         /\ Append(<<a, b>>, c) = <<a, b, c>>
         /\ SubSeq(<<a>>, 1, 0) = << >> /\ SubSeq(<<a, b>>, 1, 1) = <<a>>
         /\ SubSeq(<<a, b, c>>, 1, 2) = <<a, b>>
         /\ <<a>> # << >> /\ <<a, b>> # << >> /\ <<a, b, c>> # << >>
         /\ Len(<<a>>) = 1 /\ Len(<<a, b>>) = 2 /\ Len(<<a, b, c>>) = 3
<1>1. Append(<< >>, a) = <<a>> 
  OBVIOUS
<1> DEFINE S == {a, b, c}
<1>0. <<a>> \in Seq(S) /\ <<a, b>> \in Seq(S) /\ <<a, b, c>> \in Seq(S)
  OBVIOUS
<1>2. Append(<<a>>, b) = <<a, b>>
  <2>1. Append(<<a>>, b) \in Seq(S) /\ Len(Append(<<a>>, b)) = 2
        /\ \A i \in 1 .. 2 : Append(<<a>>, b)[i] = <<a, b>>[i]
    BY <1>0, AppendProperties
  <2> QED
    BY <1>0, <2>1, SeqEqual
<1>3. Append(<<a, b>>, c) = <<a, b, c>>
  <2>1. Append(<<a, b>>, c) \in Seq(S) /\ Len(Append(<<a, b>>, c)) = 3
        /\ \A i \in 1 .. 3 : Append(<<a, b>>, c)[i] = <<a, b, c>>[i]
    BY <1>0, AppendProperties
  <2> QED
    BY <1>0, <2>1, SeqEqual
<1>4. SubSeq(<<a>>, 1, 0) = << >>
  OBVIOUS
<1>5. SubSeq(<<a, b>>, 1, 1) = <<a>>
  <2>1. SubSeq(<<a, b>>, 1, 1) \in Seq(S) /\ Len(SubSeq(<<a, b>>, 1, 1)) = 1
        /\ \A i \in 1 .. 1 : SubSeq(<<a, b>>, 1, 1)[i] = <<a>>[i]
    BY <1>0, SubSeqProperties
  <2> QED
    BY <1>0, <2>1, SeqEqual
<1>6. SubSeq(<<a, b, c>>, 1, 2) = <<a, b>>
  <2>1. SubSeq(<<a, b, c>>, 1, 2) \in Seq(S) /\ Len(SubSeq(<<a, b, c>>, 1, 2)) = 2
        /\ \A i \in 1 .. 2 : SubSeq(<<a, b, c>>, 1, 2)[i] = <<a, b>>[i]
    BY <1>0, SubSeqProperties
  <2> QED
    BY <1>0, <2>1, SeqEqual
<1>7. <<a>> # << >> /\ <<a, b>> # << >> /\ <<a, b, c>> # << >>
  OBVIOUS
<1>8. Len(<<a>>) = 1 /\ Len(<<a, b>>) = 2 /\ Len(<<a, b, c>>) = 3
  OBVIOUS
<1> QED
  BY <1>1, <1>2, <1>3, <1>4, <1>5, <1>6, <1>7, <1>8

LEMMA WithoutTop ==
  ASSUME NEW a, NEW b, NEW c, NEW q
  PROVE  /\ q = <<a>> => SubSeq(q, 1, Len(q) - 1) = << >>
         /\ q = <<a, b>> => SubSeq(q, 1, Len(q) - 1) = <<a>>
         /\ q = <<a, b, c>> => SubSeq(q, 1, Len(q) - 1) = <<a, b>>
<1>1. 1 - 1 = 0 /\ 2 - 1 = 1 /\ 3 - 1 = 2
  OBVIOUS
<1>2. ASSUME q = <<a>> PROVE SubSeq(q, 1, Len(q) - 1) = << >>
  BY <1>1, <1>2, Tuples, Zenon
<1>3. ASSUME q = <<a, b>> PROVE SubSeq(q, 1, Len(q) - 1) = <<a>>
  BY <1>1, <1>3, Tuples, Zenon
<1>4. ASSUME q = <<a, b, c>> PROVE SubSeq(q, 1, Len(q) - 1) = <<a, b>>
  BY <1>1, <1>4, Tuples, Zenon
<1> QED
  BY <1>2, <1>3, <1>4

\* A step of thread t alone.
Alone(t) ==
  \A u \in IOThread \ {t} : pc'[u] = pc[u] /\ running'[u] = running[u] /\ arg'[u] = arg[u]

LEMMA OthersNested ==
  ASSUME NEW t \in IOThread, Alone(t)
  PROVE  \A u \in IOThread \ {t} : Nested(u)' = Nested(u)
  BY DEF Alone, Nested

LEMMA EnterNests ==
  ASSUME NestingOK, NEW t \in IOThread, NEW l, EnterLock(t, l), MayPush(t, l), Alone(t),
         pc'[t] \in EnterLabel, Nested(t)' = Append(Nested(t), l)
  PROVE  NestingOK'
<1>1. /\ mLockStack' = [mLockStack EXCEPT ![t] = Append(@, l)]
      /\ waiting' = waiting \union {t} /\ failed' = failed
  BY DEF EnterLock
<1>2. mLockStack' = [u \in IOThread |-> Nested(u)']
  BY <1>1, OthersNested DEF NestingOK
<1>3. waiting' \subseteq {u \in IOThread : pc'[u] \in EnterLabel}
  BY <1>1 DEF NestingOK, Alone
<1> QED
  BY <1>1, <1>2, <1>3 DEF NestingOK

LEMMA LeaveNests ==
  ASSUME NestingOK, NEW t \in IOThread, NEW l, LeaveLock(t, l), MayPop(t, l), Alone(t),
         Nested(t)' = SubSeq(Nested(t), 1, Len(Nested(t)) - 1)
  PROVE  NestingOK'
<1>1. /\ mLockStack' = [mLockStack EXCEPT ![t] = SubSeq(@, 1, Len(@) - 1)]
      /\ waiting' = waiting /\ failed' = failed /\ t \notin waiting
  BY DEF LeaveLock
<1>2. mLockStack' = [u \in IOThread |-> Nested(u)']
  BY <1>1, OthersNested DEF NestingOK
<1>3. waiting' \subseteq {u \in IOThread : pc'[u] \in EnterLabel}
  BY <1>1 DEF NestingOK, Alone
<1> QED
  BY <1>1, <1>2, <1>3 DEF NestingOK

LEMMA StayNests ==
  ASSUME NestingOK, NEW t \in IOThread, UNCHANGED lockVars, t \notin waiting, Alone(t),
         Nested(t)' = Nested(t)
  PROVE  NestingOK'
<1>1. mLockStack' = [u \in IOThread |-> Nested(u)']
  BY OthersNested DEF NestingOK, lockVars
<1>2. waiting' \subseteq {u \in IOThread : pc'[u] \in EnterLabel}
  BY DEF NestingOK, Alone, lockVars
<1> QED
  BY <1>1, <1>2 DEF NestingOK, lockVars

\* The orders of the four kinds of nesting.
LEMMA Orders ==
  ASSUME NEW s
  PROVE  /\ SessionManagerLock.mLockOrder = 1 /\ PlayerLock(s).mLockOrder = 2
         /\ PlayerManagerLock.mLockOrder = 3
  BY DEF SessionManagerLock, PlayerLock, PlayerManagerLock, LO_FIRST_CLASS, LO_BUSINESS_CLASS,
     LO_ECONOMLY_CLASS

\* The steps that enter a lock: none of its assertions fails.
LEMMA EnteringSteps ==
  ASSUME JobInv, NestingOK, ~failed' \/ MAX_LOCK_DEPTH >= 3, NEW t \in IOThread,
         \/ DoTimerJob(t) \/ Start(t) \/ RunTask(t) \/ SessionReset(t) \/ PlayerReset(t)
         \/ \E s \in Session : ReturnClientSession(t, s)
  PROVE  NestingOK'
<1> USE DEF JobInv, PlayerTypeOK, Enter, Step
<1>0. MAX_LOCK_DEPTH \in Nat /\ mLockStack[t] = Nested(t)
  BY LockAssumption DEF NestingOK
<1>1. CASE DoTimerJob(t)
  <2>1. PICK job \in Job : job = mTimerJobQueue[t][1]
    BY <1>1, ElementOfSeq, LenProperties, EmptySeq DEF DoTimerJob
  <2>2. /\ pc[t] = "DoTimerJob" /\ pc' = [pc EXCEPT ![t] = job.mTask]
        /\ job.mTask \in {"Start", "OnTick"} /\ running' = [running EXCEPT ![t] = job]
        /\ arg' = arg /\ EnterLock(t, PlayerLock(job.mOwner))
    BY <1>1, <2>1 DEF DoTimerJob, Job
  <2>3. Nested(t) = << >> /\ Nested(t)' = <<PlayerLock(job.mOwner)>>
    BY <2>2 DEF Nested
  <2>4. MayPush(t, PlayerLock(job.mOwner))
    BY <1>0, <2>2, <2>3 DEF MayPush, EnterLock
  <2>5. Alone(t) /\ pc'[t] \in EnterLabel
    BY <2>2 DEF Alone, EnterLabel
  <2> QED
    BY <2>2, <2>3, <2>4, <2>5, Tuples, EnterNests
<1>2. CASE Start(t) \/ RunTask(t)
  <2>1. PICK o : o = PlayerLock(running[t].mOwner)
    OBVIOUS
  <2>2. /\ pc[t] \in {"Start", "runbuff", "rundecay"} /\ EnterLock(t, PlayerManagerLock)
        /\ pc'[t] \in {"RegisterPlayer", "buffs", "decays"} /\ Alone(t)
        /\ running' = running
    BY <1>2 DEF Start, RunTask, timerVars, Alone
  <2>3. Nested(t) = <<o>> /\ Nested(t)' = <<o, PlayerManagerLock>>
    BY <2>1, <2>2 DEF Nested
  <2>4. MayPush(t, PlayerManagerLock)
    <3>1. LastLock(t) = o /\ Len(mLockStack[t]) = 1
      BY <1>0, <2>3, Tuples DEF LastLock
    <3> QED
      BY <1>0, <2>1, <2>2, <3>1, Orders DEF MayPush, EnterLock
  <2>5. pc'[t] \in EnterLabel
    BY <2>2 DEF EnterLabel
  <2> QED
    BY <2>2, <2>3, <2>4, <2>5, Tuples, EnterNests
<1>3. ASSUME NEW s \in Session, ReturnClientSession(t, s)
      PROVE  NestingOK'
  <2>1. /\ pc[t] = "GetQueuedCompletionStatus" /\ pc'[t] = "SessionReset"
        /\ EnterLock(t, SessionManagerLock) /\ Alone(t)
    BY <1>3 DEF ReturnClientSession, Alone, timerVars
  <2>2. Nested(t) = << >> /\ Nested(t)' = <<SessionManagerLock>>
    BY <2>1 DEF Nested
  <2>3. MayPush(t, SessionManagerLock)
    BY <1>0, <2>1, <2>2 DEF MayPush, EnterLock
  <2>4. pc'[t] \in EnterLabel
    BY <2>1 DEF EnterLabel
  <2> QED
    BY <2>1, <2>2, <2>3, <2>4, Tuples, EnterNests
<1>4. CASE SessionReset(t)
  <2>1. PICK o : o = PlayerLock(arg[t])
    OBVIOUS
  <2>2. /\ pc[t] = "SessionReset" /\ pc'[t] = "PlayerReset" /\ arg'[t] = arg[t]
        /\ EnterLock(t, o) /\ Alone(t)
    BY <1>4, <2>1 DEF SessionReset, Alone, timerVars
  <2>3. Nested(t) = <<SessionManagerLock>> /\ Nested(t)' = <<SessionManagerLock, o>>
    BY <2>1, <2>2 DEF Nested
  <2>4. MayPush(t, o)
    <3>1. LastLock(t) = SessionManagerLock /\ Len(mLockStack[t]) = 1
      BY <1>0, <2>3, Tuples DEF LastLock
    <3> QED
      BY <1>0, <2>1, <2>2, <3>1, Orders DEF MayPush, EnterLock
  <2>5. pc'[t] \in EnterLabel
    BY <2>2 DEF EnterLabel
  <2> QED
    BY <2>2, <2>3, <2>4, <2>5, Tuples, EnterNests
<1>5. CASE PlayerReset(t)
  <2>1. PICK o : o = PlayerLock(arg[t])
    OBVIOUS
  <2>2. /\ pc[t] = "PlayerReset" /\ pc'[t] = "UnregisterPlayer" /\ arg'[t] = arg[t]
        /\ EnterLock(t, PlayerManagerLock) /\ Alone(t)
    BY <1>5 DEF PlayerReset, Alone, timerVars
  <2>3. /\ Nested(t) = <<SessionManagerLock, o>>
        /\ Nested(t)' = <<SessionManagerLock, o, PlayerManagerLock>>
    BY <2>1, <2>2 DEF Nested
  <2>4. MayPush(t, PlayerManagerLock)
    <3>1. LastLock(t) = o /\ Len(mLockStack[t]) = 2
      BY <1>0, <2>3, Tuples DEF LastLock
    <3> QED
      BY <1>0, <2>1, <2>2, <3>1, Orders DEF MayPush, EnterLock
  <2>5. pc'[t] \in EnterLabel
    BY <2>2 DEF EnterLabel
  <2> QED
    BY <2>2, <2>3, <2>4, <2>5, Tuples, EnterNests
<1> QED
  BY <1>1, <1>2, <1>3, <1>4, <1>5

\* The lock on top of the nesting is the one that is left.
LEMMA TopMayPop ==
  ASSUME NestingOK, NEW t \in IOThread, NEW a, NEW b, NEW c, NEW l,
         \/ Nested(t) = <<a>> /\ l = a
         \/ Nested(t) = <<a, b>> /\ l = b
         \/ Nested(t) = <<a, b, c>> /\ l = c
  PROVE  MayPop(t, l)
<1>1. mLockStack[t] = Nested(t)
  BY DEF NestingOK
<1>2. /\ Len(<<a>>) = 1 /\ Len(<<a, b>>) = 2 /\ Len(<<a, b, c>>) = 3
      /\ <<a>> # << >> /\ <<a, b>> # << >> /\ <<a, b, c>> # << >>
  OBVIOUS
<1>3. CASE Nested(t) = <<a>> /\ l = a
  BY <1>1, <1>2, <1>3 DEF MayPop, LastLock
<1>4. CASE Nested(t) = <<a, b>> /\ l = b
  BY <1>1, <1>2, <1>4 DEF MayPop, LastLock
<1>5. CASE Nested(t) = <<a, b, c>> /\ l = c
  BY <1>1, <1>2, <1>5 DEF MayPop, LastLock
<1> QED
  BY <1>3, <1>4, <1>5

\* A thread has not left the lock of its job's owner, but that of another player.
DanglingFails == \E t \in dangling : pc[t] = "pop" /\ mLockStack[t] # << >>

\* The steps that leave a lock: it is the one that was entered last.
LEMMA LeavingSteps ==
  ASSUME JobInv, NestingOK, ~failed' \/ ~DanglingFails', NEW t \in IOThread,
         \/ LeaveOwner(t) \/ RegisterPlayer(t) \/ TaskDone(t) \/ UnregisterPlayer(t)
         \/ PlayerResetEnds(t) \/ SessionReturned(t)
  PROVE  NestingOK'
<1> USE DEF JobInv, PlayerTypeOK, Leave, Step
<1>1. CASE LeaveOwner(t)
  <2>1. PICK o : o = PlayerLock(running[t].mOwner)
    OBVIOUS
  <2>2. pc[t] = "LeaveLock" /\ pc'[t] = "pop" /\ Alone(t)
    BY <1>1 DEF LeaveOwner, Alone, timerVars
  <2>3. Nested(t) = <<o>> /\ Nested(t)' = << >>
    BY <2>1, <2>2 DEF Nested
  <2>4. MayPop(t, o)
    BY <2>3, TopMayPop
  <2>5. LeaveLock(t, o)
    <3>1. PICK l : /\ LeaveLock(t, l)
                   /\ t \notin dangling => l = o
      BY <1>1, <2>1 DEF LeaveOwner
    <3>2. CASE MayPop(t, l)
      BY <2>4, <3>1, <3>2 DEF MayPop
    <3>3. CASE ~MayPop(t, l) /\ t \in dangling
      <4>1. failed' /\ mLockStack' = mLockStack
        BY <3>1, <3>3 DEF LeaveLock
      <4>2. t \in dangling' /\ mLockStack'[t] # << >>
        BY <1>1, <2>4, <3>3, <4>1 DEF LeaveOwner, timerVars, MayPop
      <4> QED
        BY <2>2, <4>1, <4>2 DEF DanglingFails
    <3> QED
      BY <2>4, <3>1, <3>2, <3>3
  <2> QED
    BY <2>2, <2>3, <2>4, <2>5, WithoutTop, LeaveNests
<1>2. CASE RegisterPlayer(t) \/ TaskDone(t)
  <2>1. PICK o : o = PlayerLock(running[t].mOwner)
    OBVIOUS
  <2>2. /\ pc[t] \in {"RegisterPlayer", "buffs", "decays"} /\ LeaveLock(t, PlayerManagerLock)
        /\ pc'[t] \in {"OnTick", "decay", "runbuff", "rearm", "rundecay"} /\ Alone(t)
        /\ running' = running
    BY <1>2 DEF RegisterPlayer, TaskDone, timerVars, Alone
  <2>3. Nested(t) = <<o, PlayerManagerLock>> /\ Nested(t)' = <<o>>
    BY <2>1, <2>2 DEF Nested
  <2>4. MayPop(t, PlayerManagerLock)
    BY <2>3, TopMayPop
  <2> QED
    BY <2>2, <2>3, <2>4, WithoutTop, LeaveNests
<1>3. CASE UnregisterPlayer(t)
  <2>1. PICK o : o = PlayerLock(arg[t])
    OBVIOUS
  <2>2. /\ pc[t] = "UnregisterPlayer" /\ pc'[t] = "reset" /\ LeaveLock(t, PlayerManagerLock)
        /\ arg' = arg /\ Alone(t)
    BY <1>3 DEF UnregisterPlayer, timerVars, Alone
  <2>3. /\ Nested(t) = <<SessionManagerLock, o, PlayerManagerLock>>
        /\ Nested(t)' = <<SessionManagerLock, o>>
    BY <2>1, <2>2 DEF Nested
  <2>4. MayPop(t, PlayerManagerLock)
    BY <2>3, TopMayPop
  <2> QED
    BY <2>2, <2>3, <2>4, WithoutTop, LeaveNests
<1>4. CASE PlayerResetEnds(t)
  <2>1. PICK o : o = PlayerLock(arg[t])
    OBVIOUS
  <2>2. /\ pc[t] = "reset" /\ pc'[t] = "free" /\ LeaveLock(t, o)
        /\ arg' = arg /\ Alone(t)
    BY <1>4, <2>1 DEF PlayerResetEnds, timerVars, Alone
  <2>3. Nested(t) = <<SessionManagerLock, o>> /\ Nested(t)' = <<SessionManagerLock>>
    BY <2>1, <2>2 DEF Nested
  <2>4. MayPop(t, o)
    BY <2>3, TopMayPop
  <2> QED
    BY <2>2, <2>3, <2>4, WithoutTop, LeaveNests
<1>5. CASE SessionReturned(t)
  <2>1. /\ pc[t] = "free" /\ pc'[t] = "DoTimerJob" /\ LeaveLock(t, SessionManagerLock)
        /\ Alone(t)
    BY <1>5 DEF SessionReturned, NextRound, Alone
  <2>2. Nested(t) = <<SessionManagerLock>> /\ Nested(t)' = << >>
    BY <2>1 DEF Nested
  <2>3. MayPop(t, SessionManagerLock)
    BY <2>2, TopMayPop
  <2> QED
    BY <2>1, <2>2, <2>3, WithoutTop, LeaveNests
<1> QED
  BY <1>1, <1>2, <1>3, <1>4, <1>5

\* The steps that touch no lock, and those of the clock and of a waiting thread.
LEMMA StayingSteps ==
  ASSUME JobInv, NestingOK, NEW t \in IOThread,
         \/ DoTimerJobEnds(t) \/ Pop(t) \/ OnTick(t)
         \/ \E task \in {"buff", "decay"} : GCEDispatch(t, task)
         \/ Rearm(t)
         \/ \E s \in Session :
              AcceptCompletion(t, s) \/ AcceptCompletionFails(t, s) \/ IoCompletion(t, s)
  PROVE  NestingOK'
<1> USE DEF JobInv, PlayerTypeOK, Step, NextRound
<1>1. t \notin waiting /\ UNCHANGED lockVars /\ Alone(t)
  BY DEF DoTimerJobEnds, Pop, OnTick, GCEDispatch, Rearm, AcceptCompletion,
         AcceptCompletionFails, IoCompletion, timerVars, Alone
<1>2. Nested(t)' = Nested(t)
  <2>1. CASE \/ DoTimerJobEnds(t) \/ Pop(t)
             \/ \E s \in Session :
                  AcceptCompletion(t, s) \/ AcceptCompletionFails(t, s) \/ IoCompletion(t, s)
    <3>1. /\ pc[t] \in {"DoTimerJob", "GetQueuedCompletionStatus", "pop"}
          /\ pc'[t] \in {"DoTimerJob", "GetQueuedCompletionStatus", "pop"}
      BY <2>1 DEF DoTimerJobEnds, Pop, AcceptCompletion, AcceptCompletionFails, IoCompletion
    <3> QED
      BY <3>1 DEF Nested
  <2>2. CASE OnTick(t) \/ Rearm(t) \/ \E task \in {"buff", "decay"} : GCEDispatch(t, task)
    <3>1. /\ pc[t] \in {"OnTick", "buff", "decay", "rearm"}
          /\ pc'[t] \in {"LeaveLock", "buff", "decay", "rearm", "runbuff", "rundecay"}
          /\ running' = running
      BY <2>2 DEF OnTick, Rearm, GCEDispatch, After, timerVars
    <3> QED
      BY <3>1 DEF Nested
  <2> QED
    BY <2>1, <2>2
<1> QED
  BY <1>1, <1>2, StayNests

LEMMA OutsideNests ==
  ASSUME NestingOK,
         Clock \/ UNCHANGED vars \/ \E t \in IOThread : SpinEnds(t)
  PROVE  NestingOK'
<1>1. /\ UNCHANGED <<pc, running, arg, mLockStack, failed>>
      /\ waiting' \subseteq waiting
  BY DEF Clock, vars, SpinEnds, Acquire, timerVars, lockVars
<1> QED
  BY <1>1 DEF NestingOK, Nested

LEMMA InitNests == Init => NestingOK
<1> SUFFICES ASSUME Init PROVE NestingOK
  OBVIOUS
<1>1. \A t \in IOThread : Nested(t) = << >>
  BY DEF Init, Nested
<1> QED
  BY <1>1 DEF Init, LockInit, NestingOK

\* The only assertion that can fail is the one of a dangling reference.
LEMMA NextNests ==
  ASSUME JobInv, NestingOK, [Next]_vars, ~failed' \/ (MAX_LOCK_DEPTH >= 3 /\ ~DanglingFails')
  PROVE  NestingOK'
<1>1. CASE Clock \/ UNCHANGED vars
  BY <1>1, OutsideNests
<1>2. ASSUME NEW t \in IOThread, Completion(t)
      PROVE  NestingOK'
  BY <1>2, EnteringSteps, StayingSteps DEF Completion
<1>3. ASSUME NEW t \in IOThread, Continue(t)
      PROVE  NestingOK'
  BY <1>3, EnteringSteps, LeavingSteps, StayingSteps, OutsideNests DEF Continue
<1> QED
  BY <1>1, <1>2, <1>3 DEF Next

\* No assertion of the lock-order checker fails, however the threads, the timers
\* and the session returns interleave, but the one of a thread whose reference
\* into its timer queue dangles: for a lock stack that takes the three nested locks.
THEOREM OnlyDanglingReferencesFail ==
  ASSUME MAX_LOCK_DEPTH >= 3
  PROVE  Spec => []OnlyDanglingFails
<1> DEFINE Inv == NestingOK \/ (failed /\ DanglingFails)
<1>1. Init => JobInv /\ Inv
  BY InitJobInv, InitNests
<1>2. JobInv /\ Inv /\ [Next]_vars => (JobInv /\ Inv)'
  <2> SUFFICES ASSUME JobInv, Inv, [Next]_vars PROVE Inv'
    BY NextJobInv
  <2>1. CASE NestingOK
    BY <2>1, NextNests
  <2>2. CASE failed /\ DanglingFails
    BY <2>2 DEF Next, vars, lockVars, timerVars, DanglingFails
  <2> QED
    BY <2>1, <2>2
<1>3. Inv => OnlyDanglingFails
  BY DEF NestingOK, DanglingFails, OnlyDanglingFails
<1> HIDE DEF Inv
<1> QED
  BY <1>1, <1>2, <1>3, PTL DEF Spec

-----------------------------------------------------------------------------
(* The map of the players.                                                  *)

\* A thread that registers a player, or ends its reset, has the player's lock.
LEMMA OwnerLockHeld ==
  ASSUME NestingOK, NEW t \in IOThread, NEW s,
         \/ pc[t] \in {"Start", "RegisterPlayer"} /\ t \notin waiting /\ running[t].mOwner = s
         \/ pc[t] = "RegisterPlayer" /\ running[t].mOwner = s
         \/ pc[t] \in {"reset", "UnregisterPlayer"} /\ arg[t] = s
  PROVE  Holds(t, PlayerLock(s))
<1> DEFINE o == PlayerLock(s)
<1>1. mLockStack[t] = Nested(t)
  BY DEF NestingOK
<1>2. CASE pc[t] = "Start" /\ t \notin waiting /\ running[t].mOwner = s
  <2>1. mLockStack[t] = <<o>>
    BY <1>1, <1>2 DEF Nested
  <2>2. Len(mLockStack[t]) = 1 /\ mLockStack[t][1] = o
    BY <2>1
  <2> QED
    BY <1>2, <2>2 DEF Holds
<1>3. CASE pc[t] = "RegisterPlayer" /\ running[t].mOwner = s
  <2>1. mLockStack[t] = <<o, PlayerManagerLock>>
    BY <1>1, <1>3 DEF Nested
  <2>2. Len(mLockStack[t]) = 2 /\ mLockStack[t][1] = o
    BY <2>1
  <2> QED
    BY <2>2 DEF Holds
<1>4. CASE pc[t] = "reset" /\ arg[t] = s
  <2>1. mLockStack[t] = <<SessionManagerLock, o>> /\ t \notin waiting
    BY <1>1, <1>4 DEF Nested, NestingOK, EnterLabel
  <2>2. Len(mLockStack[t]) = 2 /\ mLockStack[t][2] = o
    BY <2>1
  <2> QED
    BY <2>1, <2>2 DEF Holds
<1>5. CASE pc[t] = "UnregisterPlayer" /\ arg[t] = s
  <2>1. mLockStack[t] = <<SessionManagerLock, o, PlayerManagerLock>>
    BY <1>1, <1>5 DEF Nested
  <2>2. Len(mLockStack[t]) = 3 /\ mLockStack[t][2] = o
    BY <2>1
  <2> QED
    BY <2>2 DEF Holds
<1> QED
  BY <1>2, <1>3, <1>4, <1>5

LEMMA NestedIsRegistered == JobInv /\ NestingOK => AliveIsRegistered
<1> SUFFICES ASSUME JobInv, NestingOK, NEW s \in Session, mIsAlive[s],
                    \A t \in IOThread : ~Holds(t, PlayerLock(s))
             PROVE  Registered(s) /\ mPlayerMap[mPlayerId[s]] = s
  BY DEF AliveIsRegistered, Registered
<1>1. RegistrationOK(s)
  BY DEF JobInv
<1>2. \A t \in IOThread : /\ ~(pc[t] = "RegisterPlayer" /\ running[t].mOwner = s)
                          /\ ~(pc[t] = "reset" /\ arg[t] = s)
  BY OwnerLockHeld
<1> QED
  BY <1>1, <1>2 DEF RegistrationOK

\* A thread comes to the registration from Start, to the end of the reset from
\* UnregisterPlayer.
LEMMA ComesFrom ==
  ASSUME JobInv, NEW t \in IOThread, Completion(t) \/ Continue(t), NEW u \in IOThread
  PROVE  /\ pc'[u] = "RegisterPlayer" =>
              /\ running'[u] = running[u]
              /\ pc[u] = "RegisterPlayer" \/ (pc[u] = "Start" /\ u \notin waiting)
         /\ pc'[u] = "reset" => arg'[u] = arg[u] /\ pc[u] \in {"reset", "UnregisterPlayer"}
<1>0. /\ pc \in [IOThread -> {"DoTimerJob", "GetQueuedCompletionStatus"} \union JobLabel
                                \union ReturnLabel]
      /\ running \in [IOThread -> Job \union {None}] /\ arg \in [IOThread -> Session \union {None}]
  BY DEF JobInv, PlayerTypeOK
<1> USE <1>0 DEF Enter, Leave, Step, NextRound, timerVars
<1>1. CASE Completion(t)
  <2>1. ASSUME NEW s \in Session, AcceptCompletion(t, s) \/ AcceptCompletionFails(t, s) \/ IoCompletion(t, s)
        PROVE  pc' = [pc EXCEPT ![t] = "DoTimerJob"] /\ running' = running /\ arg' = arg
    BY <2>1 DEF AcceptCompletion, AcceptCompletionFails, IoCompletion
  <2>2. ASSUME NEW s \in Session, ReturnClientSession(t, s)
        PROVE  /\ pc[t] = "GetQueuedCompletionStatus" /\ pc' = [pc EXCEPT ![t] = "SessionReset"]
               /\ running' = running /\ arg' = [arg EXCEPT ![t] = s]
    BY <2>2 DEF ReturnClientSession
  <2> QED
    BY <1>1, <2>1, <2>2 DEF Completion
<1>2. CASE DoTimerJob(t)
  <2>1. PICK job \in Job : job = mTimerJobQueue[t][1]
    BY <1>2, ElementOfSeq, LenProperties, EmptySeq DEF DoTimerJob, JobInv, PlayerTypeOK
  <2>2. job.mTask \in {"Start", "OnTick"}
    BY DEF Job
  <2>3. /\ pc' = [pc EXCEPT ![t] = job.mTask] /\ running' = [running EXCEPT ![t] = job]
        /\ pc[t] = "DoTimerJob" /\ arg' = arg
    BY <1>2, <2>1 DEF DoTimerJob
  <2> QED
    BY <2>2, <2>3
<1>3. CASE DoTimerJobEnds(t) \/ LeaveOwner(t) \/ RegisterPlayer(t) \/ OnTick(t)
  <2>1. PICK l : pc' = [pc EXCEPT ![t] = l] /\ l \notin {"RegisterPlayer", "reset"}
    BY <1>3 DEF DoTimerJobEnds, LeaveOwner, RegisterPlayer, OnTick
  <2>2. running' = running /\ arg' = arg
    BY <1>3 DEF DoTimerJobEnds, LeaveOwner, RegisterPlayer, OnTick
  <2> QED
    BY <2>1, <2>2
<1>4. CASE Pop(t)
  <2>1. /\ pc' = [pc EXCEPT ![t] = "DoTimerJob"] /\ running' = [running EXCEPT ![t] = None]
        /\ arg' = arg
    BY <1>4 DEF Pop
  <2> QED
    BY <2>1
<1>5. CASE Start(t)
  <2>1. /\ pc[t] = "Start" /\ t \notin waiting /\ pc' = [pc EXCEPT ![t] = "RegisterPlayer"]
        /\ running' = running /\ arg' = arg
    BY <1>5 DEF Start
  <2> QED
    BY <2>1
<1>6. CASE \/ \E task \in {"buff", "decay"} : GCEDispatch(t, task)
           \/ RunTask(t) \/ TaskDone(t) \/ Rearm(t)
  <2>1. PICK l : pc' = [pc EXCEPT ![t] = l] /\ l \notin {"RegisterPlayer", "reset"}
    BY <1>6 DEF GCEDispatch, After, RunTask, TaskDone, Rearm
  <2>2. running' = running /\ arg' = arg
    BY <1>6 DEF GCEDispatch, RunTask, TaskDone, Rearm
  <2> QED
    BY <2>1, <2>2
<1>7. CASE SessionReset(t) \/ PlayerReset(t) \/ PlayerResetEnds(t)
  <2>1. PICK l : pc' = [pc EXCEPT ![t] = l] /\ l \notin {"RegisterPlayer", "reset"}
    BY <1>7 DEF SessionReset, PlayerReset, PlayerResetEnds
  <2>2. running' = running /\ arg' = arg
    BY <1>7 DEF SessionReset, PlayerReset, PlayerResetEnds
  <2> QED
    BY <2>1, <2>2
<1>8. CASE UnregisterPlayer(t)
  <2>1. /\ pc[t] = "UnregisterPlayer" /\ pc' = [pc EXCEPT ![t] = "reset"]
        /\ running' = running /\ arg' = arg
    BY <1>8 DEF UnregisterPlayer
  <2> QED
    BY <2>1
<1>9. CASE SessionReturned(t)
  <2>1. /\ pc' = [pc EXCEPT ![t] = "DoTimerJob"] /\ running' = running
        /\ arg' = [arg EXCEPT ![t] = None]
    BY <1>9 DEF SessionReturned
  <2> QED
    BY <2>1
<1>10. CASE SpinEnds(t)
  <2>1. pc' = pc /\ running' = running /\ arg' = arg
    BY <1>10 DEF SpinEnds
  <2> QED
    BY <2>1
<1> QED
  BY <1>1, <1>2, <1>3, <1>4, <1>5, <1>6, <1>7, <1>8, <1>9, <1>10 DEF Continue

\* The step at which an assertion fails changes no lock.
LEMMA FailingStep ==
  ASSUME NestingOK, NEW t \in IOThread, Completion(t) \/ Continue(t), failed'
  PROVE  mLockStack' = mLockStack /\ waiting' = waiting
<1>1. ~failed
  BY DEF NestingOK
<1>2. CASE Completion(t)
  BY <1>1, <1>2 DEF Completion, AcceptCompletion, AcceptCompletionFails, IoCompletion, ReturnClientSession, Enter,
     EnterLock, lockVars
<1>3. CASE \/ DoTimerJobEnds(t) \/ DoTimerJob(t) \/ LeaveOwner(t) \/ Pop(t) \/ Start(t)
           \/ RegisterPlayer(t) \/ OnTick(t)
  BY <1>1, <1>3 DEF DoTimerJobEnds, DoTimerJob, LeaveOwner, Pop, Start, RegisterPlayer, OnTick,
     Enter, Leave, EnterLock, LeaveLock, lockVars
<1>4. CASE \/ \E task \in {"buff", "decay"} : GCEDispatch(t, task)
           \/ RunTask(t) \/ TaskDone(t) \/ Rearm(t)
  BY <1>1, <1>4 DEF GCEDispatch, RunTask, TaskDone, Rearm, Enter, Leave, EnterLock, LeaveLock, lockVars
<1>5. CASE \/ SessionReset(t) \/ PlayerReset(t) \/ UnregisterPlayer(t) \/ PlayerResetEnds(t)
           \/ SessionReturned(t) \/ SpinEnds(t)
  BY <1>1, <1>5 DEF SessionReset, PlayerReset, UnregisterPlayer, PlayerResetEnds, SessionReturned,
     SpinEnds, Acquire, Enter, Leave, EnterLock, LeaveLock, lockVars
<1> QED
  BY <1>2, <1>3, <1>4, <1>5 DEF Continue

\* Until an assertion fails the locks nest; where one does, the map is still right.
NestedOrFailed == NestingOK \/ (failed /\ AliveIsRegistered)

LEMMA NextNestedOrFailed == JobInv /\ NestedOrFailed /\ [Next]_vars => NestedOrFailed'
<1> SUFFICES ASSUME JobInv, NestedOrFailed, [Next]_vars
             PROVE  NestedOrFailed'
  OBVIOUS
<1>1. CASE UNCHANGED vars
  BY <1>1 DEF NestedOrFailed, NestingOK, Nested, AliveIsRegistered, Holds, PlayerLock, vars, lockVars,
     timerVars, playerVars, mapVars
<1>2. CASE failed /\ Next
  BY <1>2 DEF Next
<1>3. CASE NestingOK /\ ~failed'
  BY <1>3, NextNests DEF NestedOrFailed
<1>4. CASE NestingOK /\ failed' /\ Next
  <2>1. PICK t \in IOThread : Completion(t) \/ Continue(t)
    BY <1>4 DEF Next, Clock, lockVars, NestingOK
  <2>2. mLockStack' = mLockStack /\ waiting' = waiting
    BY <1>4, <2>1, FailingStep
  <2>3. JobInv'
    BY NextJobInv
  <2> SUFFICES ASSUME NEW s \in Session, mIsAlive'[s],
                      \A u \in IOThread : ~Holds(u, PlayerLock(s))'
               PROVE  Registered(s)' /\ mPlayerMap'[mPlayerId'[s]] = s
    BY <1>4 DEF NestedOrFailed, AliveIsRegistered, Registered
  <2>4. \A u \in IOThread : ~Holds(u, PlayerLock(s))
    BY <2>2 DEF Holds, PlayerLock
  <2>5. ASSUME NEW u \in IOThread
        PROVE  /\ ~(pc'[u] = "RegisterPlayer" /\ running'[u].mOwner = s)
               /\ ~(pc'[u] = "reset" /\ arg'[u] = s)
    BY <1>4, <2>1, <2>4, OwnerLockHeld, ComesFrom
  <2>6. RegistrationOK(s)'
    BY <2>3 DEF JobInv
  <2> QED
    BY <2>5, <2>6 DEF RegistrationOK
<1> QED
  BY <1>1, <1>2, <1>3, <1>4 DEF NestedOrFailed

\* A player that is alive is in the map under its number whenever its lock is
\* free, whatever order its late Start and the reset of its session come in,
\* and even where an assertion ends the program.
THEOREM AlivePlayersRegistered == Spec => []AliveIsRegistered
<1>1. Init => JobInv /\ NestedOrFailed
  BY InitJobInv, InitNests DEF NestedOrFailed
<1>2. JobInv /\ NestedOrFailed /\ [Next]_vars => (JobInv /\ NestedOrFailed)'
  BY NextJobInv, NextNestedOrFailed
<1>3. JobInv /\ NestedOrFailed => AliveIsRegistered
  BY NestedIsRegistered DEF NestedOrFailed
<1> QED
  BY <1>1, <1>2, <1>3, PTL DEF Spec

-----------------------------------------------------------------------------
(* Players is a program that uses the locks with an order.                  *)

LEMMA LocksOfPlayers ==
  /\ SessionManagerLock \in Lock /\ PlayerManagerLock \in Lock
  /\ \A s \in Session : PlayerLock(s) \in Lock
  BY DEF Lock, LockOrder, SessionManagerLock, PlayerManagerLock, PlayerLock, LO_FIRST_CLASS,
     LO_BUSINESS_CLASS, LO_ECONOMLY_CLASS, LO_LUGGAGE_CLASS

LEMMA LockStep ==
  ASSUME JobInv, [Next]_vars
  PROVE  [LockNext]_lockVars
<1>0. ASSUME NEW t \in IOThread, NEW l \in Lock, EnterLock(t, l) \/ LeaveLock(t, l)
      PROVE  LockNext
  BY <1>0 DEF LockNext
<1> USE DEF Enter, Leave
<1>1. CASE Clock \/ UNCHANGED vars
  BY <1>1 DEF Clock, vars
<1>2. ASSUME NEW t \in IOThread, Completion(t)
      PROVE  [LockNext]_lockVars
  BY <1>0, <1>2, LocksOfPlayers DEF Completion, AcceptCompletion, AcceptCompletionFails, IoCompletion, ReturnClientSession
<1>3. ASSUME NEW t \in IOThread, DoTimerJob(t)
      PROVE  LockNext
  <2>1. mTimerJobQueue[t][1] \in Job
    BY <1>3, ElementOfSeq, LenProperties, EmptySeq DEF DoTimerJob, JobInv, PlayerTypeOK
  <2>2. PlayerLock(mTimerJobQueue[t][1].mOwner) \in Lock
    BY <2>1, LocksOfPlayers DEF Job
  <2> QED
    BY <1>0, <1>3, <2>2 DEF DoTimerJob
<1>4. ASSUME NEW t \in IOThread, LeaveOwner(t)
      PROVE  LockNext
  <2>1. running[t] \in Job
    <3>1. pc[t] \in JobLabel
      BY <1>4 DEF LeaveOwner, JobLabel
    <3> QED
      BY <3>1 DEF JobInv, TimerOK, PlayerTypeOK
  <2>2. running[t].mOwner \in Session
    BY <2>1 DEF Job
  <2> QED
    BY <1>0, <1>4, <2>2, LocksOfPlayers DEF LeaveOwner
<1>5. ASSUME NEW t \in IOThread, SessionReset(t) \/ PlayerResetEnds(t)
      PROVE  LockNext
  <2>1. pc[t] \in ReturnLabel
    BY <1>5 DEF SessionReset, PlayerResetEnds, Step, ReturnLabel
  <2>2. arg[t] \in Session
    BY <2>1 DEF JobInv, TimerOK, PlayerTypeOK
  <2> QED
    BY <1>0, <1>5, <2>2, LocksOfPlayers DEF SessionReset, PlayerResetEnds
<1>6. ASSUME NEW t \in IOThread,
             \/ Start(t) \/ RegisterPlayer(t) \/ RunTask(t) \/ TaskDone(t)
             \/ PlayerReset(t) \/ UnregisterPlayer(t) \/ SessionReturned(t) \/ SpinEnds(t)
      PROVE  LockNext
  <2>1. Acquire(t) => LockNext
    BY DEF LockNext
  <2> QED
    BY <1>0, <1>6, <2>1, LocksOfPlayers DEF Start, RegisterPlayer, RunTask, TaskDone, PlayerReset,
       UnregisterPlayer, SessionReturned, SpinEnds
<1>7. ASSUME NEW t \in IOThread,
             \/ DoTimerJobEnds(t) \/ Pop(t) \/ OnTick(t) \/ Rearm(t)
             \/ \E task \in {"buff", "decay"} : GCEDispatch(t, task)
      PROVE  UNCHANGED lockVars
  BY <1>7 DEF DoTimerJobEnds, Pop, OnTick, Rearm, GCEDispatch
<1> QED
  BY <1>1, <1>2, <1>3, <1>4, <1>5, <1>6, <1>7 DEF Next, Continue

\* Session return, timers, players and executer use the locks as the checker
\* asks: Players implements the specification of the locks with an order.
THEOREM PlayersImplementLocks == Spec => LockSpec
<1>1. Init => JobInv /\ LockInit
  BY InitJobInv DEF Init
<1>2. JobInv /\ [Next]_vars => JobInv'
  BY NextJobInv
<1>3. JobInv /\ [Next]_vars => [LockNext]_lockVars
  BY LockStep
<1> QED
  BY <1>1, <1>2, <1>3, PTL DEF Spec, LockSpec

\* Hence no threads of Players wait for each other's locks in a circle, with or
\* without dangling references: before that an assertion ends the program.
THEOREM PlayersNeverCircle == Spec => []NoCircle
  BY PlayersImplementLocks, NoCircularWait, PTL

\* Nor does a thread wait for a task that another thread, waiting itself, has yet
\* to count: the executer goes on only while a task is counted.
THEOREM PlayersNeverDeadlock == Spec => []NoDeadlock
<1>1. Init => JobInv
  BY InitJobInv
<1>2. JobInv /\ [Next]_vars => JobInv'
  BY NextJobInv
<1>3. JobInv /\ NoCircle => NoDeadlock
  <2> SUFFICES ASSUME JobInv, NoCircle, NEW W \in (SUBSET IOThread) \ {{}}
               PROVE  \E t \in W : ~Stuck(t, W)
    BY DEF NoDeadlock
  <2>1. PICK t \in W : ~(t \in waiting /\ \E u \in W : Holds(u, LastLock(t)))
    BY DEF NoCircle
  <2>2. ~(pc[t] \in {"runbuff", "rundecay"} /\ mRemainTaskCount = 0)
    BY DEF JobInv, ExecuterOK, Executing
  <2> QED
    BY <2>1, <2>2 DEF Stuck
<1> QED
  BY <1>1, <1>2, <1>3, PlayersNeverCircle, PTL DEF Spec

-----------------------------------------------------------------------------
(* The numbers of the players: one for each accepted connection at most.    *)

LEMMA NotMore ==
  ASSUME NEW S, NEW T, IsFiniteSet(T), NEW f \in [S -> T],
         \A a, b \in S : f[a] = f[b] => a = b
  PROVE  IsFiniteSet(S) /\ Cardinality(S) <= Cardinality(T)
<1>1. f \in Injection(S, T)
  BY DEF Injection, IsInjective
<1> QED
  BY <1>1, FS_Injection

LEMMA Pending ==
  /\ \A t \in IOThread : \A i :
       <<t, i>> \in StartsPending <=> i \in 1 .. Len(mTimerJobQueue[t]) /\ StartPending(t, i)
  /\ \A p \in StartsPending : p = <<p[1], p[2]>> /\ p[1] \in IOThread
BY DEF StartsPending

\* No Start job more, and no number more.
LEMMA FewerStarts ==
  ASSUME JobInv, IssueOK, StartsPending' \subseteq StartsPending,
         mCurrentIssueId' = mCurrentIssueId, accepts' = accepts,
         \A u \in IOThread : pc'[u] \in {"Start", "RegisterPlayer"} => running'[u].mTask = "Start"
  PROVE  IssueOK'
<1>1. /\ IsFiniteSet(StartsPending') /\ Cardinality(StartsPending') <= Cardinality(StartsPending)
      /\ Cardinality(StartsPending') \in Nat /\ Cardinality(StartsPending) \in Nat
  BY FS_Subset, FS_CardinalityType DEF IssueOK
<1>2. mCurrentIssueId \in Nat /\ accepts \in Nat
  BY PlayersAssumption DEF JobInv, PlayerTypeOK
<1> QED
  BY <1>1, <1>2 DEF IssueOK

\* Steps of thread t that leave the queues alone.
LEMMA QueuesKept ==
  ASSUME JobInv, IssueOK, NEW t \in IOThread, NEW to,
         pc' = [pc EXCEPT ![t] = to],
         UNCHANGED <<mTimerJobQueue, mCurrentIssueId, accepts>>,
         \A u \in IOThread \ {t} : running'[u] = running[u],
         to \in {"Start", "RegisterPlayer"} => running'[t].mTask = "Start",
         running'[t] = None \/ to \in {"Start", "RegisterPlayer"} =>
           running[t] = None \/ pc[t] \in {"Start", "RegisterPlayer"}
  PROVE  IssueOK'
<1>1. /\ \A u \in IOThread \ {t} : pc'[u] = pc[u]
      /\ pc'[t] = to
  BY DEF JobInv, PlayerTypeOK
<1>2. \A u \in IOThread, k \in Nat : StartPending(u, k)' => StartPending(u, k)
  BY <1>1 DEF StartPending
<1>3. StartsPending' \subseteq StartsPending
  <2> SUFFICES ASSUME NEW u \in IOThread, NEW i \in 1 .. Len(mTimerJobQueue'[u]),
                      StartPending(u, i)'
               PROVE  <<u, i>> \in StartsPending
    BY DEF StartsPending
  <2>1. i \in Nat /\ i \in 1 .. Len(mTimerJobQueue[u])
    BY LenProperties DEF JobInv, PlayerTypeOK
  <2> QED
    BY <1>2, <2>1, Pending
<1>4. \A u \in IOThread : pc'[u] \in {"Start", "RegisterPlayer"} => running'[u].mTask = "Start"
  BY <1>1 DEF IssueOK
<1> QED
  BY <1>3, <1>4, FewerStarts

LEMMA KeepingIssue ==
  ASSUME JobInv, IssueOK, NEW t \in IOThread,
         \/ DoTimerJobEnds(t) \/ LeaveOwner(t) \/ Start(t) \/ OnTick(t) \/ RunTask(t) \/ TaskDone(t)
         \/ \E task \in {"buff", "decay"} : GCEDispatch(t, task)
         \/ SessionReset(t) \/ PlayerReset(t) \/ UnregisterPlayer(t) \/ PlayerResetEnds(t)
         \/ SessionReturned(t)
         \/ \E s \in Session :
              AcceptCompletionFails(t, s) \/ IoCompletion(t, s) \/ ReturnClientSession(t, s)
  PROVE  IssueOK'
<1>1. UNCHANGED <<mTimerJobQueue, mCurrentIssueId, accepts, running>>
  BY DEF timerVars, sessionVars, mapVars, DoTimerJobEnds, OnTick, RunTask, TaskDone, LeaveOwner,
     GCEDispatch, Start, SessionReset, PlayerReset, UnregisterPlayer, PlayerResetEnds,
     SessionReturned, AcceptCompletionFails, IoCompletion, ReturnClientSession
<1>2. \E to : pc' = [pc EXCEPT ![t] = to] /\ (to \in {"Start", "RegisterPlayer"} => pc[t] = "Start")
  <2> USE DEF Enter, Leave, Step, NextRound
  <2>1. CASE DoTimerJobEnds(t) \/ LeaveOwner(t) \/ Start(t)
    BY <2>1 DEF DoTimerJobEnds, LeaveOwner, Start
  <2>2. CASE OnTick(t)
    <3>1. PICK to \in {"LeaveLock", "buff", "decay"} : Step(t, "OnTick", to)
      BY <2>2 DEF OnTick
    <3> QED
      BY <3>1
  <2>3. CASE RunTask(t) \/ TaskDone(t)
    BY <2>3 DEF RunTask, TaskDone
  <2>4. CASE \E task \in {"buff", "decay"} : GCEDispatch(t, task)
    <3>1. PICK to \in {"decay", "rearm", "runbuff", "rundecay"} :
            pc' = [pc EXCEPT ![t] = to]
      BY <2>4 DEF GCEDispatch, After
    <3> QED
      BY <3>1
  <2>5. CASE \/ SessionReset(t) \/ PlayerReset(t) \/ UnregisterPlayer(t) \/ PlayerResetEnds(t)
             \/ SessionReturned(t)
    BY <2>5 DEF SessionReset, PlayerReset, UnregisterPlayer, PlayerResetEnds, SessionReturned
  <2>6. CASE \E s \in Session :
               AcceptCompletionFails(t, s) \/ IoCompletion(t, s) \/ ReturnClientSession(t, s)
    BY <2>6 DEF AcceptCompletionFails, IoCompletion, ReturnClientSession
  <2> QED
    BY <2>1, <2>2, <2>3, <2>4, <2>5, <2>6
<1>3. PICK to : /\ pc' = [pc EXCEPT ![t] = to]
                /\ to \in {"Start", "RegisterPlayer"} => pc[t] = "Start"
  BY <1>2
<1>4. to \in {"Start", "RegisterPlayer"} => running'[t].mTask = "Start"
  BY <1>1, <1>3 DEF IssueOK
<1> QED
  BY <1>1, <1>3, <1>4, QueuesKept

LEMMA DoTimerJobIssue ==
  ASSUME JobInv, IssueOK, NEW t \in IOThread, DoTimerJob(t)
  PROVE  IssueOK'
<1>1. /\ mTimerJobQueue[t] # << >> /\ pc[t] = "DoTimerJob"
      /\ running' = [running EXCEPT ![t] = mTimerJobQueue[t][1]]
      /\ pc' = [pc EXCEPT ![t] = mTimerJobQueue[t][1].mTask]
      /\ UNCHANGED <<mTimerJobQueue, mCurrentIssueId, accepts>>
  BY DEF DoTimerJob, Enter, Step, sessionVars, mapVars
<1>2. mTimerJobQueue[t][1] \in Job /\ running \in [IOThread -> Job \union {None}]
  BY <1>1, ElementOfSeq, LenProperties, EmptySeq DEF JobInv, PlayerTypeOK
<1>3. PICK job \in Job : job = mTimerJobQueue[t][1]
  BY <1>2
<1>4. job.mTask \in {"Start", "OnTick"} /\ running[t] = None
  <2>1. TimerOK(t)
    BY DEF JobInv
  <2> QED
    BY <1>1, <2>1 DEF Job, TimerOK, JobLabel
<1>5. running'[t] = job /\ \A u \in IOThread \ {t} : running'[u] = running[u]
  BY <1>1, <1>2, <1>3
<1>6. pc' = [pc EXCEPT ![t] = job.mTask]
  BY <1>1, <1>3
<1> QED
  BY <1>1, <1>4, <1>5, <1>6, QueuesKept

LEMMA RegisterPlayerIssue ==
  ASSUME JobInv, IssueOK, NEW t \in IOThread, RegisterPlayer(t)
  PROVE  IssueOK'
<1>1. /\ pc[t] = "RegisterPlayer" /\ pc' = [pc EXCEPT ![t] = "OnTick"]
      /\ mCurrentIssueId' = mCurrentIssueId + 1
      /\ UNCHANGED <<mTimerJobQueue, running, accepts>>
  BY DEF RegisterPlayer, Leave, Step, timerVars, sessionVars
<1>2. /\ running[t] # None /\ mTimerJobQueue[t] # << >> /\ mTimerJobQueue[t][1] = running[t]
      /\ running[t].mTask = "Start" /\ Len(mTimerJobQueue[t]) \in Nat \ {0}
  <2>1. TimerOK(t) /\ mTimerJobQueue[t] \in Seq(Job)
    BY DEF JobInv, PlayerTypeOK
  <2> QED
    BY <1>1, <2>1, LenProperties, EmptySeq DEF TimerOK, JobLabel, IssueOK
<1>3. <<t, 1>> \in StartsPending
  <2>1. StartPending(t, 1) /\ 1 \in 1 .. Len(mTimerJobQueue[t])
    BY <1>1, <1>2 DEF StartPending
  <2> QED
    BY <2>1, Pending
<1>4. \A u \in IOThread : pc'[u] = IF u = t THEN "OnTick" ELSE pc[u]
  BY <1>1 DEF JobInv, PlayerTypeOK
<1>5. StartsPending' \subseteq StartsPending \ {<<t, 1>>}
  <2> SUFFICES ASSUME NEW u \in IOThread, NEW i \in 1 .. Len(mTimerJobQueue'[u]),
                      StartPending(u, i)'
               PROVE  <<u, i>> \in StartsPending \ {<<t, 1>>}
    BY DEF StartsPending
  <2>1. i \in 1 .. Len(mTimerJobQueue[u]) /\ StartPending(u, i) /\ ~(u = t /\ i = 1)
    BY <1>1, <1>2, <1>4 DEF StartPending
  <2> QED
    BY <2>1, Pending
<1>6. /\ IsFiniteSet(StartsPending \ {<<t, 1>>})
      /\ Cardinality(StartsPending \ {<<t, 1>>}) = Cardinality(StartsPending) - 1
  BY <1>3, FS_RemoveElement DEF IssueOK
<1>7. /\ IsFiniteSet(StartsPending') /\ Cardinality(StartsPending') <= Cardinality(StartsPending) - 1
      /\ Cardinality(StartsPending') \in Nat /\ Cardinality(StartsPending) \in Nat
  BY <1>5, <1>6, FS_Subset, FS_CardinalityType DEF IssueOK
<1>8. mCurrentIssueId \in Nat /\ accepts \in Nat
  BY PlayersAssumption DEF JobInv, PlayerTypeOK
<1>9. mCurrentIssueId' + Cardinality(StartsPending') <= accepts'
  BY <1>1, <1>7, <1>8 DEF IssueOK
<1> QED
  BY <1>1, <1>4, <1>7, <1>9 DEF IssueOK

\* The first job of a queue is the one that runs, and the next one is appended.
LEMMA RearmIssue ==
  ASSUME JobInv, IssueOK, NEW t \in IOThread, Rearm(t)
  PROVE  IssueOK'
<1>1. /\ pc[t] = "rearm" /\ pc' = [pc EXCEPT ![t] = "LeaveLock"]
      /\ UNCHANGED <<LTickCount, running, accepts, mCurrentIssueId>>
  BY DEF Rearm, Step, sessionVars, mapVars
<1>2. /\ running[t] \in Job /\ running[t] # None /\ running[t].mOwner \in Session
      /\ mTimerJobQueue \in [IOThread -> Seq(Job)]
      /\ mTimerJobQueue[t] \in Seq(Job) /\ mTimerJobQueue[t] # << >>
      /\ mTimerJobQueue[t][1] = running[t] /\ running[t].mExecutionTick <= LTickCount[t]
  <2>1. TimerOK(t) /\ running[t] # None
    BY <1>1 DEF JobInv, TimerOK, JobLabel
  <2>2. running[t] \in Job
    BY <2>1 DEF JobInv, PlayerTypeOK
  <2> QED
    BY <2>1, <2>2 DEF JobInv, PlayerTypeOK, TimerOK, Job
<1>3. /\ Len(mTimerJobQueue[t]) \in Nat
      /\ \A u \in IOThread \ {t} : mTimerJobQueue'[u] = mTimerJobQueue[u]
      /\ \/ mTimerJobQueue'[t] = mTimerJobQueue[t]
         \/ /\ Len(mTimerJobQueue'[t]) = Len(mTimerJobQueue[t]) + 1
            /\ \A i \in 1 .. Len(mTimerJobQueue[t]) : mTimerJobQueue'[t][i] = mTimerJobQueue[t][i]
            /\ mTimerJobQueue'[t][Len(mTimerJobQueue[t]) + 1].mTask = "OnTick"
  <2>1. CASE ~(mHeartBeat[running[t].mOwner] > 0)
    BY <1>2, <2>1, LenProperties DEF Rearm
  <2>2. CASE mHeartBeat[running[t].mOwner] > 0
    <3>1. PICK after \in Nat \ {0} : after = mHeartBeat[running[t].mOwner]
      <4>1. mHeartBeat[running[t].mOwner] \in Nat \ {0}
        <5>1. mHeartBeat[running[t].mOwner] \in {-1, HeartBeat}
          BY <1>2 DEF JobInv, PlayerTypeOK
        <5>2. HeartBeat \in Nat \ {0}
          BY PlayersAssumption
        <5> QED
          BY <2>2, <5>1, <5>2
      <4> QED
        BY <4>1
    <3>2. PICK n \in Nat : n = LTickCount[t] /\ running[t].mExecutionTick <= n
      <4>1. LTickCount[t] \in 0 .. MaxTick /\ MaxTick \in Nat
        BY PlayersAssumption DEF JobInv, PlayerTypeOK
      <4>2. LTickCount[t] \in Nat
        BY <4>1
      <4> QED
        BY <1>2, <4>2
    <3>3. PICK job \in Job : job.mTask = "OnTick" /\ job.mExecutionTick = after + n
                          /\ mTimerJobQueue' = [mTimerJobQueue EXCEPT ![t] = Pushed(@, job)]
      <4> DEFINE job == [mOwner |-> running[t].mOwner, mTask |-> "OnTick",
                         mExecutionTick |-> after + LTickCount[t]]
      <4>1. job \in Job /\ job.mTask = "OnTick" /\ job.mExecutionTick = after + n
        BY <1>2, <3>1, <3>2 DEF Job
      <4>2. mTimerJobQueue' = [mTimerJobQueue EXCEPT ![t] = Pushed(@, job)]
        BY <2>2, <3>1 DEF Rearm, PushTimerJob
      <4> HIDE DEF job
      <4> QED
        BY <4>1, <4>2
    <3>4. ~(job.mExecutionTick < mTimerJobQueue[t][1].mExecutionTick)
      BY <1>2, <3>2, <3>3 DEF Job
    <3>5. mTimerJobQueue'[t] = Append(mTimerJobQueue[t], job)
      BY <1>2, <3>3, <3>4 DEF Pushed
    <3> QED
      BY <1>2, <3>3, <3>5, AppendProperties, LenProperties
  <2> QED
    BY <2>1, <2>2
<1>4. \A u \in IOThread : pc'[u] = IF u = t THEN "LeaveLock" ELSE pc[u]
  BY <1>1 DEF JobInv, PlayerTypeOK
<1>5. StartsPending' \subseteq StartsPending
  <2> SUFFICES ASSUME NEW u \in IOThread, NEW i \in 1 .. Len(mTimerJobQueue'[u]),
                      StartPending(u, i)'
               PROVE  <<u, i>> \in StartsPending
    BY DEF StartsPending
  <2>1. CASE u # t
    <3>1. i \in 1 .. Len(mTimerJobQueue[u]) /\ StartPending(u, i)
      BY <1>1, <1>3, <1>4, <2>1 DEF StartPending
    <3> QED
      BY <3>1, Pending
  <2>2. CASE u = t
    <3>1. i # Len(mTimerJobQueue[t]) + 1 \/ mTimerJobQueue'[t] = mTimerJobQueue[t]
      BY <1>3, <2>2 DEF StartPending
    <3>2. i \in 1 .. Len(mTimerJobQueue[t])
      BY <1>3, <2>2, <3>1
    <3>3. mTimerJobQueue'[t][i] = mTimerJobQueue[t][i]
      BY <1>3, <3>2
    <3>4. i # 1 /\ mTimerJobQueue'[t][i].mTask = "Start"
      BY <1>1, <1>2, <1>4, <2>2 DEF StartPending
    <3>5. StartPending(t, i)
      BY <3>3, <3>4 DEF StartPending
    <3> QED
      BY <2>2, <3>2, <3>5, Pending
  <2> QED
    BY <2>1, <2>2
<1>6. \A u \in IOThread : pc'[u] \in {"Start", "RegisterPlayer"} => running'[u].mTask = "Start"
  BY <1>1, <1>4 DEF IssueOK
<1> QED
  BY <1>1, <1>5, <1>6, FewerStarts

\* Each job of r but one comes from a place of its own in q.
OneMore(q, r) ==
  \E n \in 1 .. Len(q) + 1 : \E g \in [(1 .. Len(q) + 1) \ {n} -> 1 .. Len(q)] :
    /\ \A i, j \in DOMAIN g : g[i] = g[j] => i = j
    /\ \A i \in DOMAIN g : r[i] = q[g[i]]

LEMMA PushedPlaces ==
  ASSUME NEW q \in Seq(Job), NEW job \in Job
  PROVE  OneMore(q, Pushed(q, job))
<1>1. Len(q) \in Nat
  BY LenProperties
<1>2. CASE q # << >> /\ job.mExecutionTick < q[1].mExecutionTick
  <2> DEFINE g == [i \in (1 .. Len(q) + 1) \ {1} |-> i - 1]
  <2>1. Pushed(q, job) = <<job>> \o q /\ <<job>> \in Seq(Job) /\ Len(<<job>>) = 1
    BY <1>2 DEF Pushed
  <2>2. \A i \in 1 .. 1 + Len(q) : Pushed(q, job)[i] = IF i <= 1 THEN <<job>>[i] ELSE q[i - 1]
    BY <2>1, ConcatProperties
  <2>3. \A i \in (1 .. Len(q) + 1) \ {1} : ~(i <= 1) /\ i - 1 \in 1 .. Len(q) /\ i \in 1 .. 1 + Len(q)
    BY <1>1
  <2>4. \A i \in DOMAIN g : Pushed(q, job)[i] = q[g[i]]
    BY <2>2, <2>3
  <2>5. 1 \in 1 .. Len(q) + 1 /\ g \in [(1 .. Len(q) + 1) \ {1} -> 1 .. Len(q)]
    BY <1>1, <2>3
  <2>6. \A i, j \in DOMAIN g : g[i] = g[j] => i = j
    BY <1>1
  <2> HIDE DEF g
  <2> QED
    BY <2>4, <2>5, <2>6 DEF OneMore
<1>3. CASE ~(q # << >> /\ job.mExecutionTick < q[1].mExecutionTick)
  <2> DEFINE n == Len(q) + 1
             g == [i \in (1 .. Len(q) + 1) \ {n} |-> i]
  <2>1. Pushed(q, job) = Append(q, job)
    BY <1>3 DEF Pushed
  <2>2. \A i \in (1 .. Len(q) + 1) \ {n} : i \in 1 .. Len(q)
    BY <1>1
  <2>3. \A i \in DOMAIN g : Pushed(q, job)[i] = q[g[i]]
    BY <2>1, <2>2, AppendProperties
  <2>4. n \in 1 .. Len(q) + 1 /\ g \in [(1 .. Len(q) + 1) \ {n} -> 1 .. Len(q)]
    BY <1>1, <2>2
  <2>5. \A i, j \in DOMAIN g : g[i] = g[j] => i = j
    OBVIOUS
  <2> HIDE DEF g, n
  <2> QED
    BY <2>3, <2>4, <2>5 DEF OneMore
<1> QED
  BY <1>2, <1>3

\* And when the top is popped: no job is at two places, and none was the top.
LEMMA PoppedPlaces ==
  ASSUME NEW q \in Seq(Job), q # << >>, NEW r \in Popped(q)
  PROVE  \E g \in [1 .. Len(r) -> 2 .. Len(q)] :
           /\ \A i, j \in DOMAIN g : g[i] = g[j] => i = j
           /\ \A i \in DOMAIN g : r[i] = q[g[i]]
<1>1. Len(q) \in Nat \ {0} /\ \A i \in 1 .. Len(q) : q[i] \in Job
  BY LenProperties, EmptySeq, ElementOfSeq
<1>2. r \in Seq(Job) /\ Len(r) = Len(q) - 1
  BY PoppedProperties
<1>3. CASE Len(q) = 1
  <2>1. 1 .. Len(r) = {}
    BY <1>2, <1>3
  <2> DEFINE g == [i \in 1 .. Len(r) |-> 0]
  <2>2. g \in [1 .. Len(r) -> 2 .. Len(q)] /\ DOMAIN g = {}
    BY <2>1
  <2> QED
    BY <2>2
<1>4. CASE Len(q) # 1
  <2>1. PICK k \in 2 .. Len(q) : r = <<q[k]>> \o SubSeq(q, 2, k - 1) \o SubSeq(q, k + 1, Len(q))
    BY <1>4 DEF Popped
  <2>2. k \in Nat /\ 2 <= k /\ k <= Len(q)
    BY <1>1
  <2> DEFINE a == <<q[k]>>
             b == SubSeq(q, 2, k - 1)
             c == SubSeq(q, k + 1, Len(q))
             g == [i \in 1 .. Len(r) |-> IF i = 1 THEN k ELSE IF i < k THEN i ELSE i + 1]
  <2>3. a \in Seq(Job) /\ Len(a) = 1 /\ a[1] = q[k]
    BY <1>1
  <2>4. b \in Seq(Job) /\ Len(b) = k - 2 /\ \A i \in 1 .. k - 2 : b[i] = q[i + 1]
    <3>1. \A i \in 2 .. k - 1 : q[i] \in Job
      BY <1>1, <2>2
    <3>2. /\ b \in Seq(Job) /\ Len(b) = IF 2 <= k - 1 THEN k - 1 - 2 + 1 ELSE 0
          /\ \A i \in 1 .. k - 1 - 2 + 1 : b[i] = q[2 + i - 1]
      BY <2>2, <3>1, SubSeqProperties
    <3>3. Len(b) = k - 2
      BY <2>2, <3>2
    <3>4. \A i \in 1 .. k - 2 : i \in 1 .. k - 1 - 2 + 1 /\ 2 + i - 1 = i + 1
      BY <2>2
    <3> QED
      BY <3>2, <3>3, <3>4
  <2>5. c \in Seq(Job) /\ Len(c) = Len(q) - k /\ \A i \in 1 .. Len(q) - k : c[i] = q[k + i]
    <3>1. \A i \in k + 1 .. Len(q) : q[i] \in Job
      BY <1>1, <2>2
    <3>2. /\ c \in Seq(Job) /\ Len(c) = IF k + 1 <= Len(q) THEN Len(q) - (k + 1) + 1 ELSE 0
          /\ \A i \in 1 .. Len(q) - (k + 1) + 1 : c[i] = q[(k + 1) + i - 1]
      BY <1>1, <2>2, <3>1, SubSeqProperties
    <3>3. Len(c) = Len(q) - k
      BY <1>1, <2>2, <3>2
    <3>4. \A i \in 1 .. Len(q) - k : i \in 1 .. Len(q) - (k + 1) + 1 /\ (k + 1) + i - 1 = k + i
      BY <1>1, <2>2
    <3> QED
      BY <3>2, <3>3, <3>4
  <2> HIDE DEF a, b, c
  <2>6. /\ a \o b \in Seq(Job) /\ Len(a \o b) = k - 1
        /\ \A i \in 1 .. k - 1 : (a \o b)[i] = IF i = 1 THEN q[k] ELSE q[i]
    <3>1. /\ a \o b \in Seq(Job) /\ Len(a \o b) = 1 + (k - 2)
          /\ \A i \in 1 .. 1 + (k - 2) : (a \o b)[i] = IF i <= 1 THEN a[i] ELSE b[i - 1]
      <4>1. /\ a \o b \in Seq(Job) /\ Len(a \o b) = Len(a) + Len(b)
            /\ \A i \in 1 .. Len(a) + Len(b) : (a \o b)[i] = IF i <= Len(a) THEN a[i] ELSE b[i - Len(a)]
        <5>1. a \in Seq(Job) /\ b \in Seq(Job)
          BY <2>3, <2>4
        <5> QED
          BY <5>1, ConcatProperties, Zenon
      <4>2. Len(a) = 1 /\ Len(b) = k - 2
        BY <2>3, <2>4
      <4> QED
        BY <4>1, <4>2
    <3>2. \A i \in 1 .. k - 1 : /\ i \in 1 .. 1 + (k - 2)
                                 /\ i # 1 => ~(i <= 1) /\ i - 1 \in 1 .. k - 2 /\ i - 1 + 1 = i
      BY <2>2
    <3>3. \A i \in 1 .. k - 1 : i # 1 => b[i - 1] = q[i]
      BY <2>4, <3>2
    <3> QED
      BY <2>2, <2>3, <3>1, <3>2, <3>3
  <2>7. \A i \in 1 .. Len(r) : r[i] = IF i <= k - 1 THEN (a \o b)[i] ELSE c[i - (k - 1)]
    <3>1. r = (a \o b) \o c /\ Len(r) = Len(a \o b) + Len(c)
      BY <2>1, <2>5, <2>6, ConcatProperties DEF a, b, c
    <3>2. \A i \in 1 .. Len(a \o b) + Len(c) :
            ((a \o b) \o c)[i] = IF i <= Len(a \o b) THEN (a \o b)[i] ELSE c[i - Len(a \o b)]
      <4>1. a \o b \in Seq(Job) /\ c \in Seq(Job)
        BY <2>5, <2>6
      <4> QED
        BY <4>1, ConcatProperties, Zenon
    <3>3. Len(a \o b) = k - 1
      BY <2>6
    <3> QED
      BY <3>1, <3>2, <3>3
  <2>8. ASSUME NEW i \in 1 .. Len(r)
        PROVE  r[i] = q[IF i = 1 THEN k ELSE IF i < k THEN i ELSE i + 1]
    <3>1. i \in Nat /\ 1 <= i /\ i <= Len(q) - 1
      BY <1>1, <1>2
    <3>2. CASE i < k
      <4>1. i <= k - 1 /\ i \in 1 .. k - 1
        BY <2>2, <3>1, <3>2
      <4> QED
        BY <2>6, <2>7, <3>2, <4>1
    <3>3. CASE ~(i < k)
      <4>1. /\ ~(i <= k - 1) /\ i - (k - 1) \in 1 .. Len(q) - k /\ k + (i - (k - 1)) = i + 1
            /\ i # 1
        BY <1>1, <2>2, <3>1, <3>3
      <4>2. r[i] = c[i - (k - 1)] /\ c[i - (k - 1)] = q[k + (i - (k - 1))]
        BY <2>5, <2>7, <4>1
      <4> QED
        BY <3>3, <4>1, <4>2
    <3> QED
      BY <3>2, <3>3
  <2>9. g \in [1 .. Len(r) -> 2 .. Len(q)]
    BY <1>1, <1>2, <2>2
  <2>10. \A i, j \in DOMAIN g : g[i] = g[j] => i = j
    BY <1>1, <1>2, <2>2
  <2>11. \A i \in DOMAIN g : r[i] = q[g[i]]
    BY <2>8
  <2> HIDE DEF g
  <2> QED
    BY <2>9, <2>10, <2>11
<1> QED
  BY <1>3, <1>4

LEMMA PopIssue ==
  ASSUME JobInv, IssueOK, NEW t \in IOThread, Pop(t)
  PROVE  IssueOK'
<1>1. PICK r \in Popped(mTimerJobQueue[t]) :
        /\ mTimerJobQueue' = [mTimerJobQueue EXCEPT ![t] = r]
        /\ pc[t] = "pop" /\ pc' = [pc EXCEPT ![t] = "DoTimerJob"]
        /\ running' = [running EXCEPT ![t] = None]
        /\ UNCHANGED <<mCurrentIssueId, accepts>>
  BY DEF Pop, Step, sessionVars, mapVars
<1>2. mTimerJobQueue[t] \in Seq(Job) /\ mTimerJobQueue[t] # << >>
  <2>1. TimerOK(t)
    BY DEF JobInv
  <2> QED
    BY <1>1, <2>1 DEF JobInv, PlayerTypeOK, TimerOK, JobLabel
<1>3. /\ \A u \in IOThread \ {t} : /\ pc'[u] = pc[u] /\ running'[u] = running[u]
                                    /\ mTimerJobQueue'[u] = mTimerJobQueue[u]
      /\ pc'[t] = "DoTimerJob" /\ mTimerJobQueue'[t] = r
  BY <1>1 DEF JobInv, PlayerTypeOK
<1>4. PICK g \in [1 .. Len(r) -> 2 .. Len(mTimerJobQueue[t])] :
        /\ \A i, j \in DOMAIN g : g[i] = g[j] => i = j
        /\ \A i \in DOMAIN g : r[i] = mTimerJobQueue[t][g[i]]
  BY <1>2, PoppedPlaces
<1> DEFINE f == [p \in StartsPending' |-> IF p[1] = t THEN <<t, g[p[2]]>> ELSE p]
<1>5. ASSUME NEW u \in IOThread, NEW i, <<u, i>> \in StartsPending'
      PROVE  /\ u = t => i \in 1 .. Len(r) /\ <<t, g[i]>> \in StartsPending
             /\ u # t => <<u, i>> \in StartsPending
  <2>1. i \in 1 .. Len(mTimerJobQueue'[u]) /\ StartPending(u, i)'
    BY <1>5 DEF StartsPending
  <2>2. CASE u # t
    <3>1. i \in 1 .. Len(mTimerJobQueue[u]) /\ StartPending(u, i)
      BY <1>3, <2>1, <2>2 DEF StartPending
    <3> QED
      BY <2>2, <3>1, Pending
  <2>3. CASE u = t
    <3>1. i \in 1 .. Len(r) /\ g[i] \in 2 .. Len(mTimerJobQueue[t])
      BY <1>3, <1>4, <2>1, <2>3
    <3>2. g[i] \in 1 .. Len(mTimerJobQueue[t]) /\ g[i] # 1
      BY <1>2, <3>1, LenProperties
    <3>3. mTimerJobQueue[t][g[i]].mTask = "Start"
      BY <1>3, <1>4, <2>1, <2>3, <3>1 DEF StartPending
    <3>4. StartPending(t, g[i])
      BY <3>2, <3>3 DEF StartPending
    <3> QED
      BY <2>3, <3>1, <3>2, <3>4, Pending
  <2> QED
    BY <2>2, <2>3
<1>6. \A p \in StartsPending' : p = <<p[1], p[2]>> /\ p[1] \in IOThread
  BY DEF StartsPending
<1>7. f \in [StartsPending' -> StartsPending]
  BY <1>5, <1>6
<1>8. \A p, q \in StartsPending' : f[p] = f[q] => p = q
  <2> SUFFICES ASSUME NEW p \in StartsPending', NEW q \in StartsPending', f[p] = f[q]
               PROVE  p = q
    OBVIOUS
  <2>1. p = <<p[1], p[2]>> /\ q = <<q[1], q[2]>>
    BY <1>6
  <2>2. p[1] = q[1]
    BY <2>1
  <2>3. CASE p[1] = t
    <3>1. g[p[2]] = g[q[2]] /\ p[2] \in DOMAIN g /\ q[2] \in DOMAIN g
      BY <1>4, <1>5, <1>6, <2>1, <2>2, <2>3
    <3> QED
      BY <1>4, <2>1, <2>2, <3>1
  <2>4. CASE p[1] # t
    BY <2>2, <2>4
  <2> QED
    BY <2>3, <2>4
<1> HIDE DEF f
<1>9. /\ IsFiniteSet(StartsPending') /\ Cardinality(StartsPending') <= Cardinality(StartsPending)
      /\ Cardinality(StartsPending') \in Nat /\ Cardinality(StartsPending) \in Nat
  BY <1>7, <1>8, NotMore, FS_CardinalityType DEF IssueOK
<1>10. mCurrentIssueId' + Cardinality(StartsPending') <= accepts'
  <2>1. mCurrentIssueId \in Nat /\ accepts \in Nat
    BY PlayersAssumption DEF JobInv, PlayerTypeOK
  <2> QED
    BY <1>1, <1>9, <2>1 DEF IssueOK
<1> QED
  BY <1>3, <1>9, <1>10 DEF IssueOK

LEMMA AcceptIssue ==
  ASSUME JobInv, IssueOK, NEW t \in IOThread, NEW s \in Session, AcceptCompletion(t, s)
  PROVE  IssueOK'
<1>1. /\ pc[t] = "GetQueuedCompletionStatus" /\ pc' = [pc EXCEPT ![t] = "DoTimerJob"]
      /\ accepts' = accepts + 1 /\ UNCHANGED <<mCurrentIssueId, running>>
      /\ PushTimerJob(t, s, "Start", StartDelay)
  BY DEF AcceptCompletion, NextRound, Step, mapVars
<1>2. mTimerJobQueue \in [IOThread -> Seq(Job)] /\ running[t] = None
  <2>1. TimerOK(t)
    BY DEF JobInv
  <2> QED
    BY <1>1, <2>1 DEF JobInv, PlayerTypeOK, TimerOK, JobLabel
<1>3. PICK job \in Job : mTimerJobQueue' = [mTimerJobQueue EXCEPT ![t] = Pushed(@, job)]
  <2> DEFINE job == [mOwner |-> s, mTask |-> "Start",
                     mExecutionTick |-> StartDelay + LTickCount[t]]
  <2>1. LTickCount[t] \in 0 .. MaxTick /\ MaxTick \in Nat /\ StartDelay \in Nat
    BY PlayersAssumption DEF JobInv, PlayerTypeOK
  <2>2. job \in Job
    BY <2>1 DEF Job
  <2>3. mTimerJobQueue' = [mTimerJobQueue EXCEPT ![t] = Pushed(@, job)]
    BY <1>1 DEF PushTimerJob
  <2> HIDE DEF job
  <2> QED
    BY <2>2, <2>3
<1>4. /\ \A u \in IOThread \ {t} : pc'[u] = pc[u] /\ mTimerJobQueue'[u] = mTimerJobQueue[u]
      /\ pc'[t] = "DoTimerJob" /\ mTimerJobQueue'[t] = Pushed(mTimerJobQueue[t], job)
      /\ Len(mTimerJobQueue'[t]) = Len(mTimerJobQueue[t]) + 1
  BY <1>1, <1>2, <1>3, PushedProperties DEF JobInv, PlayerTypeOK
<1>5. OneMore(mTimerJobQueue[t], mTimerJobQueue'[t])
  <2>1. mTimerJobQueue[t] \in Seq(Job)
    BY <1>2
  <2>2. OneMore(mTimerJobQueue[t], Pushed(mTimerJobQueue[t], job))
    BY <2>1, PushedPlaces
  <2> QED
    BY <1>4, <2>2
<1>6. PICK n \in 1 .. Len(mTimerJobQueue[t]) + 1 :
      \E g \in [(1 .. Len(mTimerJobQueue[t]) + 1) \ {n} -> 1 .. Len(mTimerJobQueue[t])] :
        /\ \A i, j \in DOMAIN g : g[i] = g[j] => i = j
        /\ \A i \in DOMAIN g : mTimerJobQueue'[t][i] = mTimerJobQueue[t][g[i]]
  BY <1>5 DEF OneMore
<1> DEFINE places == (1 .. Len(mTimerJobQueue[t]) + 1) \ {n}
<1>7. PICK g \in [places -> 1 .. Len(mTimerJobQueue[t])] :
        /\ \A i, j \in DOMAIN g : g[i] = g[j] => i = j
        /\ \A i \in DOMAIN g : mTimerJobQueue'[t][i] = mTimerJobQueue[t][g[i]]
  BY <1>6
<1> DEFINE S == StartsPending' \ {<<t, n>>}
           f == [p \in S |-> IF p[1] = t THEN <<t, g[p[2]]>> ELSE p]
<1>8. ASSUME NEW u \in IOThread, NEW i, <<u, i>> \in S
      PROVE  /\ u = t => i \in places /\ <<t, g[i]>> \in StartsPending
             /\ u # t => <<u, i>> \in StartsPending
  <2>1. i \in 1 .. Len(mTimerJobQueue'[u]) /\ StartPending(u, i)'
    BY <1>8 DEF StartsPending
  <2>2. CASE u # t
    <3>1. i \in 1 .. Len(mTimerJobQueue[u]) /\ StartPending(u, i)
      BY <1>1, <1>4, <2>1, <2>2 DEF StartPending
    <3> QED
      BY <2>2, <3>1, Pending
  <2>3. CASE u = t
    <3>1. i \in places /\ g[i] \in 1 .. Len(mTimerJobQueue[t])
      BY <1>4, <1>7, <1>8, <2>1, <2>3
    <3>2. StartPending(t, g[i])
      BY <1>2, <1>7, <2>1, <2>3, <3>1 DEF StartPending
    <3> QED
      BY <2>3, <3>1, <3>2, Pending
  <2> QED
    BY <2>2, <2>3
<1>9. \A p \in S : p = <<p[1], p[2]>> /\ p[1] \in IOThread
  BY DEF StartsPending
<1> HIDE DEF S, places
<1>10. f \in [S -> StartsPending]
  BY <1>8, <1>9
<1>11. \A p, q \in S : f[p] = f[q] => p = q
  <2> SUFFICES ASSUME NEW p \in S, NEW q \in S, f[p] = f[q]
               PROVE  p = q
    OBVIOUS
  <2>1. p = <<p[1], p[2]>> /\ q = <<q[1], q[2]>>
    BY <1>9
  <2>2. p[1] = q[1]
    BY <2>1
  <2>3. CASE p[1] = t
    <3>1. g[p[2]] = g[q[2]] /\ p[2] \in DOMAIN g /\ q[2] \in DOMAIN g
      BY <1>7, <1>8, <1>9, <2>1, <2>2, <2>3
    <3> QED
      BY <1>7, <2>1, <2>2, <3>1
  <2>4. CASE p[1] # t
    BY <2>2, <2>4
  <2> QED
    BY <2>3, <2>4
<1> HIDE DEF f
<1>12. IsFiniteSet(S) /\ Cardinality(S) <= Cardinality(StartsPending)
  BY <1>10, <1>11, NotMore DEF IssueOK
<1>13. /\ IsFiniteSet(S \union {<<t, n>>}) /\ Cardinality(S \union {<<t, n>>}) = Cardinality(S) + 1
  BY <1>12, FS_AddElement DEF S
<1>14. StartsPending' \subseteq S \union {<<t, n>>}
  BY DEF S
<1>15. /\ IsFiniteSet(StartsPending')
       /\ Cardinality(StartsPending') <= Cardinality(S) + 1
       /\ Cardinality(StartsPending') \in Nat /\ Cardinality(StartsPending) \in Nat
       /\ Cardinality(S) \in Nat
  BY <1>12, <1>13, <1>14, FS_Subset, FS_CardinalityType DEF IssueOK
<1>16. mCurrentIssueId' + Cardinality(StartsPending') <= accepts'
  <2>1. mCurrentIssueId \in Nat /\ accepts \in Nat
    BY PlayersAssumption DEF JobInv, PlayerTypeOK
  <2> QED
    BY <1>1, <1>12, <1>15, <2>1 DEF IssueOK
<1> QED
  BY <1>1, <1>4, <1>15, <1>16 DEF IssueOK

LEMMA NextIssue == JobInv /\ IssueOK /\ [Next]_vars => IssueOK'
<1> SUFFICES ASSUME JobInv, IssueOK, [Next]_vars PROVE IssueOK'
  OBVIOUS
<1>1. CASE Clock \/ UNCHANGED vars \/ \E t \in IOThread : SpinEnds(t)
  <2>1. UNCHANGED <<pc, mTimerJobQueue, running, mCurrentIssueId, accepts>>
    BY <1>1 DEF Clock, SpinEnds, vars, timerVars, sessionVars, mapVars
  <2>2. StartsPending' = StartsPending
    BY <2>1 DEF StartsPending, StartPending
  <2> QED
    BY <2>1, <2>2 DEF IssueOK
<1>2. ASSUME NEW t \in IOThread, Completion(t)
      PROVE  IssueOK'
  BY <1>2, KeepingIssue, AcceptIssue DEF Completion
<1>3. ASSUME NEW t \in IOThread, Continue(t)
      PROVE  IssueOK'
  BY <1>1, <1>3, KeepingIssue, DoTimerJobIssue, PopIssue, RegisterPlayerIssue, RearmIssue
  DEF Continue
<1> QED
  BY <1>1, <1>2, <1>3 DEF Next

LEMMA InitIssue == Init => IssueOK
<1> SUFFICES ASSUME Init PROVE IssueOK
  OBVIOUS
<1>1. StartsPending = {}
  BY DEF Init, StartsPending
<1>2. IsFiniteSet(StartsPending) /\ Cardinality(StartsPending) = 0
  BY <1>1, FS_EmptySet
<1> QED
  BY <1>2 DEF Init, IssueOK

\* Types and bounds: in particular no more numbers of players are issued than
\* connections were accepted, however the timers and the returns interleave.
THEOREM PlayerTypesKept == Spec => []TypeOK
<1>1. Init => JobInv /\ IssueOK
  BY InitJobInv, InitIssue
<1>2. JobInv /\ IssueOK /\ [Next]_vars => JobInv' /\ IssueOK'
  BY NextJobInv, NextIssue
<1>3. ASSUME JobInv, IssueOK, LockTypeOK PROVE TypeOK
  <2>1. mCurrentIssueId \in 0 .. MaxAccepts
    <3>1. Cardinality(StartsPending) \in Nat
      BY <1>3, FS_CardinalityType DEF IssueOK
    <3> QED
      BY <1>3, <3>1, PlayersAssumption DEF JobInv, PlayerTypeOK, IssueOK
  <2> QED
    BY <1>3, <2>1 DEF JobInv, PlayerTypeOK, TypeOK
<1>4. OrderInv => LockTypeOK
  BY DEF OrderInv
<1> QED
  BY <1>1, <1>2, <1>3, <1>4, PlayersImplementLocks, StacksIncrease, PTL DEF Spec
=============================================================================

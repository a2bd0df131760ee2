------------------------------ MODULE Players -------------------------------
(***************************************************************************)
(* Players, their timers and their locks in Homework4: Timer.cpp,          *)
(* SyncExecutable.h, Player.cpp, PlayerManager.cpp, and the parts of       *)
(* SessionManager.cpp, ClientSession.cpp and IocpManager.cpp that call     *)
(* them.  Each I/O thread runs its due timer jobs, then waits for a        *)
(* completion; a job runs under the lock of its player.                    *)
(*                                                                         *)
(* The rest of a session is its state: free (an accept is posted),         *)
(* connected, or being returned by the thread that dropped the last        *)
(* reference.  Jobs hold the player and not the session.  The executer is  *)
(* the number of dispatched tasks (its own steps are in                    *)
(* GrandCentralExecuter); the buff lists are left out.                     *)
(***************************************************************************)
EXTENDS LockOrderChecker, FiniteSets

CONSTANTS StartDelay,     \* of Player::Start after the accept (10 ms)
          HeartBeat,      \* of Player::OnTick (1000 ms)
          MaxTick,        \* bound of the clock
          MaxAccepts      \* bound of the accepted connections

ASSUME PlayersAssumption ==
  /\ {StartDelay, HeartBeat} \subseteq Nat \ {0}
  /\ {MaxTick, MaxAccepts} \subseteq Nat

VARIABLES tick,              \* GetTickCount64
          LTickCount,        \* of each thread
          mTimerJobQueue,    \* of each thread, the top of the heap first
          capacity,          \* of the vector in that priority_queue
          pc,
          arg,               \* the session a thread returns
          running,           \* the job a thread runs
          dangling,          \* threads whose reference to the top is dangling
          session,           \* of each session: "free", "connected", "returning", "lost"
          accepts,           \* the connections whose player is to start, for MaxAccepts
          mPlayerId, mHeartBeat, mIsAlive,     \* of the player of each session
          mPlayerMap, mCurrentIssueId,
          mRemainTaskCount

timerVars == <<LTickCount, mTimerJobQueue, capacity, running, dangling>>
playerVars == <<mPlayerId, mHeartBeat, mIsAlive>>
mapVars == <<mPlayerMap, mCurrentIssueId>>
sessionVars == <<session, accepts>>
vars == <<lockVars, tick, timerVars, pc, arg, sessionVars, playerVars, mapVars, mRemainTaskCount>>

SessionManagerLock == [mLockOrder |-> LO_FIRST_CLASS, of |-> None]
PlayerLock(s) == [mLockOrder |-> LO_BUSINESS_CLASS, of |-> s]
PlayerManagerLock == [mLockOrder |-> LO_ECONOMLY_CLASS, of |-> None]

\* A TimerJobElement.
Job == [mOwner : Session, mTask : {"Start", "OnTick"}, mExecutionTick : Nat]

ASSUME NoneAssumption == None \notin Job

Init ==
  /\ LockInit
  /\ tick = 0
  /\ LTickCount = [t \in IOThread |-> 0]
  /\ mTimerJobQueue = [t \in IOThread |-> << >>] /\ capacity = [t \in IOThread |-> 0]
  /\ pc = [t \in IOThread |-> "DoTimerJob"]
  /\ arg = [t \in IOThread |-> None]
  /\ running = [t \in IOThread |-> None] /\ dangling = {}
  /\ session = [s \in Session |-> "free"] /\ accepts = 0
  /\ mPlayerId = [s \in Session |-> -1]
  /\ mHeartBeat = [s \in Session |-> -1]
  /\ mIsAlive = [s \in Session |-> FALSE]
  /\ mPlayerMap = << >> /\ mCurrentIssueId = 0
  /\ mRemainTaskCount = 0

\* A step of thread t, which has the locks it asked for.
Step(t, from, to) ==
  t \notin waiting /\ pc[t] = from /\ pc' = [pc EXCEPT ![t] = to]

Enter(t, from, to, l) == Step(t, from, to) /\ EnterLock(t, l)
Leave(t, from, to, l) == Step(t, from, to) /\ LeaveLock(t, l)

-----------------------------------------------------------------------------
\* Timer.

\* Mutant: the comparator is that of a heap with the latest job on top.
PushedLatestFirst(q, job) ==
  IF q # << >> /\ job.mExecutionTick > q[1].mExecutionTick THEN <<job>> \o q ELSE Append(q, job)

\* priority_queue::push: a job that is due earlier than the top becomes the top.
Pushed(q, job) ==
  IF q # << >> /\ job.mExecutionTick < q[1].mExecutionTick THEN <<job>> \o q ELSE Append(q, job)

\* priority_queue::pop: any of the earliest jobs left is the new top.
Popped(q) ==
  IF Len(q) = 1 THEN {<< >>}
  ELSE {<<q[i]>> \o SubSeq(q, 2, i - 1) \o SubSeq(q, i + 1, Len(q)) :
          i \in {k \in 2 .. Len(q) : \A j \in 2 .. Len(q) :
                                       q[k].mExecutionTick <= q[j].mExecutionTick}}

\* How a vector grows that is full: by half, and by one at least.
Grown(n) == IF n < 2 THEN n + 1 ELSE n + n \div 2

\* PushTimerJob: the vector moves when it is full (nothing is reserved for it),
\* and a thread that runs a job holds a reference into it.
PushTimerJob(t, s, task, after) ==
  /\ mTimerJobQueue' = [mTimerJobQueue EXCEPT ![t] =
       Pushed(@, [mOwner |-> s, mTask |-> task, mExecutionTick |-> after + LTickCount[t]])]
  /\ IF Len(mTimerJobQueue[t]) < capacity[t]
     THEN UNCHANGED <<capacity, dangling>>
     ELSE /\ capacity' = [capacity EXCEPT ![t] = Grown(@)]
          /\ dangling' = IF running[t] = None THEN dangling ELSE dangling \union {t}

\* The loop of DoTimerJob ends: no job, or none that is due.
DoTimerJobEnds(t) ==
  /\ Step(t, "DoTimerJob", "GetQueuedCompletionStatus")
  /\ mTimerJobQueue[t] # << >> => LTickCount[t] < mTimerJobQueue[t][1].mExecutionTick
  /\ UNCHANGED <<lockVars, tick, timerVars, arg, sessionVars, playerVars, mapVars, mRemainTaskCount>>

\* A due job, and EnterLock of its owner.
DoTimerJob(t) ==
  /\ mTimerJobQueue[t] # << >>
  /\ LET job == mTimerJobQueue[t][1]
     IN  /\ LTickCount[t] >= job.mExecutionTick
         /\ running' = [running EXCEPT ![t] = job]
         /\ Enter(t, "DoTimerJob", job.mTask, PlayerLock(job.mOwner))
  /\ UNCHANGED <<tick, LTickCount, mTimerJobQueue, capacity, dangling, arg, sessionVars, playerVars,
                 mapVars, mRemainTaskCount>>

\* LeaveLock of the owner, through the reference: one that dangles may show any
\* player by now.
LeaveOwner(t) ==
  /\ pc[t] = "LeaveLock"
  /\ \E s \in IF t \in dangling THEN Session ELSE {running[t].mOwner} :
       Leave(t, "LeaveLock", "pop", PlayerLock(s))
  /\ UNCHANGED <<tick, timerVars, arg, sessionVars, playerVars, mapVars, mRemainTaskCount>>

Pop(t) ==
  /\ Step(t, "pop", "DoTimerJob")
  /\ \E q \in Popped(mTimerJobQueue[t]) : mTimerJobQueue' = [mTimerJobQueue EXCEPT ![t] = q]
  /\ running' = [running EXCEPT ![t] = None] /\ dangling' = dangling \ {t}
  /\ UNCHANGED <<lockVars, tick, LTickCount, capacity, arg, sessionVars, playerVars, mapVars,
                 mRemainTaskCount>>

-----------------------------------------------------------------------------
\* Player.

\* Start, called by the timer: alive, and RegisterPlayer up to its lock.
Start(t) ==
  /\ Enter(t, "Start", "RegisterPlayer", PlayerManagerLock)
  /\ LET s == running[t].mOwner
     IN  /\ mIsAlive' = [mIsAlive EXCEPT ![s] = TRUE]
         /\ mHeartBeat' = [mHeartBeat EXCEPT ![s] = HeartBeat]
  /\ UNCHANGED <<tick, timerVars, arg, sessionVars, mPlayerId, mapVars, mRemainTaskCount>>

\* Mutant: the number is incremented after its use, and then returned.
RegisterPlayerPostIncrement(t) ==
  /\ Leave(t, "RegisterPlayer", "OnTick", PlayerManagerLock)
  /\ LET s == running[t].mOwner
     IN  /\ mPlayerMap' = [i \in DOMAIN mPlayerMap \union {mCurrentIssueId} |->
                             IF i = mCurrentIssueId THEN s ELSE mPlayerMap[i]]
         /\ mCurrentIssueId' = mCurrentIssueId + 1
         /\ mPlayerId' = [mPlayerId EXCEPT ![s] = mCurrentIssueId']
  /\ UNCHANGED <<tick, timerVars, arg, sessionVars, mHeartBeat, mIsAlive, mRemainTaskCount>>

\* Mutant: OnTick is called before the lock of the map is left.
RegisterPlayerKeepsLock(t) ==
  /\ Step(t, "RegisterPlayer", "OnTick")
  /\ LET s == running[t].mOwner
     IN  /\ mCurrentIssueId' = mCurrentIssueId + 1
         /\ mPlayerMap' = [i \in DOMAIN mPlayerMap \union {mCurrentIssueId'} |->
                             IF i = mCurrentIssueId' THEN s ELSE mPlayerMap[i]]
         /\ mPlayerId' = [mPlayerId EXCEPT ![s] = mCurrentIssueId']
  /\ UNCHANGED <<lockVars, tick, timerVars, arg, sessionVars, mHeartBeat, mIsAlive, mRemainTaskCount>>

\* RegisterPlayer: the next number, and the player under it.
RegisterPlayer(t) ==
  /\ Leave(t, "RegisterPlayer", "OnTick", PlayerManagerLock)
  /\ LET s == running[t].mOwner
     IN  /\ mCurrentIssueId' = mCurrentIssueId + 1
         /\ mPlayerMap' = [i \in DOMAIN mPlayerMap \union {mCurrentIssueId'} |->
                             IF i = mCurrentIssueId' THEN s ELSE mPlayerMap[i]]
         /\ mPlayerId' = [mPlayerId EXCEPT ![s] = mCurrentIssueId']
  /\ UNCHANGED <<tick, timerVars, arg, sessionVars, mHeartBeat, mIsAlive, mRemainTaskCount>>

\* OnTick, by the timer or by Start: a dead player does nothing; one time in a
\* hundred an AllPlayerBuffEvent comes before the AllPlayerBuffDecay.
OnTick(t) ==
  /\ \E event \in BOOLEAN :
       Step(t, "OnTick", IF ~mIsAlive[running[t].mOwner] THEN "LeaveLock"
                         ELSE IF event THEN "buff" ELSE "decay")
  /\ UNCHANGED <<lockVars, tick, timerVars, arg, sessionVars, playerVars, mapVars, mRemainTaskCount>>

After(task) == IF task = "buff" THEN "decay" ELSE "rearm"

\* GCEDispatch: counted and left to the executer, or this thread is the executer.
GCEDispatch(t, task) ==
  /\ Step(t, task, IF mRemainTaskCount > 0 THEN After(task)
                   ELSE IF task = "buff" THEN "runbuff" ELSE "rundecay")
  /\ mRemainTaskCount' = mRemainTaskCount + 1
  /\ UNCHANGED <<lockVars, tick, timerVars, arg, sessionVars, playerVars, mapVars>>

\* try_pop finds a task of any player: GetCurrentPlayers up to its lock.
RunTask(t) ==
  /\ mRemainTaskCount > 0
  /\ \/ Enter(t, "runbuff", "buffs", PlayerManagerLock)
     \/ Enter(t, "rundecay", "decays", PlayerManagerLock)
  /\ UNCHANGED <<tick, timerVars, arg, sessionVars, playerVars, mapVars, mRemainTaskCount>>

\* Mutant: the executer goes on when its decrement has reached 0.
TaskDoneForever(t) ==
  /\ \/ Leave(t, "buffs", "runbuff", PlayerManagerLock)
     \/ Leave(t, "decays", "rundecay", PlayerManagerLock)
  /\ mRemainTaskCount' = mRemainTaskCount - 1
  /\ UNCHANGED <<tick, timerVars, arg, sessionVars, playerVars, mapVars>>

\* GetCurrentPlayers leaves its lock, the buffs are changed, and the decrement.
TaskDone(t) ==
  /\ \/ Leave(t, "buffs", IF mRemainTaskCount = 1 THEN "decay" ELSE "runbuff", PlayerManagerLock)
     \/ Leave(t, "decays", IF mRemainTaskCount = 1 THEN "rearm" ELSE "rundecay", PlayerManagerLock)
  /\ mRemainTaskCount' = mRemainTaskCount - 1
  /\ UNCHANGED <<tick, timerVars, arg, sessionVars, playerVars, mapVars>>

\* The end of OnTick.
Rearm(t) ==
  /\ Step(t, "rearm", "LeaveLock")
  /\ LET s == running[t].mOwner
     IN  IF mHeartBeat[s] > 0 THEN PushTimerJob(t, s, "OnTick", mHeartBeat[s])
         ELSE UNCHANGED <<mTimerJobQueue, capacity, dangling>>
  /\ UNCHANGED <<lockVars, tick, LTickCount, running, arg, sessionVars, playerVars, mapVars,
                 mRemainTaskCount>>

-----------------------------------------------------------------------------
\* Sessions and completions.  After each one DoTimerJob reads the clock.

Idle(t) == pc[t] = "GetQueuedCompletionStatus"
NextRound(t, from) ==
  Step(t, from, "DoTimerJob") /\ LTickCount' = [LTickCount EXCEPT ![t] = tick]

\* AcceptCompletion ends with DoSyncAfter(10, mPlayer, &Player::Start, 1000).
AcceptCompletion(t, s) ==
  /\ session[s] = "free" /\ accepts < MaxAccepts
  /\ session' = [session EXCEPT ![s] = "connected"] /\ accepts' = accepts + 1
  /\ PushTimerJob(t, s, "Start", StartDelay)
  /\ NextRound(t, "GetQueuedCompletionStatus")
  /\ UNCHANGED <<lockVars, tick, running, arg, playerVars, mapVars, mRemainTaskCount>>

\* A call before CreateIoCompletionPort fails, or that one: DisconnectRequest, and
\* no player is started.  No completion of the socket comes to the port, so the
\* session keeps its references.
AcceptCompletionFails(t, s) ==
  /\ NextRound(t, "GetQueuedCompletionStatus")
  /\ session[s] = "free" /\ session' = [session EXCEPT ![s] = "lost"]
  /\ UNCHANGED <<lockVars, tick, mTimerJobQueue, capacity, running, dangling, arg, accepts,
                 playerVars, mapVars, mRemainTaskCount>>

\* Any other completion of a connected session.  What it does under mBufferLock
\* takes no other lock: it holds a reference, so releasing one returns no session.
IoCompletion(t, s) ==
  /\ NextRound(t, "GetQueuedCompletionStatus")
  /\ session[s] = "connected"
  /\ UNCHANGED <<lockVars, tick, mTimerJobQueue, capacity, running, dangling, arg, sessionVars,
                 playerVars, mapVars, mRemainTaskCount>>

\* The last reference is released.
ReturnClientSession(t, s) ==
  /\ session[s] = "connected"
  /\ session' = [session EXCEPT ![s] = "returning"]
  /\ arg' = [arg EXCEPT ![t] = s]
  /\ Enter(t, "GetQueuedCompletionStatus", "SessionReset", SessionManagerLock)
  /\ UNCHANGED <<tick, timerVars, accepts, playerVars, mapVars, mRemainTaskCount>>

\* SessionReset up to mPlayer->DoSync(&Player::PlayerReset).
SessionReset(t) ==
  /\ Enter(t, "SessionReset", "PlayerReset", PlayerLock(arg[t]))
  /\ UNCHANGED <<tick, timerVars, arg, sessionVars, playerVars, mapVars, mRemainTaskCount>>

\* PlayerReset up to the lock of UnregisterPlayer.
PlayerReset(t) ==
  /\ Enter(t, "PlayerReset", "UnregisterPlayer", PlayerManagerLock)
  /\ UNCHANGED <<tick, timerVars, arg, sessionVars, playerVars, mapVars, mRemainTaskCount>>

UnregisterPlayer(t) ==
  /\ Leave(t, "UnregisterPlayer", "reset", PlayerManagerLock)
  /\ mPlayerMap' = [i \in DOMAIN mPlayerMap \ {mPlayerId[arg[t]]} |-> mPlayerMap[i]]
  /\ UNCHANGED <<tick, timerVars, arg, sessionVars, playerVars, mCurrentIssueId, mRemainTaskCount>>

\* The end of PlayerReset.
PlayerResetEnds(t) ==
  /\ Leave(t, "reset", "free", PlayerLock(arg[t]))
  /\ mPlayerId' = [mPlayerId EXCEPT ![arg[t]] = -1]
  /\ mHeartBeat' = [mHeartBeat EXCEPT ![arg[t]] = -1]
  /\ mIsAlive' = [mIsAlive EXCEPT ![arg[t]] = FALSE]
  /\ UNCHANGED <<tick, timerVars, arg, sessionVars, mapVars, mRemainTaskCount>>

\* The session is in the free list, and its next accept is posted (AcceptSessions).
SessionReturned(t) ==
  /\ NextRound(t, "free") /\ LeaveLock(t, SessionManagerLock)
  /\ session' = [session EXCEPT ![arg[t]] = "free"]
  /\ arg' = [arg EXCEPT ![t] = None]
  /\ UNCHANGED <<tick, mTimerJobQueue, capacity, running, dangling, accepts, playerVars,
                 mapVars, mRemainTaskCount>>

SpinEnds(t) ==
  Acquire(t) /\ UNCHANGED <<tick, timerVars, pc, arg, sessionVars, playerVars, mapVars, mRemainTaskCount>>

Clock ==
  /\ tick < MaxTick /\ tick' = tick + 1
  /\ UNCHANGED <<lockVars, timerVars, pc, arg, sessionVars, playerVars, mapVars, mRemainTaskCount>>

Completion(t) ==
  \E s \in Session : \/ AcceptCompletion(t, s) \/ AcceptCompletionFails(t, s)
                     \/ IoCompletion(t, s) \/ ReturnClientSession(t, s)

\* What a thread does between two completions.
Continue(t) ==
  \/ DoTimerJobEnds(t) \/ DoTimerJob(t) \/ LeaveOwner(t) \/ Pop(t)
  \/ Start(t) \/ RegisterPlayer(t) \/ OnTick(t)
  \/ \E task \in {"buff", "decay"} : GCEDispatch(t, task)
  \/ RunTask(t) \/ TaskDone(t) \/ Rearm(t)
  \/ SessionReset(t) \/ PlayerReset(t) \/ UnregisterPlayer(t) \/ PlayerResetEnds(t)
  \/ SessionReturned(t)
  \/ SpinEnds(t)

Next ==
  /\ ~failed
  /\ Clock \/ \E t \in IOThread : Completion(t) \/ Continue(t)

Spec == Init /\ [][Next]_vars

-----------------------------------------------------------------------------
TypeOK ==
  /\ LockTypeOK
  /\ LTickCount \in [IOThread -> 0 .. MaxTick]
  /\ mTimerJobQueue \in [IOThread -> Seq(Job)]
  /\ running \in [IOThread -> Job \union {None}]
  /\ capacity \in [IOThread -> Nat] /\ dangling \in SUBSET IOThread
  /\ \A s \in Session : mPlayerId[s] \in {-1} \union 1 .. mCurrentIssueId
  /\ mPlayerMap \in [DOMAIN mPlayerMap -> Session] /\ DOMAIN mPlayerMap \subseteq 1 .. mCurrentIssueId
  /\ mCurrentIssueId \in 0 .. MaxAccepts
  /\ mRemainTaskCount \in Nat

\* The lock-order checker ends the program in one case only: a thread leaves the
\* lock of its job's owner through a reference that the job has made dangle, and
\* the lock it had entered is still on its stack.  Apart from that, session
\* return, timer, players and executer nest their locks in the order of the
\* classes, also when a thread runs the tasks of other threads under its
\* player's lock, and every thread leaves the locks it entered, latest first.
OnlyDanglingFails ==
  failed => \E t \in dangling : pc[t] = "pop" /\ mLockStack[t] # << >>

\* DoTimerJob pops the job it has run, although the job pushes into the same
\* queue before the pop: what it pushes is never due before the job itself.
PopsWhatItRan ==
  \A t \in IOThread : running[t] # None => mTimerJobQueue[t][1] = running[t]

\* A player that is alive is in the map under its number, whatever order its
\* late Start and the reset of its session come in; looked at when nobody has
\* its lock.
AliveIsRegistered ==
  \A s \in Session : mIsAlive[s] /\ (\A t \in IOThread : ~Holds(t, PlayerLock(s))) =>
    mPlayerId[s] \in DOMAIN mPlayerMap /\ mPlayerMap[mPlayerId[s]] = s

\* Thread t cannot go on before another thread of W does: it waits for a lock of
\* theirs, or it is the executer and try_pop finds no task.
Stuck(t, W) ==
  \/ t \in waiting /\ \E u \in W : Holds(u, LastLock(t))
  \/ t \notin waiting /\ pc[t] \in {"runbuff", "rundecay"} /\ mRemainTaskCount = 0

\* No threads wait for each other: not for the locks of the session manager, the
\* players and the map, which an executer that runs the tasks of the others
\* enters under the lock of its own player, and not for a task that one of them
\* has yet to count.
NoDeadlock == \A W \in (SUBSET IOThread) \ {{}} : \E t \in W : ~Stuck(t, W)

\* "called every second after the login": an alive player has one OnTick in the
\* queues, besides the one that is running.
OnTicksPending(s) ==
  UNION {{<<t, i>> : i \in {k \in 1 .. Len(mTimerJobQueue[t]) :
             /\ mTimerJobQueue[t][k].mOwner = s /\ mTimerJobQueue[t][k].mTask = "OnTick"
             /\ k = 1 => running[t] = None}} : t \in IOThread}

OneTickChain == \A s \in Session : mIsAlive[s] => Cardinality(OnTicksPending(s)) <= 1
-----------------------------------------------------------------------------
(* The inductive invariant, in two parts.                                   *)

JobLabel == {"Start", "RegisterPlayer", "OnTick", "buff", "decay", "runbuff", "rundecay",
             "buffs", "decays", "rearm", "LeaveLock", "pop"}
ReturnLabel == {"SessionReset", "PlayerReset", "UnregisterPlayer", "reset", "free"}

PlayerTypeOK ==
  /\ tick \in 0 .. MaxTick /\ accepts \in 0 .. MaxAccepts
  /\ LTickCount \in [IOThread -> 0 .. MaxTick]
  /\ mTimerJobQueue \in [IOThread -> Seq(Job)]
  /\ running \in [IOThread -> Job \union {None}]
  /\ capacity \in [IOThread -> Nat] /\ dangling \in SUBSET IOThread
  /\ pc \in [IOThread -> {"DoTimerJob", "GetQueuedCompletionStatus"} \union JobLabel
                           \union ReturnLabel]
  /\ arg \in [IOThread -> Session \union {None}]
  /\ mPlayerId \in [Session -> {-1} \union 1 .. mCurrentIssueId]
  /\ mHeartBeat \in [Session -> {-1, HeartBeat}]
  /\ mIsAlive \in [Session -> BOOLEAN]
  /\ mPlayerMap \in [DOMAIN mPlayerMap -> Session] /\ DOMAIN mPlayerMap \subseteq 1 .. mCurrentIssueId
  /\ mCurrentIssueId \in Nat /\ mRemainTaskCount \in Nat

\* A thread runs the job on top of its queue, and that job was due when the
\* thread read the clock.  Every accept has put one job into the queues, and
\* only a job that is about to be popped has put another one there.
TimerOK(t) ==
  /\ pc[t] \in JobLabel <=> running[t] # None
  /\ pc[t] \in ReturnLabel <=> arg[t] # None
  /\ running[t] # None => /\ mTimerJobQueue[t] # << >> /\ mTimerJobQueue[t][1] = running[t]
                          /\ running[t].mExecutionTick <= LTickCount[t]
  /\ Len(mTimerJobQueue[t]) <= accepts + IF pc[t] \in {"LeaveLock", "pop"} THEN 1 ELSE 0

\* A number of the map belongs to one player.  An alive player is registered,
\* or a thread is about to register it or to declare it dead.
Registered(s) == mPlayerId[s] \in DOMAIN mPlayerMap

RegistrationOK(s) ==
  /\ Registered(s) => mPlayerMap[mPlayerId[s]] = s
  /\ mIsAlive[s] =>
       \/ Registered(s)
       \/ \E t \in IOThread : pc[t] = "RegisterPlayer" /\ running[t].mOwner = s
       \/ \E t \in IOThread : pc[t] = "reset" /\ arg[t] = s

\* One thread runs the tasks of all players, as long as one is counted.
Executing == {t \in IOThread : pc[t] \in {"runbuff", "buffs", "rundecay", "decays"}}

ExecuterOK == \A t, u \in Executing : t = u /\ mRemainTaskCount > 0

JobInv ==
  /\ PlayerTypeOK
  /\ ExecuterOK
  /\ \A t \in IOThread : TimerOK(t)
  /\ \A s \in Session : RegistrationOK(s)

\* The Start jobs that have not registered their player yet.
StartPending(t, k) ==
  /\ mTimerJobQueue[t][k].mTask = "Start"
  /\ k = 1 => running[t] = None \/ pc[t] \in {"Start", "RegisterPlayer"}

StartsPending ==
  UNION {{<<t, i>> : i \in {k \in 1 .. Len(mTimerJobQueue[t]) : StartPending(t, k)}} :
           t \in IOThread}

\* An accept puts one Start job into the queues, and a Start job registers its
\* player once: no more numbers are issued than connections were accepted.
IssueOK ==
  /\ \A t \in IOThread : pc[t] \in {"Start", "RegisterPlayer"} => running[t].mTask = "Start"
  /\ IsFiniteSet(StartsPending)
  /\ mCurrentIssueId + Cardinality(StartsPending) <= accepts

\* The locks of a thread at each label; it waits for the last one at most.
Nested(t) ==
  CASE pc[t] \in {"DoTimerJob", "GetQueuedCompletionStatus", "pop"} -> << >>
    [] pc[t] \in {"RegisterPlayer", "buffs", "decays"} ->
         <<PlayerLock(running[t].mOwner), PlayerManagerLock>>
    [] pc[t] \in {"Start", "OnTick", "buff", "decay", "runbuff", "rundecay", "rearm", "LeaveLock"} ->
         <<PlayerLock(running[t].mOwner)>>
    [] pc[t] \in {"SessionReset", "free"} -> <<SessionManagerLock>>
    [] pc[t] \in {"PlayerReset", "reset"} -> <<SessionManagerLock, PlayerLock(arg[t])>>
    [] pc[t] = "UnregisterPlayer" ->
         <<SessionManagerLock, PlayerLock(arg[t]), PlayerManagerLock>>

EnterLabel == {"Start", "OnTick", "RegisterPlayer", "buffs", "decays", "SessionReset",
               "PlayerReset", "UnregisterPlayer"}

NestingOK ==
  /\ waiting \subseteq {t \in IOThread : pc[t] \in EnterLabel}
  /\ mLockStack = [t \in IOThread |-> Nested(t)]
  /\ ~failed
=============================================================================

---------------------------- MODULE DatabaseJobs ----------------------------
(***************************************************************************)
(* The database pipeline of Homework6 on top of AggregatedSend: the        *)
(* LoadPlayerDataContext that AcceptCompletion creates goes to a database  *)
(* thread, which runs its SQL, and comes back to an I/O thread, which      *)
(* hands the row to the player of the session (Player.cpp, DBContext.cpp,  *)
(* DBManager.cpp, DBThread.cpp, IocpManager::PostDatabaseResult).  The     *)
(* context holds a reference of the session; nothing else ties the answer  *)
(* to the connection that asked.                                           *)
(*                                                                         *)
(* SQL Server is the choice of mSuccess; a row of the player is its id.    *)
(* PlayerReset and ResponseLoad hold mPlayerLock and call nothing, so each *)
(* is one step.                                                            *)
(***************************************************************************)
EXTENDS AggregatedSend

CONSTANTS DBThread,      \* the database threads
          MaxPlayerId    \* ids are handed out modulo MaxPlayerId

ASSUME DatabaseAssumption ==
  /\ IsFiniteSet(DBThread) /\ None \notin DBThread
  /\ MaxPlayerId \in Nat \ {0}

NoPlayer == -1

VARIABLES mPlayerId,    \* of the player of each session
          requests,     \* LoadPlayerDataContexts no database thread has yet
          unposted,     \* of those, the ones that are not in mDbCompletionPort
          running,      \* the one each database thread works on
          results,      \* those posted back to the I/O threads, with mSuccess
          asked,        \* history: the id this connection has asked for
          revived,      \* history: FlushSend took the first reference of a session
          aborted       \* the CRASH_ASSERT of PostDatabaseResult failed

jobVars == <<mPlayerId, requests, unposted, running, results, asked>>
h6Vars == <<allVars, jobVars, revived, aborted>>

\* A LoadPlayerDataContext.
Context == [mSessionObject : Session, mPlayerId : 0 .. MaxPlayerId - 1, mSuccess : BOOLEAN]

ASSUME ContextAssumption == None \notin Context

JobInit ==
  /\ SendInit
  /\ mPlayerId = [s \in Session |-> NoPlayer]
  /\ requests = {} /\ unposted = {} /\ results = {}
  /\ running = [d \in DBThread |-> None]
  /\ asked = [s \in Session |-> NoPlayer]
  /\ revived = FALSE /\ aborted = FALSE

\* mPlayer.RequestLoad(id++): the constructor of the context takes a reference,
\* PostDatabsaseRequest queues it or, when the port refuses it, forgets it.  id
\* is a static that all I/O threads increment without a lock: n is any id.
PostRequest(t, n, ok) ==
  /\ pc[t] = "subscribe"
  /\ ok \/ "PostQueuedCompletionStatus" \in Fails
  /\ mRefCount' = [mRefCount EXCEPT ![ses[t]] = @ + 1]
  /\ LET c == [mSessionObject |-> ses[t], mPlayerId |-> n, mSuccess |-> FALSE]
     IN  /\ requests' = requests \union {c}
         /\ unposted' = IF ok THEN unposted ELSE unposted \union {c}
  /\ asked' = [asked EXCEPT ![ses[t]] = n]
  /\ Goto(t, "finish")
  /\ Local /\ UNCHANGED <<mConnected, mSendBufferLock, pending, fresh, crashed, sendVars>>
  /\ UNCHANGED <<mPlayerId, running, results>>

\* DoDatabaseJob: GetQueuedCompletionStatus and SQLExecute ...
DoDatabaseJob(d) ==
  /\ running[d] = None
  /\ \E c \in requests \ unposted :
       running' = [running EXCEPT ![d] = c] /\ requests' = requests \ {c}
  /\ UNCHANGED <<allVars, mPlayerId, unposted, results, asked>>

\* Mutant: a failed job is not posted back.
PostSuccessOnly(d, ok) ==
  /\ running[d] # None
  /\ results' = IF ok THEN results \union {[running[d] EXCEPT !.mSuccess = ok]} ELSE results
  /\ pending' = IF ok THEN [pending EXCEPT ![running[d].mSessionObject]["CK_DB_RESULT"] = @ + 1]
                ELSE pending
  /\ running' = [running EXCEPT ![d] = None]
  /\ UNCHANGED <<mConnected, mRefCount, mSendBufferLock, poolVars, main, threadVars, crashed, issued,
                 associated>>
  /\ UNCHANGED <<sendVars, mPlayerId, requests, unposted, asked>>

\* ... and PostDatabaseResult.
PostDatabaseResult(d, ok) ==
  /\ running[d] # None
  /\ results' = results \union {[running[d] EXCEPT !.mSuccess = ok]}
  /\ pending' = [pending EXCEPT ![running[d].mSessionObject]["CK_DB_RESULT"] = @ + 1]
  /\ running' = [running EXCEPT ![d] = None]
  /\ UNCHANGED <<mConnected, mRefCount, mSendBufferLock, poolVars, main, threadVars, crashed, issued,
                 associated>>
  /\ UNCHANGED <<sendVars, mPlayerId, requests, unposted, asked>>

\* The completion port refuses the result: CRASH_ASSERT(false).
PostDatabaseResultFails(d) ==
  /\ "PostQueuedCompletionStatus" \in Fails
  /\ running[d] # None
  /\ aborted' = TRUE
  /\ UNCHANGED <<allVars, jobVars>>

\* OnResult on an I/O thread: OnSuccess calls ResponseLoad, OnFail prints.  The
\* destructor of the context releases its reference ("finish").
OnLoadResult(t) ==
  /\ pc[t] = "send" /\ kind[t] = "CK_DB_RESULT"
  /\ \E c \in results :
       /\ c.mSessionObject = ses[t]
       /\ results' = results \ {c}
       /\ mPlayerId' = IF c.mSuccess THEN [mPlayerId EXCEPT ![ses[t]] = c.mPlayerId] ELSE mPlayerId
  /\ Goto(t, "finish")
  /\ Local /\ UNCHANGED <<sessionVars, fresh, crashed, sendVars, requests, unposted, running, asked>>

\* Mutant: SessionReset does not reset the player.
ResetKeepsPlayer(t) == ResetSends(t) /\ asked' = [asked EXCEPT ![ses[t]] = NoPlayer]
                       /\ UNCHANGED <<mPlayerId, requests, unposted, running, results>>

\* SessionReset ends with mPlayer.PlayerReset.
ResetWithPlayer(t) ==
  /\ ResetSends(t)
  /\ mPlayerId' = [mPlayerId EXCEPT ![ses[t]] = NoPlayer]
  /\ asked' = [asked EXCEPT ![ses[t]] = NoPlayer]
  /\ UNCHANGED <<requests, unposted, running, results>>

\* FlushSend creates a context for a session nobody refers to any more: the
\* list of its thread holds no reference, and the last one was released after
\* it had asked IsConnected.
Revives(t) ==
  pc[t] = "create" /\ kind[t] = "flush" /\ mRefCount[ses[t]] = 0

JobNext ==
  /\ ~crashed /\ ~aborted
  /\ \/ /\ \/ AcceptClientSessions /\ UNCHANGED <<sendVars, jobVars>>
           \/ \E t \in IOThread :
                \/ SameAsHomework7(t) /\ UNCHANGED <<sendVars, jobVars>>
                \/ DoSends(t) /\ UNCHANGED jobVars
                \/ NextCompletion(t) /\ UNCHANGED jobVars
                \/ \E n \in 0 .. MaxPlayerId - 1, ok \in BOOLEAN : PostRequest(t, n, ok)
                \/ OnLoadResult(t)
                \/ ResetWithPlayer(t)
           \/ \E d \in DBThread :
                \/ DoDatabaseJob(d)
                \/ \E ok \in BOOLEAN : PostDatabaseResult(d, ok)
        /\ UNCHANGED aborted
     \/ \E d \in DBThread : PostDatabaseResultFails(d)
  /\ revived' = (revived \/ \E t \in IOThread : Revives(t) /\ pc'[t] # pc[t])

JobSpec == JobInit /\ [][JobNext]_h6Vars

-----------------------------------------------------------------------------
JobTypeOK ==
  /\ SendTypeOK
  /\ mPlayerId \in [Session -> {NoPlayer} \union (0 .. MaxPlayerId - 1)]
  /\ requests \subseteq Context /\ results \subseteq Context
  /\ unposted \subseteq requests
  /\ running \in [DBThread -> Context \union {None}]
  /\ revived \in BOOLEAN /\ aborted \in BOOLEAN

(* What follows holds until FlushSend revives a session.  Such a session is *)
(* put into the free list with a reference, can be returned twice and then  *)
(* be issued twice, and two connections share it.                           *)

\* "flush later...": bytes that wait in the buffer of a connected session are
\* being sent, or some thread has the session in its list, or it is about to be
\* disconnected; also when the bytes are in two regions, which take two sends.
NoStrandedBytes ==
  revived \/ \A s \in Session : mConnected[s] = 1 /\ SizeOf(mSendBuffer[s]) > 0 =>
    \/ Uncompleted(s) > 0
    \/ \E t \in IOThread : s \in {LSendRequestSessionList[t][i] :
                                    i \in 1 .. Len(LSendRequestSessionList[t])}
    \/ \E t \in IOThread : ses[t] = s /\ pc[t] = "disconnect"

\* The player of a session shows the row that its own connection asked for, or
\* none: an answer that comes after the client has gone never shows up on the
\* next client of the session, and no client sees the row of the last one.
AnswerFitsConnection ==
  revived \/ \A s \in Session : mPlayerId[s] \in {NoPlayer, asked[s]}

\* Contexts of s that wait for a database thread (forever, when they are not in
\* the port) or are with one.
Requests(s) == {c \in requests : c.mSessionObject = s}
Running(s) == {d \in DBThread : running[d] # None /\ running[d].mSessionObject = s}
Loads(s) == Cardinality(Requests(s)) + Cardinality(Running(s))

\* Threads that hold a reference for the completion they handle: a flush has none.
JobHandlers(s) == {t \in Handlers(s) : kind[t] # "flush"}

\* mRefCount counts the overlapped contexts, the load contexts wherever they
\* are, those included that no port took, and the issue of the session, also
\* with database threads, failed jobs and sends that are flushed without a
\* reference; and no CRASH_ASSERT fails but that of PostDatabaseResult.
CountsAll ==
  \A s \in Session :
    mRefCount[s] = InFlight(s) + Loads(s) + Cardinality(JobHandlers(s))
                     + Cardinality(Creators(s)) + IssueRef(s)

ContextsCounted == revived \/ (~crashed /\ CountsAll)

-----------------------------------------------------------------------------
(* The inductive invariant of the two, until a session is revived: a        *)
(* connection loads its player once, after its accept, and every context of *)
(* the load carries the id that the connection has asked for.               *)

JobTypes ==
  /\ mConnected \in [Session -> {0, 1}]
  /\ mRefCount \in [Session -> Int]
  /\ issued \in [Session -> BOOLEAN]
  /\ mFreeSessionList \in Seq(Session)
  /\ mPlayerId \in [Session -> Int] /\ asked \in [Session -> Int]
  /\ requests \subseteq Context /\ IsFiniteSet(requests)
  /\ results \subseteq Context
  /\ running \in [DBThread -> Context \union {None}]

JobThreadOK(t) ==
  /\ pc[t] = "idle" <=> kind[t] = "none"
  /\ pc[t] \in {"disconnected", "prerecv", "postrecv"} \/ fresh[t] \in RecvTypes => kind[t] # "flush"
  /\ pc[t] \in {"accept", "setup", "subscribe"} => kind[t] = "IO_ACCEPT"
  /\ pc[t] = "parse" => kind[t] = "IO_RECV"
  /\ packets[t] > 0 => pc[t] = "parse"
  /\ fresh[t] = "IO_SEND" => kind[t] = "flush"
  /\ Returning(t) => back[t] = "idle" \/ mSendBufferLock[ses[t]] = t

\* Threads between the accept of s and the end of AcceptCompletion, and those
\* that bring the row to the player of s.
Accepting(s) ==
  {t \in IOThread : ses[t] = s /\ kind[t] = "IO_ACCEPT" /\ pc[t] \notin {"finish", "return", "reset"}}

Delivering(s) ==
  {t \in IOThread : ses[t] = s /\ kind[t] = "CK_DB_RESULT" /\ pc[t] = "send"}

LoadOnce ==
  \A s \in Session :
    pending[s]["IO_ACCEPT"] + Cardinality(Accepting(s)) + Loads(s)
      + pending[s]["CK_DB_RESULT"] + Cardinality(Delivering(s)) <= 1

\* No player has a row before its connection has asked for it, and no context
\* another id than the one asked for.
RowsAsked ==
  /\ \A s \in Session :
       /\ mPlayerId[s] \in {NoPlayer, asked[s]}
       /\ pending[s]["IO_ACCEPT"] > 0 \/ Accepting(s) # {} => mPlayerId[s] = NoPlayer
  /\ \A c \in requests \union results : c.mPlayerId = asked[c.mSessionObject]
  /\ \A d \in DBThread : running[d] # None =>
       running[d].mPlayerId = asked[running[d].mSessionObject]

\* A result is there for the completion that was posted with it.
ResultsPosted ==
  \A c \in results :
    /\ pending[c.mSessionObject]["CK_DB_RESULT"] > 0 \/ Delivering(c.mSessionObject) # {}
    /\ \A e \in results : c.mSessionObject = e.mSessionObject => c = e

\* A session in the pool is there once, has no reference, no row, and is not
\* about to be put there again.
PoolOK ==
  /\ \A i, j \in 1 .. Len(mFreeSessionList) :
       mFreeSessionList[i] = mFreeSessionList[j] => i = j
  /\ \A s \in Free :
       /\ mRefCount[s] = 0 /\ mPlayerId[s] = NoPlayer
       /\ \A t \in IOThread : Returning(t) => ses[t] # s

JobLifeInv ==
  /\ JobTypes
  /\ \A t \in IOThread : JobThreadOK(t)
  /\ ~crashed /\ CountsAll
  /\ ConnectOnce /\ ReturnsOnce
  /\ LoadOnce /\ RowsAsked /\ ResultsPosted
  /\ PoolOK

-----------------------------------------------------------------------------
(* Why no bytes are stranded: an entry of a list stands for a region of the *)
(* buffer, and is used once.                                                *)

\* FlushSend has done with the first entry of the list what it was there for.
Consumed(t) == kind[t] = "flush" /\ pc[t] # "lock" /\ fresh[t] # "IO_SEND"

\* The i-th entry of the list of t is of s, and has not been used.
WaitsAt(t, i, s) ==
  /\ i \in 1 .. Len(LSendRequestSessionList[t]) /\ LSendRequestSessionList[t][i] = s
  /\ i = 1 => ~Consumed(t)

Waiting(s) ==
  UNION {{<<t, i>> : i \in {j \in 1 .. Len(LSendRequestSessionList[t]) : WaitsAt(t, j, s)}} :
           t \in IOThread}

\* The regions that will be left when the send in flight has completed.
Left(s) ==
  Len(IF Uncompleted(s) > 0 THEN Removed(mSendBuffer[s], sending[s]) ELSE mSendBuffer[s])

\* An entry for each of them.
Enough(s) ==
  /\ Left(s) > 0 => Waiting(s) # {}
  /\ Left(s) > 1 => \E p, q \in Waiting(s) : p # q

\* FlushSend works on the first entry, and sends the first region.
FlushOK(t) ==
  /\ kind[t] = "flush" => Head(LSendRequestSessionList[t]) = ses[t]
  /\ fresh[t] = "IO_SEND" => /\ mSendBuffer[ses[t]] # << >>
                             /\ sending[ses[t]] = mSendBuffer[ses[t]][1]

\* s is in the pool or has not accepted yet: nothing of it is anywhere else.
BeforeConnect(s) ==
  \/ s \in Free
  \/ pending[s]["IO_ACCEPT"] > 0
  \/ \E t \in IOThread : ses[t] = s /\ pc[t] = "accept"

NothingYet(s) ==
  BeforeConnect(s) =>
    /\ mSendBuffer[s] = << >>
    /\ \A k \in IOType \ {"IO_ACCEPT"} : pending[s][k] = 0
    /\ \A t \in JobHandlers(s) : pc[t] = "accept"

Flushed(s) ==
  mConnected[s] = 1 =>
    \/ \E t \in IOThread : ses[t] = s /\ pc[t] = "disconnect"
    \/ Enough(s)

FlushesOK ==
  /\ \A t \in IOThread : FlushOK(t)
  /\ \A s \in Session : NothingYet(s) /\ Flushed(s)

\* Until FlushSend revives a session, all of the above.
JobInv == revived \/ (JobLifeInv /\ FlushesOK)
=============================================================================

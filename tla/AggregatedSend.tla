--------------------------- MODULE AggregatedSend ---------------------------
(***************************************************************************)
(* The aggregated sends of Homework6 on top of SessionLifecycle: PostSend  *)
(* only copies the data and puts the session into the list of its thread,  *)
(* LSendRequestSessionList; after each completion the thread empties that  *)
(* list with FlushSend (Session.cpp, IOThread.cpp, ClientSession.cpp of    *)
(* Homework6).  The list holds pointers without references.                *)
(*                                                                         *)
(* The life of a session is that of Homework7 without the packet handlers: *)
(* OnReceive is not there, every receive is echoed.  A thread that runs    *)
(* FlushSend has kind "flush".  mSendBuffer is the sizes of its non-empty  *)
(* regions in the order they are read, at most two; the bytes themselves   *)
(* are the subject of SessionBuffer.                                       *)
(***************************************************************************)
EXTENDS SessionLifecycle

CONSTANT MaxStored          \* the bytes mSendBuffer takes (CLIENT_BUFSIZE)

ASSUME MaxStoredAssumption == MaxStored \in Nat \ {0}

VARIABLES mSendBuffer,              \* of each session: sizes of its regions
          mSendPendingCount,        \* of each session
          sending,                  \* of each session: bytes of the last WSASend
          LSendRequestSessionList   \* of each thread

sendVars == <<mSendBuffer, mSendPendingCount, sending, LSendRequestSessionList>>
allVars == <<vars, sendVars>>

SendInit ==
  /\ Init
  /\ mSendBuffer = [s \in Session |-> << >>]
  /\ mSendPendingCount = [s \in Session |-> 0]
  /\ sending = [s \in Session |-> 0]
  /\ LSendRequestSessionList = [t \in IOThread |-> << >>]

\* GetStoredSize.
SizeOf(b) == (IF Len(b) > 0 THEN b[1] ELSE 0) + (IF Len(b) > 1 THEN b[2] ELSE 0)

\* Commit of one byte: into the last region, or into a new region B.
Committed(b) ==
  IF b = << >> THEN {<<1>>}
  ELSE {[b EXCEPT ![Len(b)] = @ + 1]} \union IF Len(b) = 1 THEN {Append(b, 1)} ELSE {}

\* Remove: from region A, then from B; when A is empty, B takes its place.
Removed(b, len) ==
  IF len >= SizeOf(b) THEN << >>
  ELSE IF len >= b[1] THEN <<SizeOf(b) - len>> ELSE [b EXCEPT ![1] = @ - len]

-----------------------------------------------------------------------------
\* PostSend of EchoBack, with the lock held from the test of the free space to
\* the end: only the entry in the list is left of it for later.
PostSend(t, full) ==
  /\ pc[t] = "lock" /\ mSendBufferLock[ses[t]] = None
  /\ full \/ SizeOf(mSendBuffer[ses[t]]) < MaxStored
  /\ IF full THEN UNCHANGED <<mSendBuffer, LSendRequestSessionList>>
     ELSE /\ \E b \in Committed(mSendBuffer[ses[t]]) :
               mSendBuffer' = [mSendBuffer EXCEPT ![ses[t]] = b]
          /\ LSendRequestSessionList' = [LSendRequestSessionList EXCEPT ![t] = Append(@, ses[t])]
  /\ Goto(t, AfterSend(t))
  /\ Local /\ UNCHANGED <<sessionVars, fresh, crashed, mSendPendingCount, sending>>

\* FlushSend has returned: true takes the session out of the list.
FlushReturns(t, result) ==
  /\ Goto(t, "idle")
  /\ ses' = [ses EXCEPT ![t] = None] /\ kind' = [kind EXCEPT ![t] = "none"]
  /\ LSendRequestSessionList' =
       IF result THEN [LSendRequestSessionList EXCEPT ![t] = Tail(@)] ELSE LSendRequestSessionList

\* DoSendJob calls FlushSend for the session at the front of the list, which
\* asks IsConnected of it.
FlushBegin(t) ==
  /\ pc[t] = "idle" /\ LSendRequestSessionList[t] # << >>
  /\ LET s == Head(LSendRequestSessionList[t])
     IN  /\ ses' = [ses EXCEPT ![t] = s]
         /\ Goto(t, IF mConnected[s] = 1 THEN "lock" ELSE "disconnect")
  /\ kind' = [kind EXCEPT ![t] = "flush"]
  /\ UNCHANGED <<sessionVars, poolVars, main, fresh, back, packets, crashed, issued, associated, sendVars>>

\* Mutant: a session whose earlier send is still going on is taken out of the list.
FlushWaitsDropped(t) ==
  /\ pc[t] = "lock" /\ mSendBufferLock[ses[t]] = None
  /\ mSendBuffer[ses[t]] = << >> \/ mSendPendingCount[ses[t]] > 0
  /\ FlushReturns(t, TRUE)
  /\ UNCHANGED <<sessionVars, poolVars, main, fresh, back, packets, crashed, issued, associated,
                 mSendBuffer, mSendPendingCount, sending>>

\* FlushSend under the lock: nothing to send, or an earlier send is not completed.
FlushWaits(t) ==
  /\ pc[t] = "lock" /\ mSendBufferLock[ses[t]] = None
  /\ mSendBuffer[ses[t]] = << >> \/ mSendPendingCount[ses[t]] > 0
  /\ FlushReturns(t, mSendBuffer[ses[t]] = << >> /\ mSendPendingCount[ses[t]] = 0)
  /\ UNCHANGED <<sessionVars, poolVars, main, fresh, back, packets, crashed, issued, associated,
                 mSendBuffer, mSendPendingCount, sending>>

\* Mutant: the test of mSendPendingCount is missing.
FlushPostsAlways(t) ==
  /\ pc[t] = "lock" /\ mSendBufferLock[ses[t]] = None
  /\ mSendBuffer[ses[t]] # << >>
  /\ mSendBufferLock' = [mSendBufferLock EXCEPT ![ses[t]] = t]
  /\ sending' = [sending EXCEPT ![ses[t]] = mSendBuffer[ses[t]][1]]
  /\ CreateIf(t, TRUE, "IO_SEND", "unlock")
  /\ Local /\ UNCHANGED <<mConnected, mRefCount, pending, crashed, mSendBuffer,
                          mSendPendingCount, LSendRequestSessionList>>

\* FlushSend under the lock: a context for the contiguous bytes.
FlushPosts(t) ==
  /\ pc[t] = "lock" /\ mSendBufferLock[ses[t]] = None
  /\ mSendBuffer[ses[t]] # << >> /\ ~(mSendPendingCount[ses[t]] > 0)
  /\ mSendBufferLock' = [mSendBufferLock EXCEPT ![ses[t]] = t]
  /\ sending' = [sending EXCEPT ![ses[t]] = mSendBuffer[ses[t]][1]]
  /\ CreateIf(t, TRUE, "IO_SEND", "unlock")
  /\ Local /\ UNCHANGED <<mConnected, mRefCount, pending, crashed, mSendBuffer,
                          mSendPendingCount, LSendRequestSessionList>>

\* WSASend accepts the request, and the send is counted under the same lock.
FlushIssueOk(t) ==
  /\ kind[t] = "flush" /\ fresh[t] = "IO_SEND" /\ IssueOk(t)
  /\ mSendPendingCount' = [mSendPendingCount EXCEPT ![ses[t]] = @ + 1]
  /\ UNCHANGED <<mSendBuffer, sending, LSendRequestSessionList>>

\* The end of FlushSend, with the lock after a WSASend and without it after the
\* DisconnectRequest at its beginning.
FlushEnd(t) ==
  /\ pc[t] \in {"unlock", "finish"} /\ kind[t] = "flush"
  /\ mSendBufferLock' = IF pc[t] = "unlock" THEN [mSendBufferLock EXCEPT ![ses[t]] = None]
                        ELSE mSendBufferLock
  /\ FlushReturns(t, TRUE)
  /\ UNCHANGED <<mConnected, mRefCount, pending, poolVars, main, fresh, back, packets,
                 crashed, issued, associated, mSendBuffer, mSendPendingCount, sending>>

\* SendCompletion with len bytes sent; DoIocpJob disconnects when it is not all.
FlushedSendCompletion(t, len) ==
  /\ pc[t] = "sent" /\ mSendBufferLock[ses[t]] = None
  /\ len <= sending[ses[t]]
  /\ mSendBuffer' = [mSendBuffer EXCEPT ![ses[t]] = Removed(@, len)]
  /\ mSendPendingCount' = [mSendPendingCount EXCEPT ![ses[t]] = @ - 1]
  /\ Goto(t, IF len # sending[ses[t]] THEN "disconnect" ELSE "finish")
  /\ Local /\ UNCHANGED <<sessionVars, fresh, crashed, sending, LSendRequestSessionList>>

\* SessionReset clears the buffer; mSendPendingCount is not reset.
ResetSends(t) ==
  /\ SessionReset(t)
  /\ mSendBuffer' = [mSendBuffer EXCEPT ![ses[t]] = << >>]
  /\ UNCHANGED <<mSendPendingCount, sending, LSendRequestSessionList>>

\* The end of AcceptCompletion: mPlayer.RequestLoad creates a LoadPlayerDataContext,
\* which takes a reference and comes back through a database thread, or is lost
\* with its reference when the port of the database threads refuses it.
RequestLoad(t, ok) ==
  /\ pc[t] = "subscribe"
  /\ ok \/ "PostQueuedCompletionStatus" \in Fails
  /\ mRefCount' = [mRefCount EXCEPT ![ses[t]] = @ + 1]
  /\ pending' = IF ok THEN [pending EXCEPT ![ses[t]]["CK_DB_RESULT"] = @ + 1] ELSE pending
  /\ Goto(t, "finish")
  /\ Local /\ UNCHANGED <<mConnected, mSendBufferLock, fresh, crashed, sendVars>>

\* OnResult of the LoadPlayerDataContext, see DatabaseJobs.
OnResult(t) ==
  /\ pc[t] = "send" /\ kind[t] = "CK_DB_RESULT"
  /\ Goto(t, "finish")
  /\ Local /\ UNCHANGED <<sessionVars, fresh, crashed, sendVars>>

\* The steps of DoIocpJob that do not touch the send path.
SameAsHomework7(t) ==
  \/ AcceptCompletion(t)
  \/ \E ok \in BOOLEAN : AcceptSetup(t, ok)
  \/ PreRecv(t)
  \/ \E full \in BOOLEAN : PostRecv(t, full)
  \/ NewContext(t)
  \/ fresh[t] # "IO_SEND" /\ IssueOk(t)
  \/ IssueFails(t)
  \/ ParseEnd(t)
  \/ kind[t] = "IO_RECV" /\ BeginSend(t, FALSE)
  \/ DisconnectRequest(t)
  \/ ~(pc[t] = "finish" /\ kind[t] = "flush") /\ ReleaseRef(t)
  \/ ReturnClientSession(t)

DoSendJob(t) ==
  \/ FlushBegin(t)
  \/ kind[t] = "flush" /\ (FlushWaits(t) \/ FlushPosts(t))
  \/ FlushIssueOk(t)
  \/ FlushEnd(t)

\* The steps of the send path alone.
DoSends(t) ==
  \/ kind[t] = "IO_RECV" /\ \E full \in BOOLEAN : PostSend(t, full)
  \/ \E len \in 1 .. MaxStored : FlushedSendCompletion(t, len)
  \/ DoSendJob(t)

DoIocpJobAndSends(t) ==
  \/ SameAsHomework7(t) /\ UNCHANGED sendVars
  \/ DoSends(t)
  \/ ResetSends(t)
  \/ \E ok \in BOOLEAN : RequestLoad(t, ok)
  \/ OnResult(t)

\* A thread fetches a completion when its list is empty.
NextCompletion(t) ==
  LSendRequestSessionList[t] = << >> /\ Completion(t) /\ UNCHANGED sendVars

SendNext ==
  /\ ~crashed
  /\ \/ AcceptClientSessions /\ UNCHANGED sendVars
     \/ \E t \in IOThread : DoIocpJobAndSends(t) \/ NextCompletion(t)

SendSpec == SendInit /\ [][SendNext]_allVars

-----------------------------------------------------------------------------
SendTypeOK ==
  /\ kind \in [IOThread -> IOType \union {"none", "flush"}]
  /\ mSendBuffer \in [Session -> UNION {[1 .. n -> 1 .. MaxStored] : n \in 0 .. 2}]
  /\ \A s \in Session : SizeOf(mSendBuffer[s]) <= MaxStored
  /\ mSendPendingCount \in [Session -> {0, 1}]
  /\ sending \in [Session -> 0 .. MaxStored]
  /\ LSendRequestSessionList \in [IOThread -> Seq(Session)]

\* Sends whose completion has not been handled.
Sent(s) == {t \in IOThread : ses[t] = s /\ kind[t] = "IO_SEND" /\ pc[t] = "sent"}

Uncompleted(s) == pending[s]["IO_SEND"] + Cardinality(Sent(s))

\* The kernel reads the send buffer of a session for one send at most, although
\* the lock is released between WSASend and SendCompletion and several threads
\* flush: no byte is handed to it twice.
OneSendInFlight == \A s \in Session : Uncompleted(s) <= 1

-----------------------------------------------------------------------------
(* Why there is one send: from the test of mSendPendingCount to its         *)
(* increment the lock is held, by a thread that leaves its own lock only.   *)

SendingTypeOK ==
  /\ pending \in [Session -> [IOType -> Nat]]
  /\ mSendBufferLock \in [Session -> IOThread \union {None}]
  /\ mSendPendingCount \in [Session -> Nat]
  /\ LSendRequestSessionList \in [IOThread -> Seq(Session)]
  /\ pc \in [IOThread -> Label]
  /\ ses \in [IOThread -> Session \union {None}]
  /\ kind \in [IOThread -> IOType \union {"none", "flush"}]
  /\ fresh \in [IOThread -> RecvTypes \union {"none", "IO_SEND", "IO_DISCONNECT"}]
  /\ back \in [IOThread -> {"none", "idle", "subscribe", "disconnect", "finish", "parse", "unlock"}]
  /\ packets \in [IOThread -> Nat]

SendThreadOK(t) ==
  /\ pc[t] = "idle" <=> ses[t] = None
  /\ pc[t] = "sent" => kind[t] = "IO_SEND"
  /\ kind[t] = "flush" => LSendRequestSessionList[t] # << >>
  /\ fresh[t] # "none" <=> pc[t] \in Creating
  /\ Returning(t) => back[t] # "none" /\ (back[t] = "unlock" => mSendBufferLock[ses[t]] = t)
  /\ pc[t] = "unlock" \/ fresh[t] = "IO_SEND" => mSendBufferLock[ses[t]] = t
  /\ fresh[t] = "IO_SEND" => mSendPendingCount[ses[t]] = 0

\* Whoever is between the test of mSendPendingCount and its increment holds the
\* send lock of the session, and the count is at least the uncompleted sends.
SendInv ==
  /\ SendingTypeOK
  /\ \A t \in IOThread : SendThreadOK(t)
  /\ \A s \in Session : Uncompleted(s) <= mSendPendingCount[s] /\ mSendPendingCount[s] <= 1

-----------------------------------------------------------------------------
\* Fairness as in SessionLifecycle; sends that the kernel has accepted complete
\* also on a connected session: its peer reads.
SendFairness ==
  /\ WF_allVars(~crashed /\ AcceptClientSessions /\ UNCHANGED sendVars)
  /\ \A t \in IOThread : SF_allVars(~crashed /\ DoIocpJobAndSends(t))
  /\ \A s \in Session :
       SF_allVars(~crashed /\ \E t \in IOThread, k \in IOType \ {"IO_ACCEPT"}, ok \in BOOLEAN :
                    /\ k = "IO_SEND" \/ mConnected[s] = 0
                    /\ LSendRequestSessionList[t] = << >>
                    /\ GetQueuedCompletionStatus(t, s, k, ok) /\ UNCHANGED sendVars)

FairSendSpec == SendSpec /\ SendFairness

\* "flush later...": a thread that has put a session into its list gets through
\* its list again, or a send has completed with an error, which leaves its count
\* behind.
FlushedLater ==
  \A t \in IOThread : LSendRequestSessionList[t] # << >> ~>
    \/ LSendRequestSessionList[t] = << >> \/ crashed
    \/ \E s \in Session : mSendPendingCount[s] > Uncompleted(s)
=============================================================================

-------------------------- MODULE SessionLifecycle --------------------------
(***************************************************************************)
(* The life of the ClientSessions of Homework7: ClientSessionManager's     *)
(* pool, the reference count that every overlapped operation holds, and    *)
(* the I/O threads that run the completions (Session.cpp,                  *)
(* ClientSession.cpp, ClientSessionManager.cpp, OverlappedIOContext.cpp,   *)
(* IOThread::DoIocpJob, IocpManager::StartAccept).                         *)
(*                                                                         *)
(* A session is issued by the main thread (one reference), accepts, is     *)
(* connected, is disconnected, and goes back to the pool when its last     *)
(* reference is released.  An I/O thread handles one completion at a time; *)
(* the handler is cut at every access to state that other threads see: the *)
(* interlocked operations on mConnected and mRefCount, the Winsock calls   *)
(* and the two spin locks.  What a session has in its buffers is left to   *)
(* SessionBuffer; here "the buffer is full" is either true or false.       *)
(***************************************************************************)
EXTENDS Integers, Sequences, FiniteSets

CONSTANTS Session,         \* the MAX_CONNECTION objects of the pool
          IOThread,        \* the I/O worker threads
          Main,            \* the main thread, as owner of a lock
          None,            \* no session, no owner
          Fails,           \* the calls that may fail at once
          MaxSends,        \* sends in flight that fill the send buffer
          MaxPackets,      \* packets that one receive completes, at most
          CounterModulus   \* 2^64 in the code: the counters wrap

\* The last one posts a completion of no socket: see the modules that use it.
Calls == {"AcceptEx", "setsockopt", "WSARecv", "WSASend", "DisconnectEx",
          "PostQueuedCompletionStatus"}

ASSUME SessionAssumption == IsFiniteSet(Session) /\ None \notin Session
ASSUME ThreadAssumption ==
  /\ IsFiniteSet(IOThread) /\ Main \notin IOThread
  /\ None \notin IOThread \union {Main}
ASSUME FailsAssumption == Fails \subseteq Calls
ASSUME BoundAssumption ==
  /\ MaxSends \in Nat /\ MaxPackets \in Nat
  /\ CounterModulus \in Nat /\ CounterModulus > Cardinality(Session)

MAX_CONNECTION == Cardinality(Session)

\* The types of an OverlappedIOContext of a ClientSession, and the completion
\* key of a DatabaseJobContext that asks an I/O thread to send a feed.
IOType == {"IO_ACCEPT", "IO_RECV_ZERO", "IO_RECV", "IO_SEND", "IO_DISCONNECT",
           "CK_DB_RESULT"}

VARIABLES
  mConnected, mRefCount,       \* of each session
  mSendBufferLock,             \* of each session: its owner
  pending,                     \* operations in flight, by session and type
  mFreeSessionList, mCurrentIssueCount, mCurrentReturnCount,
  mLock,                       \* ClientSessionManager's lock: its owner
  main,                        \* where the main thread is in StartAccept
  pc,                          \* where an I/O thread is in DoIocpJob
  ses, kind,                   \* mSessionObject and mIoType of its context
  fresh,                       \* type of the context it has just created
  back,                        \* where ReleaseRef returns to
  packets,                     \* in OnReceive: 1 + the packets that may still come
  crashed,                     \* a CRASH_ASSERT failed
  associated,                  \* the sessions whose mSocket is on the completion port
  issued                       \* history: the reference of the issue is held

sessionVars == <<mConnected, mRefCount, mSendBufferLock, pending>>
poolVars == <<mFreeSessionList, mCurrentIssueCount, mCurrentReturnCount, mLock>>
threadVars == <<pc, ses, kind, fresh, back, packets>>
vars == <<sessionVars, poolVars, main, threadVars, crashed, associated, issued>>

Init ==
  /\ mConnected = [s \in Session |-> 0]
  /\ mRefCount = [s \in Session |-> 0]
  /\ mSendBufferLock = [s \in Session |-> None]
  /\ pending = [s \in Session |-> [k \in IOType |-> 0]]
  /\ mFreeSessionList \in {l \in [1 .. MAX_CONNECTION -> Session] :
                             \A i, j \in 1 .. MAX_CONNECTION : l[i] = l[j] => i = j}
  /\ mCurrentIssueCount = 0 /\ mCurrentReturnCount = 0
  /\ mLock = None
  /\ main = "outside"
  /\ pc = [t \in IOThread |-> "idle"]
  /\ ses = [t \in IOThread |-> None]
  /\ kind = [t \in IOThread |-> "none"]
  /\ fresh = [t \in IOThread |-> "none"]
  /\ back = [t \in IOThread |-> "none"]
  /\ packets = [t \in IOThread |-> 0]
  /\ crashed = FALSE
  /\ associated = {}
  /\ issued = [s \in Session |-> FALSE]

-----------------------------------------------------------------------------
(* The main thread: AcceptClientSessions, called again and again.          *)

Outstanding == (mCurrentIssueCount - mCurrentReturnCount) % CounterModulus

AcceptEnter ==
  /\ main = "outside" /\ mLock = None
  /\ main' = "inside" /\ mLock' = Main
  /\ UNCHANGED <<sessionVars, mFreeSessionList, mCurrentIssueCount,
                 mCurrentReturnCount, threadVars, crashed, issued, associated>>

\* Mutant: the issue does not AddRef.
AcceptOneWithoutAddRef(ok) ==
  /\ main = "inside" /\ Outstanding < MAX_CONNECTION
  /\ mFreeSessionList # << >>
  /\ ok \/ "AcceptEx" \in Fails
  /\ LET s == mFreeSessionList[Len(mFreeSessionList)]
     IN  /\ mRefCount' = [mRefCount EXCEPT ![s] = @ + IF ok THEN 1 ELSE 0]
         /\ pending' = IF ok THEN [pending EXCEPT ![s]["IO_ACCEPT"] = @ + 1] ELSE pending
         /\ issued' = [issued EXCEPT ![s] = TRUE]
  /\ mFreeSessionList' = SubSeq(mFreeSessionList, 1, Len(mFreeSessionList) - 1)
  /\ mCurrentIssueCount' = (mCurrentIssueCount + 1) % CounterModulus
  /\ main' = IF ok THEN "inside" ELSE "ended"
  /\ mLock' = IF ok THEN mLock ELSE None
  /\ UNCHANGED <<mConnected, mSendBufferLock, mCurrentReturnCount, threadVars, crashed, associated>>

\* One turn of the loop: issue the session at the back of the list, AddRef,
\* PostAccept.  The session is nobody else's until AcceptEx has been called.
AcceptOne(ok) ==
  /\ main = "inside" /\ Outstanding < MAX_CONNECTION
  /\ mFreeSessionList # << >>
  /\ ok \/ "AcceptEx" \in Fails
  /\ LET s == mFreeSessionList[Len(mFreeSessionList)]
     IN  /\ mRefCount' = [mRefCount EXCEPT ![s] = @ + IF ok THEN 2 ELSE 1]
         /\ pending' = IF ok THEN [pending EXCEPT ![s]["IO_ACCEPT"] = @ + 1] ELSE pending
         /\ issued' = [issued EXCEPT ![s] = TRUE]
  /\ mFreeSessionList' = SubSeq(mFreeSessionList, 1, Len(mFreeSessionList) - 1)
  /\ mCurrentIssueCount' = (mCurrentIssueCount + 1) % CounterModulus
  /\ main' = IF ok THEN "inside" ELSE "ended"
  /\ mLock' = IF ok THEN mLock ELSE None
  /\ UNCHANGED <<mConnected, mSendBufferLock, mCurrentReturnCount, threadVars, crashed, associated>>

AcceptLeave ==
  /\ main = "inside" /\ Outstanding >= MAX_CONNECTION
  /\ main' = "outside" /\ mLock' = None
  /\ UNCHANGED <<sessionVars, mFreeSessionList, mCurrentIssueCount,
                 mCurrentReturnCount, threadVars, crashed, issued, associated>>

-----------------------------------------------------------------------------
(* The I/O threads.                                                        *)

Goto(t, label) == pc' = [pc EXCEPT ![t] = label]

\* A step of a handler that stays with its context and creates none.
Local == UNCHANGED <<poolVars, main, ses, kind, back, packets, issued, associated>>

\* SendRequest is called by a packet handler or by OnSuccess, PostSend by
\* EchoBack.
AfterSend(t) ==
  CASE packets[t] > 0 -> "parse"
    [] packets[t] = 0 /\ kind[t] = "IO_RECV" -> "prerecv"
    [] packets[t] = 0 /\ kind[t] # "IO_RECV" -> "finish"

\* DisconnectRequest is called at the end of DoIocpJob, by OnReceive and the
\* packet handlers, or by PostSend and SendRequest, which hold the send lock.
AfterDisconnect(t) ==
  CASE mSendBufferLock[ses[t]] = t -> "unlock"
    [] mSendBufferLock[ses[t]] # t /\ packets[t] > 0 -> "parse"
    [] mSendBufferLock[ses[t]] # t /\ packets[t] = 0 -> "finish"

\* Mutant: DoIocpJob ignores the result of PreRecv and PostRecv too.
AfterRefusedRecvIgnored(t) == IF kind[t] = "IO_ACCEPT" THEN "subscribe" ELSE "finish"

\* PreRecv or PostRecv returned false: AcceptCompletion only prints, DoIocpJob
\* closes the connection.
AfterRefusedRecv(t) == IF kind[t] = "IO_ACCEPT" THEN "subscribe" ELSE "disconnect"

\* The fresh context is in flight.
AfterPost(t) ==
  CASE fresh[t] = "IO_RECV" -> "finish"
    [] fresh[t] = "IO_RECV_ZERO" -> IF kind[t] = "IO_ACCEPT" THEN "subscribe" ELSE "finish"
    [] fresh[t] = "IO_SEND" -> "unlock"
    [] fresh[t] = "IO_DISCONNECT" -> AfterDisconnect(t)

\* The fresh context could not be posted and was deleted.
AfterFailedPost(t) ==
  CASE fresh[t] \in {"IO_RECV", "IO_RECV_ZERO"} -> AfterRefusedRecv(t)
    [] fresh[t] = "IO_SEND" -> "disconnect"
    [] fresh[t] = "IO_DISCONNECT" -> AfterDisconnect(t)

\* Completions that do not need the socket of the session on the port: AcceptEx
\* completes on the listen socket, the other kind is posted.
OnPort == {"IO_ACCEPT", "CK_DB_RESULT"}

\* Mutant: DisconnectCompletion does not release the reference of the issue.
CompletionWithoutRelease(t, s, k, ok) ==
  /\ pc[t] = "idle" /\ pending[s][k] > 0
  /\ k \in OnPort \/ s \in associated
  /\ ok \/ k \in {"IO_RECV", "IO_SEND"}
  /\ pending' = [pending EXCEPT ![s][k] = @ - 1]
  /\ ses' = [ses EXCEPT ![t] = s] /\ kind' = [kind EXCEPT ![t] = k]
  /\ Goto(t, CASE ~ok -> "disconnect"
               [] ok /\ k = "IO_ACCEPT" -> "accept"
               [] ok /\ k = "IO_RECV_ZERO" -> "postrecv"
               [] ok /\ k = "IO_RECV" -> "parse"
               [] ok /\ k = "CK_DB_RESULT" -> "send"
               [] ok /\ k = "IO_SEND" -> "sent"
               [] ok /\ k = "IO_DISCONNECT" -> "finish")
  /\ packets' = [packets EXCEPT ![t] = IF ok /\ k = "IO_RECV" THEN MaxPackets + 1 ELSE 0]
  /\ UNCHANGED <<mConnected, mRefCount, mSendBufferLock, poolVars, main, fresh, back, crashed,
                 issued, associated>>

\* GetQueuedCompletionStatus returns a completion of type k of session s, which
\* the kernel queues for sockets on the port only.
\* ok is FALSE when ret or dwTransferred is 0, for the types that look at it.
GetQueuedCompletionStatus(t, s, k, ok) ==
  /\ pc[t] = "idle" /\ pending[s][k] > 0
  /\ k \in OnPort \/ s \in associated
  /\ ok \/ k \in {"IO_RECV", "IO_SEND"}
  /\ pending' = [pending EXCEPT ![s][k] = @ - 1]
  /\ ses' = [ses EXCEPT ![t] = s] /\ kind' = [kind EXCEPT ![t] = k]
  /\ Goto(t, CASE ~ok -> "disconnect"
               [] ok /\ k = "IO_ACCEPT" -> "accept"
               [] ok /\ k = "IO_RECV_ZERO" -> "postrecv"
               [] ok /\ k = "IO_RECV" -> "parse"
               [] ok /\ k = "IO_SEND" -> "sent"
               [] ok /\ k = "IO_DISCONNECT" -> "disconnected"
               [] ok /\ k = "CK_DB_RESULT" -> "send")
  /\ packets' = [packets EXCEPT ![t] = IF ok /\ k = "IO_RECV" THEN MaxPackets + 1 ELSE 0]
  /\ UNCHANGED <<mConnected, mRefCount, mSendBufferLock, poolVars, main, fresh, back, crashed,
                 issued, associated>>

\* AcceptCompletion: the exchange that must find the session unconnected.
AcceptCompletion(t) ==
  /\ pc[t] = "accept"
  /\ mConnected' = [mConnected EXCEPT ![ses[t]] = 1]
  /\ crashed' = (mConnected[ses[t]] = 1)
  /\ Goto(t, "setup")
  /\ Local /\ UNCHANGED <<mRefCount, mSendBufferLock, pending, fresh>>

\* Mutant: the socket is put on the completion port before the socket options.
AcceptSetupAssociatesFirst(t, ok) ==
  /\ pc[t] = "setup"
  /\ ok \/ "setsockopt" \in Fails
  /\ associated' = associated \union {ses[t]}
  /\ Goto(t, IF ok THEN "prerecv" ELSE "disconnect")
  /\ UNCHANGED <<sessionVars, poolVars, main, ses, kind, fresh, back, packets, crashed, issued>>

\* AcceptCompletion: socket options, getpeername and, after all of them,
\* CreateIoCompletionPort, which puts the socket on the port.
AcceptSetup(t, ok) ==
  /\ pc[t] = "setup"
  /\ ok \/ "setsockopt" \in Fails
  /\ associated' = IF ok THEN associated \union {ses[t]} ELSE associated
  /\ Goto(t, IF ok THEN "prerecv" ELSE "disconnect")
  /\ UNCHANGED <<sessionVars, poolVars, main, ses, kind, fresh, back, packets, crashed, issued>>

\* AcceptCompletion: GFeedCenter->SubscribeFeed(this), see FeedCenter.
Subscribe(t) ==
  /\ pc[t] = "subscribe"
  /\ Goto(t, "finish")
  /\ Local /\ UNCHANGED <<sessionVars, fresh, crashed>>

\* Create a context of type k if the test succeeds, else go to label.
CreateIf(t, test, k, label) ==
  /\ Goto(t, IF test THEN "create" ELSE label)
  /\ fresh' = IF test THEN [fresh EXCEPT ![t] = k] ELSE fresh

\* PreRecv and PostRecv up to the creation of the context.
PreRecv(t) ==
  /\ pc[t] = "prerecv"
  /\ CreateIf(t, mConnected[ses[t]] = 1, "IO_RECV_ZERO", AfterRefusedRecv(t))
  /\ Local /\ UNCHANGED <<sessionVars, crashed>>

PostRecv(t, full) ==
  /\ pc[t] = "postrecv"
  /\ CreateIf(t, mConnected[ses[t]] = 1 /\ ~full, "IO_RECV", AfterRefusedRecv(t))
  /\ Local /\ UNCHANGED <<sessionVars, crashed>>

\* Mutant: the context does not take a reference.
NewContextWithoutAddRef(t) ==
  /\ pc[t] = "create"
  /\ Goto(t, "issue")
  /\ Local /\ UNCHANGED <<sessionVars, fresh, crashed>>

\* The constructor of OverlappedIOContext: AddRef.
NewContext(t) ==
  /\ pc[t] = "create"
  /\ mRefCount' = [mRefCount EXCEPT ![ses[t]] = @ + 1]
  /\ crashed' = ~(mRefCount[ses[t]] + 1 > 0)
  /\ Goto(t, "issue")
  /\ Local /\ UNCHANGED <<mConnected, mSendBufferLock, pending, fresh>>

CallOf(k) ==
  CASE k \in {"IO_RECV_ZERO", "IO_RECV"} -> "WSARecv"
    [] k = "IO_SEND" -> "WSASend"
    [] k = "IO_DISCONNECT" -> "DisconnectEx"

\* The Winsock call puts the operation in flight ...
IssueOk(t) ==
  /\ pc[t] = "issue"
  /\ pending' = [pending EXCEPT ![ses[t]][fresh[t]] = @ + 1]
  /\ Goto(t, AfterPost(t))
  /\ fresh' = [fresh EXCEPT ![t] = "none"]
  /\ Local /\ UNCHANGED <<mConnected, mRefCount, mSendBufferLock, crashed>>

\* Mutant: the context that could not be posted is not deleted.
IssueFailsLeak(t) ==
  /\ pc[t] = "issue" /\ CallOf(fresh[t]) \in Fails
  /\ Goto(t, AfterFailedPost(t)) /\ fresh' = [fresh EXCEPT ![t] = "none"]
  /\ Local /\ UNCHANGED <<sessionVars, crashed>>

\* ... or fails, and the context is deleted.
IssueFails(t) ==
  /\ pc[t] = "issue" /\ CallOf(fresh[t]) \in Fails
  /\ Goto(t, "undo")
  /\ Local /\ UNCHANGED <<sessionVars, fresh, crashed>>

\* OnReceive: a packet whose handler answers with SendRequest, or one that has
\* a bad type or cannot be parsed and asks for the disconnection.  The other
\* packets change nothing here.
HandlePacket(t, call) ==
  /\ pc[t] = "parse" /\ packets[t] > 1
  /\ packets' = [packets EXCEPT ![t] = @ - 1]
  /\ Goto(t, call)
  /\ UNCHANGED <<sessionVars, poolVars, main, ses, kind, fresh, back, crashed, issued, associated>>

\* OnReceive: what is left is not a complete packet.
ParseEnd(t) ==
  /\ pc[t] = "parse"
  /\ packets' = [packets EXCEPT ![t] = 0]
  /\ Goto(t, "send")
  /\ UNCHANGED <<sessionVars, poolVars, main, ses, kind, fresh, back, crashed, issued, associated>>

\* EchoBack with PostSend, or SendRequest, up to the lock.  EchoBack sends
\* nothing when the parser has consumed all that was received.
BeginSend(t, empty) ==
  /\ pc[t] = "send" /\ (empty => kind[t] = "IO_RECV" /\ packets[t] = 0)
  /\ Goto(t, IF ~empty /\ mConnected[ses[t]] = 1 THEN "lock" ELSE AfterSend(t))
  /\ Local /\ UNCHANGED <<sessionVars, fresh, crashed>>

\* PostSend, SendRequest: EnterLock, and the test that the data fits.
SendLock(t, full) ==
  /\ pc[t] = "lock" /\ mSendBufferLock[ses[t]] = None
  /\ full \/ pending[ses[t]]["IO_SEND"] < MaxSends
  /\ mSendBufferLock' = [mSendBufferLock EXCEPT ![ses[t]] = t]
  /\ CreateIf(t, ~full, "IO_SEND", "unlock")
  /\ Local /\ UNCHANGED <<mConnected, mRefCount, pending, crashed>>

\* The guard of the lock is left: back in EchoBack, OnReceive or OnSuccess.
SendUnlock(t) ==
  /\ pc[t] = "unlock"
  /\ mSendBufferLock' = [mSendBufferLock EXCEPT ![ses[t]] = None]
  /\ Goto(t, AfterSend(t))
  /\ Local /\ UNCHANGED <<mConnected, mRefCount, pending, fresh, crashed>>

\* Mutant: the completion of a send posts the next receive.
SendCompletionReceives(t, partial) ==
  /\ pc[t] = "sent" /\ mSendBufferLock[ses[t]] = None
  /\ Goto(t, IF partial THEN "disconnect" ELSE "prerecv")
  /\ Local /\ UNCHANGED <<sessionVars, fresh, crashed>>

\* SendCompletion under the lock; a partial send closes the connection.
SendCompletion(t, partial) ==
  /\ pc[t] = "sent" /\ mSendBufferLock[ses[t]] = None
  /\ Goto(t, IF partial THEN "disconnect" ELSE "finish")
  /\ Local /\ UNCHANGED <<sessionVars, fresh, crashed>>

\* Mutant: mConnected is read, and not exchanged.
DisconnectRequestWithoutExchange(t) ==
  /\ pc[t] = "disconnect"
  /\ CreateIf(t, mConnected[ses[t]] = 1, "IO_DISCONNECT", AfterDisconnect(t))
  /\ Local /\ UNCHANGED <<sessionVars, crashed>>

\* Mutant: mConnected is decremented instead of exchanged.
DisconnectRequestDecrement(t) ==
  /\ pc[t] = "disconnect"
  /\ mConnected' = [mConnected EXCEPT ![ses[t]] = @ - 1]
  /\ CreateIf(t, mConnected[ses[t]] = 1, "IO_DISCONNECT", AfterDisconnect(t))
  /\ Local /\ UNCHANGED <<mRefCount, mSendBufferLock, pending, crashed>>

\* DisconnectRequest: only the caller that finds mConnected set goes on.
DisconnectRequest(t) ==
  /\ pc[t] = "disconnect"
  /\ mConnected' = [mConnected EXCEPT ![ses[t]] = 0]
  /\ CreateIf(t, mConnected[ses[t]] = 1, "IO_DISCONNECT", AfterDisconnect(t))
  /\ Local /\ UNCHANGED <<mRefCount, mSendBufferLock, pending, crashed>>

\* The three calls of ReleaseRef, and where each goes on: DeleteIoContext for
\* a context that could not be posted ("undo"), DisconnectCompletion for the
\* reference of the issue ("disconnected"), DeleteIoContext at the end of
\* DoIocpJob ("finish").
AfterRelease(t) ==
  CASE pc[t] = "undo" -> AfterFailedPost(t)
    [] pc[t] = "disconnected" -> "finish"
    [] pc[t] = "finish" -> "idle"

\* The thread goes on at label; at the end of DoIocpJob it has no context.
Resume(t, label) ==
  /\ Goto(t, label)
  /\ ses' = IF label = "idle" THEN [ses EXCEPT ![t] = None] ELSE ses
  /\ kind' = IF label = "idle" THEN [kind EXCEPT ![t] = "none"] ELSE kind

\* ReleaseRef: the decrement; the thread that reaches 0 calls OnRelease.
ReleaseRef(t) ==
  /\ pc[t] \in {"undo", "disconnected", "finish"}
  /\ mRefCount' = [mRefCount EXCEPT ![ses[t]] = @ - 1]
  /\ crashed' = (mRefCount[ses[t]] - 1 < 0)
  /\ fresh' = [fresh EXCEPT ![t] = "none"]
  /\ issued' = IF pc[t] = "disconnected" THEN [issued EXCEPT ![ses[t]] = FALSE] ELSE issued
  /\ IF mRefCount[ses[t]] - 1 = 0
       THEN /\ Goto(t, "return") /\ back' = [back EXCEPT ![t] = AfterRelease(t)]
            /\ UNCHANGED <<ses, kind>>
       ELSE Resume(t, AfterRelease(t)) /\ UNCHANGED back
  /\ UNCHANGED <<mConnected, mSendBufferLock, pending, poolVars, main, packets, associated>>

\* OnRelease, ReturnClientSession: the lock, the assertion, the first lines of
\* SessionReset.
ReturnClientSession(t) ==
  /\ pc[t] = "return" /\ mLock = None
  /\ mLock' = t
  /\ crashed' = ~(mConnected[ses[t]] = 0 /\ mRefCount[ses[t]] = 0)
  /\ mConnected' = [mConnected EXCEPT ![ses[t]] = 0]
  /\ mRefCount' = [mRefCount EXCEPT ![ses[t]] = 0]
  /\ Goto(t, "reset")
  /\ UNCHANGED <<mSendBufferLock, pending, mFreeSessionList, mCurrentIssueCount,
                 mCurrentReturnCount, main, ses, kind, fresh, back, packets, issued, associated>>

\* Mutant: mCurrentReturnCount is not incremented.
SessionResetUncounted(t) ==
  /\ pc[t] = "reset" /\ mSendBufferLock[ses[t]] = None
  /\ mFreeSessionList' = Append(mFreeSessionList, ses[t])
  /\ associated' = associated \ {ses[t]}
  /\ mLock' = None
  /\ Resume(t, back[t]) /\ back' = [back EXCEPT ![t] = "none"]
  /\ UNCHANGED <<sessionVars, mCurrentIssueCount, mCurrentReturnCount, main, fresh,
                 packets, crashed, issued>>

\* The rest of SessionReset, which takes the send lock, and of
\* ReturnClientSession.  The new socket is on no port.
SessionReset(t) ==
  /\ pc[t] = "reset" /\ mSendBufferLock[ses[t]] = None
  /\ mFreeSessionList' = Append(mFreeSessionList, ses[t])
  /\ mCurrentReturnCount' = (mCurrentReturnCount + 1) % CounterModulus
  /\ associated' = associated \ {ses[t]}
  /\ mLock' = None
  /\ Resume(t, back[t]) /\ back' = [back EXCEPT ![t] = "none"]
  /\ UNCHANGED <<sessionVars, mCurrentIssueCount, main, fresh, packets, crashed, issued>>

\* What thread t does next with the completion it has.
DoIocpJob(t) ==
  \/ AcceptCompletion(t)
  \/ \E ok \in BOOLEAN : AcceptSetup(t, ok)
  \/ PreRecv(t)
  \/ \E full \in BOOLEAN : PostRecv(t, full)
  \/ NewContext(t)
  \/ IssueOk(t)
  \/ IssueFails(t)
  \/ \E call \in {"send", "disconnect"} : HandlePacket(t, call)
  \/ ParseEnd(t)
  \/ \E empty \in BOOLEAN : BeginSend(t, empty)
  \/ \E full \in BOOLEAN : SendLock(t, full)
  \/ SendUnlock(t)
  \/ \E partial \in BOOLEAN : SendCompletion(t, partial)
  \/ DisconnectRequest(t)
  \/ ReleaseRef(t)
  \/ ReturnClientSession(t)
  \/ SessionReset(t)

AcceptClientSessions ==
  \/ AcceptEnter
  \/ \E ok \in BOOLEAN : AcceptOne(ok)
  \/ AcceptLeave

Completion(t) ==
  \E s \in Session, k \in IOType, ok \in BOOLEAN : GetQueuedCompletionStatus(t, s, k, ok)

Next ==
  /\ ~crashed
  /\ \/ AcceptClientSessions
     \/ \E t \in IOThread : DoIocpJob(t) \/ Subscribe(t) \/ Completion(t)

Spec == Init /\ [][Next]_vars

-----------------------------------------------------------------------------
Free == {mFreeSessionList[i] : i \in 1 .. Len(mFreeSessionList)}

Label == {"idle", "accept", "setup", "subscribe", "prerecv", "postrecv", "create",
          "issue", "undo", "parse", "send", "lock", "unlock", "sent", "disconnect",
          "disconnected", "finish", "return", "reset"}

TypeOK ==
  /\ mConnected \in [Session -> {0, 1}]
  /\ mRefCount \in [Session -> Int]
  /\ mSendBufferLock \in [Session -> IOThread \union {None}]
  /\ pending \in [Session -> [IOType -> Nat]]
  /\ mFreeSessionList \in Seq(Session)
  /\ mCurrentIssueCount \in 0 .. (CounterModulus - 1)
  /\ mCurrentReturnCount \in 0 .. (CounterModulus - 1)
  /\ mLock \in IOThread \union {Main, None}
  /\ main \in {"outside", "inside", "ended"}
  /\ pc \in [IOThread -> Label]
  /\ ses \in [IOThread -> Session \union {None}]
  /\ kind \in [IOThread -> IOType \union {"none"}]
  /\ fresh \in [IOThread -> IOType \union {"none"}]
  /\ back \in [IOThread -> Label \union {"none"}]
  /\ packets \in [IOThread -> 0 .. MaxPackets + 1]
  /\ crashed \in BOOLEAN
  /\ associated \subseteq Session
  /\ issued \in [Session -> BOOLEAN]

\* No CRASH_ASSERT of AddRef, ReleaseRef, AcceptCompletion ("already exists?")
\* or ReturnClientSession ever fails, whatever the threads do in which order.
NoCrash == ~crashed

\* References of s held by the contexts in flight, by the threads that handle
\* one, and by the threads that have created one.
InFlight(s) ==
  pending[s]["IO_ACCEPT"] + pending[s]["IO_RECV_ZERO"] + pending[s]["IO_RECV"]
    + pending[s]["IO_SEND"] + pending[s]["IO_DISCONNECT"] + pending[s]["CK_DB_RESULT"]

Handlers(s) ==
  {t \in IOThread : /\ ses[t] = s
                    /\ ~(pc[t] \in {"return", "reset"} /\ back[t] = "idle")}

Creators(s) == {t \in IOThread : ses[t] = s /\ pc[t] \in {"issue", "undo"}}

\* The reference that AcceptClientSessions took when it issued s.
IssueRef(s) == IF issued[s] THEN 1 ELSE 0

\* mRefCount is exactly the number of contexts that exist for the session plus
\* one while it is issued: no error path of the Winsock calls leaks a reference
\* or gives one back twice.
RefCountExact ==
  \A s \in Session :
    mRefCount[s] = InFlight(s) + Cardinality(Handlers(s)) + Cardinality(Creators(s))
                     + IssueRef(s)

\* The pool: a session is in the free list at most once and then nothing
\* refers to it any more, and the two counters of ClientSessionManager (which
\* wrap) differ by the number of sessions that are out, so that
\* AcceptClientSessions never pops from an empty list.
PoolAccounting ==
  /\ \A i, j \in 1 .. Len(mFreeSessionList) :
       mFreeSessionList[i] = mFreeSessionList[j] => i = j
  /\ \A s \in Free : /\ mRefCount[s] = 0 /\ mConnected[s] = 0 /\ ~issued[s]
                     /\ InFlight(s) = 0 /\ \A t \in IOThread : ses[t] # s
  /\ Outstanding = MAX_CONNECTION - Len(mFreeSessionList)

\* mRecvBuffer has no lock.  Its users are the receive in flight, the thread
\* between PostRecv's test and WSARecv, and the thread from RecvCompletion to
\* the end of EchoBack: there is never more than one of them.
UsesRecvBuffer(t) ==
  \/ pc[t] = "postrecv"
  \/ fresh[t] = "IO_RECV"
  \/ packets[t] > 0
  \/ kind[t] = "IO_RECV" /\ (pc[t] \in {"send", "lock"} \/ mSendBufferLock[ses[t]] = t)

RecvBufferExclusive ==
  \A s \in Session :
    pending[s]["IO_RECV"] + Cardinality({t \in IOThread : ses[t] = s /\ UsesRecvBuffer(t)}) <= 1

\* SessionReset takes the send lock while it holds the manager's lock, and
\* PostSend may call ReleaseRef with the send lock held.  This never becomes a
\* deadlock: when a session is reset nobody holds its send lock.
ResetNeverWaits ==
  \A t \in IOThread : pc[t] \in {"return", "reset"} => mSendBufferLock[ses[t]] = None

\* A session whose count is 0 gets a reference only by being issued again.
NoResurrection ==
  [][\A s \in Session : mRefCount[s] = 0 /\ mRefCount'[s] > 0 => s \in Free]_vars

\* A connected session is always being listened to: a receive is in flight or
\* some thread is on its way to post the next one or to disconnect.  The code
\* loses this when the first PreRecv fails, so the run excludes that failure.
ConnectedIsListening ==
  \A s \in Session : mConnected[s] = 1 =>
    \/ pending[s]["IO_RECV_ZERO"] + pending[s]["IO_RECV"] > 0
    \/ \E t \in IOThread :
         /\ ses[t] = s
         /\ \/ kind[t] \in {"IO_ACCEPT", "IO_RECV_ZERO", "IO_RECV"}
            \/ pc[t] = "disconnect"

\* One connection per issue: while a session is issued it is waiting for its
\* accept, or being connected, or connected, or being disconnected, by one
\* thread or context, and only once; a session in the pool is none of these.
Connectors(s) ==
  {t \in IOThread : /\ ses[t] = s
                    /\ pc[t] \in {"accept", "disconnected"} \/ fresh[t] = "IO_DISCONNECT"}

ConnectOnce ==
  \A s \in Session :
    pending[s]["IO_ACCEPT"] + mConnected[s] + pending[s]["IO_DISCONNECT"]
      + Cardinality(Connectors(s)) <= IssueRef(s)

\* One chain of receives: the accept, the zero-byte receive, the receive and
\* the handler that is between two of them follow each other, never two at a
\* time, so the two contexts and the buffer of a session need no lock.
RecvTypes == {"IO_RECV_ZERO", "IO_RECV"}

InChain(t) ==
  \/ pc[t] \in {"accept", "setup", "prerecv", "postrecv", "parse"}
  \/ fresh[t] \in RecvTypes
  \/ packets[t] > 0
  \/ kind[t] = "IO_RECV" /\ (pc[t] \in {"send", "lock"} \/ mSendBufferLock[ses[t]] = t)

Chain(s) == {t \in IOThread : ses[t] = s /\ InChain(t)}

OneChain ==
  \A s \in Session :
    pending[s]["IO_ACCEPT"] + pending[s]["IO_RECV_ZERO"] + pending[s]["IO_RECV"]
      + Cardinality(Chain(s)) <= 1

-----------------------------------------------------------------------------
(* The inductive invariant: what a thread knows where it is, and the sums   *)
(* above.                                                                   *)

\* What the context, the fresh context and the send lock of thread t are at
\* each label.
Creating == {"create", "issue", "undo"}
Returning(t) == pc[t] \in {"return", "reset"}

ThreadOK(t) ==
  /\ pc[t] = "idle" <=> ses[t] = None
  /\ pc[t] = "idle" <=> kind[t] = "none"
  /\ fresh[t] # "none" <=> pc[t] \in Creating
  /\ fresh[t] \in RecvTypes \union {"none", "IO_SEND", "IO_DISCONNECT"}
  /\ pc[t] = "undo" => CallOf(fresh[t]) \in Fails
  /\ Returning(t) => back[t] = "idle"
  /\ packets[t] > 0 \/ pc[t] = "parse" => kind[t] = "IO_RECV"
  /\ packets[t] > 0 => pc[t] \in Creating \union {"parse", "send", "lock", "unlock", "disconnect"}
  /\ pc[t] \in {"prerecv", "postrecv"} \/ fresh[t] \in RecvTypes => packets[t] = 0
  /\ pc[t] \in {"accept", "setup", "subscribe"} => kind[t] = "IO_ACCEPT"
  /\ pc[t] = "prerecv" => kind[t] \in {"IO_ACCEPT", "IO_RECV"}
  /\ pc[t] = "postrecv" => kind[t] = "IO_RECV_ZERO"
  /\ fresh[t] \in RecvTypes => kind[t] \in RecvTypes \union {"IO_ACCEPT"}
  /\ pc[t] = "unlock" \/ fresh[t] = "IO_SEND" => mSendBufferLock[ses[t]] = t
  /\ \A s \in Session : mSendBufferLock[s] = t =>
       /\ ses[t] = s
       /\ pc[t] \in Creating \union {"unlock", "disconnect"}
       /\ fresh[t] \notin RecvTypes

\* A session whose count is 0 is returned by the thread that took it there.
ReturnsOnce ==
  /\ \A t \in IOThread : Returning(t) => mRefCount[ses[t]] = 0
  /\ \A t, u \in IOThread : Returning(t) /\ Returning(u) /\ ses[t] = ses[u] => t = u

\* Every step of the main thread and of DoIocpJob keeps all of these together:
\* what a handler at a given line may rely on (its context, the send lock it
\* holds), and what the counts of the sessions add up to.
IndInv ==
  /\ TypeOK
  /\ \A t \in IOThread : ThreadOK(t)
  /\ RefCountExact
  /\ ConnectOnce
  /\ OneChain
  /\ ReturnsOnce
  /\ PoolAccounting
  /\ ~crashed

-----------------------------------------------------------------------------
\* Fairness.  A running thread goes on; a thread that waits for a lock gets it
\* in the end (the lock is free again and again: main sleeps 100 ms between two
\* calls of AcceptClientSessions).  The kernel completes every operation of a
\* socket that is being disconnected, and the completion port hands it to a
\* thread.  Nothing is assumed of the operations of a connected session: its
\* peer may stay silent forever.
ThreadFairness ==
  \A t \in IOThread : SF_vars(DoIocpJob(t) \/ Subscribe(t))

CompletionFairness ==
  \A s \in Session, k \in IOType :
    SF_vars(/\ mConnected[s] = 0 /\ k # "IO_ACCEPT" /\ ~crashed
            /\ \E t \in IOThread, ok \in BOOLEAN : GetQueuedCompletionStatus(t, s, k, ok))

FairSpec == Spec /\ WF_vars(AcceptClientSessions) /\ ThreadFairness /\ CompletionFairness

\* The thread whose DisconnectRequest found the session connected is the one
\* that disconnects it: when the socket is on the port the session comes back
\* to the pool from there, the reference of the issue included.
Disconnecting(s) ==
  \E t \in IOThread : ses[t] = s /\ fresh[t] = "IO_DISCONNECT"

DisconnectReturnsSession ==
  \A s \in Session : Disconnecting(s) /\ s \in associated ~> s \in Free

\* "release refcount when added at issuing a session" (Session.cpp:205) is never
\* reached by a session whose socket options fail: AcceptCompletion disconnects
\* it before CreateIoCompletionPort, no completion of DisconnectEx comes, and it
\* is never in the pool again.
SetupFailed(s) ==
  \E t \in IOThread : ses[t] = s /\ kind[t] = "IO_ACCEPT" /\ pc[t] = "disconnect"

FailedSetupIsLost == \A s \in Session : [](SetupFailed(s) => [](s \notin Free))

=============================================================================

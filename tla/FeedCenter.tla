----------------------------- MODULE FeedCenter -----------------------------
(***************************************************************************)
(* FeedCenter of Homework7 on top of SessionLifecycle: the feed thread     *)
(* walks mSessionVector, and for each session that is connected posts a    *)
(* SendFeedDataContext to the completion port; AcceptCompletion subscribes *)
(* a session on an I/O thread.  FeedCenter::mLock is never taken, so both  *)
(* the test of a session that may be on its way back to the pool and the   *)
(* changes of the vector are cut where the other threads can see them.     *)
(*                                                                         *)
(* mSessionVector is its storage and its end.  emplace_back writes the     *)
(* element behind the end and then increments the end; when two threads do *)
(* so at once both write the same place, and the end is incremented twice  *)
(* or (from the old value) once.  UnsubscribeFeed does nothing.            *)
(***************************************************************************)
EXTENDS SessionLifecycle

CONSTANTS MaxSubscriptions,   \* entries of the vector
          MaxFeeds            \* feeds in flight for one session

VARIABLES slots, last,        \* mSessionVector: storage and end
          at,                 \* where emplace_back of an I/O thread wrote
          feedPc, feedIndex, feedSession   \* the feed thread

vectorVars == <<slots, last, at>>
feedVars == <<feedPc, feedIndex, feedSession>>

FeedInit ==
  /\ Init
  /\ slots = [i \in 1 .. MaxSubscriptions |-> None] /\ last = 0
  /\ at = [t \in IOThread |-> 0]
  /\ feedPc = "sleep" /\ feedIndex = 0 /\ feedSession = None

\* SubscribeFeed: the two halves of emplace_back.
SubscribeConstruct(t) ==
  /\ pc[t] = "subscribe" /\ at[t] = 0 /\ last < MaxSubscriptions
  /\ slots' = [slots EXCEPT ![last + 1] = ses[t]]
  /\ at' = [at EXCEPT ![t] = last + 1]
  /\ UNCHANGED <<vars, last, feedVars>>

SubscribeEnd(t) ==
  /\ at[t] # 0 /\ Subscribe(t)
  /\ last' \in {at[t], last + 1} /\ last' <= MaxSubscriptions
  /\ at' = [at EXCEPT ![t] = 0]
  /\ UNCHANGED <<slots, feedVars>>

\* FeedGenerationThread: a pass over the vector, from its last element.
FeedBegin ==
  /\ feedPc = "sleep"
  /\ feedPc' = "visit" /\ feedIndex' = last
  /\ UNCHANGED <<vars, vectorVars, feedSession>>

FeedEnd ==
  /\ feedPc = "visit"
  /\ feedIndex > 0 => slots[feedIndex] = None
  /\ feedPc' = "sleep" /\ feedIndex' = 0
  /\ UNCHANGED <<vars, vectorVars, feedSession>>

\* ses->IsConnected() is true.
FeedVisit ==
  /\ feedPc = "visit" /\ feedIndex > 0 /\ slots[feedIndex] # None
  /\ mConnected[slots[feedIndex]] = 1
  /\ pending[slots[feedIndex]]["CK_DB_RESULT"] < MaxFeeds
  /\ feedPc' = "create" /\ feedSession' = slots[feedIndex]
  /\ UNCHANGED <<vars, vectorVars, feedIndex>>

\* ses->IsConnected() is false: the element is erased.
FeedErase ==
  /\ feedPc = "visit" /\ feedIndex > 0 /\ slots[feedIndex] # None
  /\ mConnected[slots[feedIndex]] = 0
  /\ slots' = [i \in 1 .. MaxSubscriptions |->
                 IF i >= feedIndex /\ i < last THEN slots[i + 1] ELSE slots[i]]
  /\ last' = last - 1
  /\ feedIndex' = feedIndex - 1
  /\ UNCHANGED <<vars, at, feedPc, feedSession>>

\* SendFeedOnce: the constructor of the context takes a reference ...
FeedCreate ==
  /\ feedPc = "create"
  /\ mRefCount' = [mRefCount EXCEPT ![feedSession] = @ + 1]
  /\ crashed' = ~(mRefCount[feedSession] + 1 > 0)
  /\ feedPc' = "post"
  /\ UNCHANGED <<mConnected, mSendBufferLock, pending, poolVars, main, threadVars, issued, associated>>
  /\ UNCHANGED <<vectorVars, feedIndex, feedSession>>

\* ... and the context goes to the completion port, or is lost with it.
FeedPost(ok) ==
  /\ feedPc = "post"
  /\ ok \/ "PostQueuedCompletionStatus" \in Fails
  /\ pending' = IF ok THEN [pending EXCEPT ![feedSession]["CK_DB_RESULT"] = @ + 1] ELSE pending
  /\ feedPc' = "visit" /\ feedIndex' = feedIndex - 1 /\ feedSession' = None
  /\ UNCHANGED <<mConnected, mRefCount, mSendBufferLock, poolVars, main, threadVars,
                 crashed, issued, associated, vectorVars>>

FeedGenerationThread ==
  \/ FeedBegin \/ FeedEnd \/ FeedVisit \/ FeedErase \/ FeedCreate
  \/ \E ok \in BOOLEAN : FeedPost(ok)

FeedNext ==
  /\ ~crashed
  /\ \/ /\ AcceptClientSessions \/ \E t \in IOThread : DoIocpJob(t) \/ Completion(t)
        /\ UNCHANGED <<vectorVars, feedVars>>
     \/ \E t \in IOThread : SubscribeConstruct(t) \/ SubscribeEnd(t)
     \/ FeedGenerationThread

FeedSpec == FeedInit /\ [][FeedNext]_<<vars, vectorVars, feedVars>>

-----------------------------------------------------------------------------
\* The assertion of ReturnClientSession, as the thread that released the last
\* reference meets it: CRASH_ASSERT(client->mConnected == 0 && client->mRefCount == 0).
ReturnAssertionHolds ==
  \A t \in IOThread :
    pc[t] = "return" /\ mLock = None => mConnected[ses[t]] = 0 /\ mRefCount[ses[t]] = 0

\* "broadcasts the feed to each session that is connected": once its accept
\* has been handled, a connected session is in the vector.
BroadcastComplete ==
  \A s \in Session :
    mConnected[s] = 1 /\ (\A t \in IOThread : ses[t] = s => kind[t] # "IO_ACCEPT")
      => \E i \in 1 .. last : slots[i] = s

=============================================================================

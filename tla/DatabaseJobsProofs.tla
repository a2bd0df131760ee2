------------------------- MODULE DatabaseJobsProofs -------------------------
(***************************************************************************)
(* Homework6: one send of a session at a time; until FlushSend revives a   *)
(* session, the references, the pool and the rows of the database; and the *)
(* types; for any number of sessions, I/O threads and database threads,    *)
(* any buffer size and any set of Winsock calls that may fail.             *)
(*                                                                         *)
(* FlushSend tests mSendPendingCount and increments it after WSASend, both *)
(* under mSendBufferLock.  SendInv says what a thread between the two      *)
(* holds; a step of one thread leaves what it says of the others alone.    *)
(***************************************************************************)
EXTENDS DatabaseJobs, SessionLifecycleProofs

-----------------------------------------------------------------------------
(* The frame of a step.                                                    *)

\* A step of thread t: the other threads keep where they are, their lists and
\* the send locks they hold.
StepOf(t) ==
  \A u \in IOThread \ {t} :
    /\ pc'[u] = pc[u] /\ ses'[u] = ses[u] /\ kind'[u] = kind[u]
    /\ fresh'[u] = fresh[u] /\ back'[u] = back[u]
    /\ LSendRequestSessionList'[u] = LSendRequestSessionList[u]
    /\ \A r \in Session : mSendBufferLock'[r] = u <=> mSendBufferLock[r] = u

\* What t and the contexts in flight contribute to the sends of r.
SendsOf(t, r) == pending[r]["IO_SEND"] + Bit(t, Sent(r))

LEMMA SentStep ==
  ASSUME NEW t \in IOThread, StepOf(t), NEW r \in Session
  PROVE  SameBut(t, Sent(r), Sent(r)')
<1>1. \A u \in IOThread : u # t => (u \in Sent(r) <=> u \in Sent(r)')
  BY DEF StepOf, Sent
<1>2. Sent(r) \subseteq IOThread /\ Sent(r)' \subseteq IOThread
  BY DEF Sent
<1> QED
  BY <1>1, <1>2, CountStep

\* The invariant is kept when t keeps its part of it and changes the count of a
\* session, if at all, while no other thread holds the lock of it, by at least
\* what it changes the sends.
LEMMA SendFrame ==
  ASSUME SendInv, NEW t \in IOThread, StepOf(t), SendingTypeOK', SendThreadOK(t)',
         \A r \in Session :
           /\ mSendPendingCount'[r] <= 1
           /\ \/ mSendPendingCount'[r] = mSendPendingCount[r]
              \/ mSendBufferLock[r] \in {t, None}
           /\ SendsOf(t, r)' - mSendPendingCount'[r] <= SendsOf(t, r) - mSendPendingCount[r]
  PROVE  SendInv'
<1>1. ASSUME NEW u \in IOThread PROVE SendThreadOK(u)'
  <2>1. CASE u = t
    BY <2>1
  <2>2. CASE u # t
    <3>1. SendThreadOK(u) /\ ses[u] \in Session \union {None}
      BY DEF SendInv, SendingTypeOK
    <3>2. /\ pc'[u] = pc[u] /\ ses'[u] = ses[u] /\ kind'[u] = kind[u]
          /\ fresh'[u] = fresh[u] /\ back'[u] = back[u]
          /\ LSendRequestSessionList'[u] = LSendRequestSessionList[u]
          /\ \A r \in Session : mSendBufferLock'[r] = u <=> mSendBufferLock[r] = u
      BY <2>2 DEF StepOf
    <3>3. pc[u] # "idle" => ses[u] \in Session
      BY <3>1 DEF SendThreadOK
    <3>4. /\ Returning(u) => pc[u] # "idle"
          /\ fresh[u] = "IO_SEND" => pc[u] # "idle"
      BY <3>1 DEF SendThreadOK, Returning, Creating
    <3>5. ASSUME fresh[u] = "IO_SEND" PROVE mSendPendingCount'[ses[u]] = 0
      <4>1. ses[u] \in Session /\ mSendBufferLock[ses[u]] = u /\ mSendPendingCount[ses[u]] = 0
        BY <3>1, <3>3, <3>4, <3>5 DEF SendThreadOK
      <4>2. mSendBufferLock[ses[u]] \notin {t, None}
        BY <4>1, <2>2, ThreadAssumption
      <4> QED
        BY <4>1, <4>2
    <3>6. Returning(u)' <=> Returning(u)
      BY <3>2 DEF Returning
    <3>7. /\ pc'[u] = "idle" <=> ses'[u] = None
          /\ pc'[u] = "sent" => kind'[u] = "IO_SEND"
          /\ kind'[u] = "flush" => LSendRequestSessionList'[u] # << >>
          /\ fresh'[u] # "none" <=> pc'[u] \in Creating
      BY <3>1, <3>2 DEF SendThreadOK
    <3>8. Returning(u)' => back'[u] # "none" /\ (back'[u] = "unlock" => mSendBufferLock'[ses'[u]] = u)
      BY <3>1, <3>2, <3>3, <3>4, <3>6 DEF SendThreadOK
    <3>9. pc'[u] = "unlock" \/ fresh'[u] = "IO_SEND" => mSendBufferLock'[ses'[u]] = u
      BY <3>1, <3>2, <3>3, <3>4 DEF SendThreadOK
    <3> QED
      BY <3>2, <3>5, <3>7, <3>8, <3>9 DEF SendThreadOK
  <2> QED
    BY <2>1, <2>2
<1>2. ASSUME NEW r \in Session
      PROVE  Uncompleted(r)' <= mSendPendingCount'[r] /\ mSendPendingCount'[r] <= 1
  <2>1. /\ Uncompleted(r) <= mSendPendingCount[r]
        /\ SendsOf(t, r)' - mSendPendingCount'[r] <= SendsOf(t, r) - mSendPendingCount[r]
    BY DEF SendInv
  <2>2. SameBut(t, Sent(r), Sent(r)')
    BY SentStep
  <2>3. /\ pending[r]["IO_SEND"] \in Nat /\ pending'[r]["IO_SEND"] \in Nat
        /\ mSendPendingCount[r] \in Nat /\ mSendPendingCount'[r] \in Nat
    <3>1. /\ pending \in [Session -> [IOType -> Nat]] /\ mSendPendingCount \in [Session -> Nat]
          /\ pending' \in [Session -> [IOType -> Nat]] /\ mSendPendingCount' \in [Session -> Nat]
      BY DEF SendInv, SendingTypeOK
    <3>2. "IO_SEND" \in IOType
      BY DEF IOType
    <3> QED
      BY <3>1, <3>2
  <2>4. /\ Bit(t, Sent(r)) \in {0, 1} /\ Bit(t, Sent(r)') \in {0, 1}
        /\ Cardinality(Sent(r)) \in Nat /\ Cardinality(Sent(r)') \in Nat
        /\ Cardinality(Sent(r)') = Cardinality(Sent(r)) - Bit(t, Sent(r)) + Bit(t, Sent(r)')
    BY <2>2, BitType DEF SameBut
  <2>5. /\ Uncompleted(r)' = pending'[r]["IO_SEND"] + Cardinality(Sent(r)')
        /\ Uncompleted(r) = pending[r]["IO_SEND"] + Cardinality(Sent(r))
        /\ SendsOf(t, r)' = pending'[r]["IO_SEND"] + Bit(t, Sent(r)')
        /\ SendsOf(t, r) = pending[r]["IO_SEND"] + Bit(t, Sent(r))
    BY DEF Uncompleted, SendsOf, Bit
  <2> QED
    BY <2>1, <2>3, <2>4, <2>5
<1> QED
  BY <1>1, <1>2 DEF SendInv

\* The steps that are not about the sends at all.
Quiet == /\ mSendPendingCount' = mSendPendingCount
         /\ \A r \in Session : pending'[r]["IO_SEND"] = pending[r]["IO_SEND"]

LEMMA QuietSend ==
  ASSUME SendInv, NEW t \in IOThread, StepOf(t), Quiet, SendingTypeOK', SendThreadOK(t)',
         pc'[t] # "sent"
  PROVE  SendInv'
<1>1. ASSUME NEW r \in Session
      PROVE  /\ mSendPendingCount'[r] = mSendPendingCount[r] /\ mSendPendingCount[r] <= 1
             /\ SendsOf(t, r)' <= SendsOf(t, r)
             /\ SendsOf(t, r)' \in Nat /\ SendsOf(t, r) \in Nat /\ mSendPendingCount[r] \in Nat
  <2>1. mSendPendingCount'[r] = mSendPendingCount[r] /\ mSendPendingCount[r] <= 1
    BY DEF SendInv, Quiet
  <2>2. t \notin Sent(r)'
    BY DEF Sent
  <2>3. Bit(t, Sent(r)') = 0 /\ Bit(t, Sent(r)) \in {0, 1}
    BY <2>2, BitType DEF Bit
  <2>4. pending[r]["IO_SEND"] \in Nat /\ pending'[r]["IO_SEND"] = pending[r]["IO_SEND"]
    BY DEF SendInv, SendingTypeOK, IOType, Quiet
  <2>5. /\ SendsOf(t, r)' = pending'[r]["IO_SEND"] + Bit(t, Sent(r)')
        /\ SendsOf(t, r) = pending[r]["IO_SEND"] + Bit(t, Sent(r))
    BY DEF SendsOf, Bit
  <2>6. mSendPendingCount[r] \in Nat
    BY DEF SendInv, SendingTypeOK
  <2> QED
    BY <2>1, <2>3, <2>4, <2>5, <2>6
<1>2. \A r \in Session :
           /\ mSendPendingCount'[r] <= 1
           /\ mSendPendingCount'[r] = mSendPendingCount[r]
           /\ SendsOf(t, r)' - mSendPendingCount'[r] <= SendsOf(t, r) - mSendPendingCount[r]
  BY <1>1
<1> QED
  BY <1>2, SendFrame

\* Nor the steps of the main thread and of the database threads, which no I/O
\* thread takes.
LEMMA ForeignSend ==
  ASSUME SendInv, Quiet, SendingTypeOK',
         UNCHANGED <<pc, ses, kind, fresh, back, mSendBufferLock, LSendRequestSessionList>>
  PROVE  SendInv'
<1>1. \A u \in IOThread : SendThreadOK(u)'
  BY DEF SendInv, SendThreadOK, Returning, Quiet
<1>2. ASSUME NEW r \in Session
      PROVE  Uncompleted(r)' = Uncompleted(r) /\ mSendPendingCount'[r] = mSendPendingCount[r]
  BY DEF Uncompleted, Sent, Quiet
<1> QED
  BY <1>1, <1>2 DEF SendInv

\* A thread that has a context has a session.
LEMMA HasSession ==
  ASSUME SendInv, NEW t \in IOThread, pc[t] # "idle"
  PROVE  ses[t] \in Session
BY DEF SendInv, SendingTypeOK, SendThreadOK

-----------------------------------------------------------------------------
(* The steps that move a thread on and leave its context and the locks.    *)

\* Thread t goes to another label, perhaps with a fresh context.
MovesOn(t) ==
  /\ UNCHANGED <<ses, kind, back, mSendBufferLock, pending, mSendPendingCount,
                 LSendRequestSessionList>>
  /\ \A u \in IOThread \ {t} : pc'[u] = pc[u] /\ fresh'[u] = fresh[u]
  /\ pc' \in [IOThread -> Label]
  /\ fresh' \in [IOThread -> RecvTypes \union {"none", "IO_SEND", "IO_DISCONNECT"}]
  /\ packets' \in [IOThread -> Nat]
  /\ pc[t] # "idle" /\ pc'[t] \notin {"idle", "sent", "return"}
  /\ pc'[t] = "reset" => pc[t] = "return"

LEMMA MoveSend ==
  ASSUME SendInv, NEW t \in IOThread, MovesOn(t),
         fresh'[t] # "none" <=> pc'[t] \in Creating,
         fresh'[t] = "IO_SEND" => fresh[t] = "IO_SEND",
         pc'[t] = "unlock" => mSendBufferLock[ses[t]] = t
  PROVE  SendInv'
<1>1. StepOf(t) /\ Quiet
  BY DEF MovesOn, StepOf, Quiet
<1>2. SendingTypeOK'
  BY DEF SendInv, SendingTypeOK, MovesOn
<1>3. /\ SendThreadOK(t) /\ ses'[t] = ses[t] /\ kind'[t] = kind[t] /\ back'[t] = back[t]
      /\ mSendBufferLock' = mSendBufferLock /\ mSendPendingCount' = mSendPendingCount
      /\ LSendRequestSessionList' = LSendRequestSessionList
      /\ pc[t] # "idle" /\ pc'[t] # "idle" /\ pc'[t] # "sent" /\ pc'[t] # "return"
      /\ pc'[t] = "reset" => pc[t] = "return"
  BY DEF SendInv, MovesOn
<1>4. Returning(t)' => Returning(t)
  BY <1>3 DEF Returning
<1>5. SendThreadOK(t)'
  BY <1>3, <1>4 DEF SendThreadOK
<1> QED
  BY <1>1, <1>2, <1>3, <1>5, QuietSend

\* Where the helpers of the handlers go.
LEMMA GoesOn ==
  ASSUME SendInv, NEW t \in IOThread
  PROVE  /\ AfterRefusedRecv(t) \in {"subscribe", "disconnect"}
         /\ AfterSend(t) \in {"parse", "prerecv", "finish"}
         /\ AfterDisconnect(t) \in {"unlock", "parse", "finish"}
         /\ AfterDisconnect(t) = "unlock" => mSendBufferLock[ses[t]] = t
         /\ fresh[t] \in RecvTypes \union {"IO_SEND", "IO_DISCONNECT"} =>
              /\ AfterPost(t) \in {"finish", "subscribe", "parse", "unlock"}
              /\ AfterFailedPost(t) \in {"finish", "subscribe", "disconnect", "parse", "unlock"}
              /\ AfterPost(t) = "unlock" => mSendBufferLock[ses[t]] = t
              /\ AfterFailedPost(t) = "unlock" => mSendBufferLock[ses[t]] = t
<1>1. packets[t] \in Nat /\ kind[t] \in IOType \union {"none", "flush"} /\ SendThreadOK(t)
  BY DEF SendInv, SendingTypeOK
<1>2. AfterRefusedRecv(t) \in {"subscribe", "disconnect"}
  BY DEF AfterRefusedRecv
<1>3. AfterSend(t) \in {"parse", "prerecv", "finish"}
  BY <1>1 DEF AfterSend
<1>4. /\ AfterDisconnect(t) \in {"unlock", "parse", "finish"}
      /\ AfterDisconnect(t) = "unlock" => mSendBufferLock[ses[t]] = t
  BY <1>1 DEF AfterDisconnect
<1>5. ASSUME fresh[t] \in RecvTypes \union {"IO_SEND", "IO_DISCONNECT"}
      PROVE  /\ AfterPost(t) \in {"finish", "subscribe", "parse", "unlock"}
             /\ AfterPost(t) = "unlock" => mSendBufferLock[ses[t]] = t
  BY <1>1, <1>4, <1>5 DEF AfterPost, SendThreadOK, RecvTypes
<1>6. ASSUME fresh[t] \in RecvTypes \union {"IO_SEND", "IO_DISCONNECT"}
      PROVE  /\ AfterFailedPost(t) \in {"finish", "subscribe", "disconnect", "parse", "unlock"}
             /\ AfterFailedPost(t) = "unlock" => mSendBufferLock[ses[t]] = t
  BY <1>1, <1>2, <1>4, <1>6 DEF AfterFailedPost, RecvTypes
<1> QED
  BY <1>2, <1>3, <1>4, <1>5, <1>6

\* The steps of SameAsHomework7 that neither call WSASend nor release anything.
LEMMA HandlerMoves ==
  ASSUME SendInv, NEW t \in IOThread, UNCHANGED sendVars,
         \/ AcceptCompletion(t) \/ NewContext(t)
         \/ \E ok \in BOOLEAN : AcceptSetup(t, ok)
         \/ IssueFails(t) \/ ParseEnd(t)
         \/ kind[t] = "IO_RECV" /\ BeginSend(t, FALSE)
  PROVE  SendInv'
<1>1. /\ pc \in [IOThread -> Label] /\ packets \in [IOThread -> Nat]
      /\ fresh \in [IOThread -> RecvTypes \union {"none", "IO_SEND", "IO_DISCONNECT"}]
      /\ fresh[t] # "none" <=> pc[t] \in Creating
  BY DEF SendInv, SendingTypeOK, SendThreadOK
<1>2. /\ mSendPendingCount' = mSendPendingCount
      /\ LSendRequestSessionList' = LSendRequestSessionList
  BY DEF sendVars
<1>3. ASSUME NEW l \in Label \ {"idle", "sent", "return", "reset", "unlock"}, pc[t] # "idle",
             pc[t] \in Creating <=> l \in Creating, Goto(t, l),
             UNCHANGED <<ses, kind, back, mSendBufferLock, pending, fresh>>,
             packets' \in [IOThread -> Nat]
      PROVE  SendInv'
  <2>1. pc' \in [IOThread -> Label] /\ pc'[t] = l /\ \A u \in IOThread \ {t} : pc'[u] = pc[u]
    BY <1>1, <1>3 DEF Goto
  <2>2. MovesOn(t)
    BY <1>1, <1>2, <1>3, <2>1 DEF MovesOn
  <2>3. fresh' = fresh /\ pc'[t] # "unlock" /\ (fresh'[t] # "none" <=> pc'[t] \in Creating)
    BY <1>1, <1>3, <2>1
  <2> QED
    BY <2>2, <2>3, MoveSend
<1>4. CASE AcceptCompletion(t)
  BY <1>1, <1>3, <1>4 DEF AcceptCompletion, Local, Label, Creating
<1>5. CASE NewContext(t)
  BY <1>1, <1>3, <1>5 DEF NewContext, Local, Label, Creating
<1>6. CASE IssueFails(t)
  BY <1>1, <1>3, <1>6 DEF IssueFails, Local, Label, Creating, sessionVars
<1>7. ASSUME NEW ok \in BOOLEAN, AcceptSetup(t, ok) PROVE SendInv'
  <2>1. Goto(t, IF ok THEN "prerecv" ELSE "disconnect") /\ pc[t] = "setup"
    BY <1>7 DEF AcceptSetup
  <2> QED
    BY <1>1, <1>3, <1>7, <2>1 DEF AcceptSetup, Local, Label, Creating, sessionVars
<1>8. CASE ParseEnd(t)
  <2>1. packets' = [packets EXCEPT ![t] = 0]
    BY <1>8 DEF ParseEnd
  <2>2. packets' \in [IOThread -> Nat]
    BY <1>1, <2>1
  <2> QED
    BY <1>1, <1>3, <1>8, <2>2 DEF ParseEnd, Label, Creating, sessionVars
<1>9. CASE kind[t] = "IO_RECV" /\ BeginSend(t, FALSE)
  <2>1. PICK l \in {"lock", "parse", "prerecv", "finish"} : Goto(t, l)
    BY <1>9, GoesOn DEF BeginSend
  <2>2. l \in Label \ {"idle", "sent", "return", "reset", "unlock"} /\ l \notin Creating
    BY DEF Label, Creating
  <2> QED
    BY <1>1, <1>3, <1>9, <2>1, <2>2 DEF BeginSend, Local, Creating, sessionVars
<1> QED
  BY <1>4, <1>5, <1>6, <1>7, <1>8, <1>9
\* The steps that may create a context for a receive or a disconnection, or go
\* on without.
LEMMA CreatingMoves ==
  ASSUME SendInv, NEW t \in IOThread, UNCHANGED sendVars,
         \/ PreRecv(t)
         \/ \E full \in BOOLEAN : PostRecv(t, full)
         \/ DisconnectRequest(t)
  PROVE  SendInv'
<1>1. /\ pc \in [IOThread -> Label] /\ packets \in [IOThread -> Nat]
      /\ fresh \in [IOThread -> RecvTypes \union {"none", "IO_SEND", "IO_DISCONNECT"}]
      /\ fresh[t] # "none" <=> pc[t] \in Creating
  BY DEF SendInv, SendingTypeOK, SendThreadOK
<1>2. /\ mSendPendingCount' = mSendPendingCount
      /\ LSendRequestSessionList' = LSendRequestSessionList
  BY DEF sendVars
<1>3. ASSUME NEW k \in RecvTypes \union {"IO_DISCONNECT"}, NEW test,
             NEW l \in {"subscribe", "disconnect", "unlock", "parse", "finish"},
             pc[t] \in {"prerecv", "postrecv", "disconnect"},
             l = "unlock" => mSendBufferLock[ses[t]] = t,
             CreateIf(t, test, k, l),
             UNCHANGED <<ses, kind, back, mSendBufferLock, pending, packets>>
      PROVE  SendInv'
  <2>1. pc[t] \notin Creating /\ fresh[t] = "none"
    BY <1>1, <1>3 DEF Creating
  <2>2. /\ pc' = [pc EXCEPT ![t] = IF test THEN "create" ELSE l]
        /\ fresh' = IF test THEN [fresh EXCEPT ![t] = k] ELSE fresh
    BY <1>3 DEF CreateIf, Goto
  <2>3. /\ pc'[t] \in {"create", l} /\ k # "none" /\ k # "IO_SEND"
        /\ fresh'[t] = IF pc'[t] = "create" THEN k ELSE "none"
        /\ \A u \in IOThread \ {t} : pc'[u] = pc[u] /\ fresh'[u] = fresh[u]
    BY <1>1, <1>3, <2>1, <2>2 DEF RecvTypes
  <2>4. pc' \in [IOThread -> Label]
    BY <1>1, <1>3, <2>2 DEF Label
  <2>5. fresh' \in [IOThread -> RecvTypes \union {"none", "IO_SEND", "IO_DISCONNECT"}]
    BY <1>1, <2>2
  <2>6. MovesOn(t)
    BY <1>1, <1>2, <1>3, <2>3, <2>4, <2>5 DEF MovesOn
  <2>7. /\ fresh'[t] # "none" <=> pc'[t] \in Creating
        /\ fresh'[t] # "IO_SEND"
        /\ pc'[t] = "unlock" => mSendBufferLock[ses[t]] = t
    BY <1>3, <2>3 DEF Creating
  <2> QED
    BY <2>6, <2>7, MoveSend
<1>4. CASE PreRecv(t)
  <2>1. CreateIf(t, mConnected[ses[t]] = 1, "IO_RECV_ZERO", AfterRefusedRecv(t))
    BY <1>4 DEF PreRecv
  <2>2. pc[t] = "prerecv" /\ UNCHANGED <<ses, kind, back, mSendBufferLock, pending, packets>>
    BY <1>4 DEF PreRecv, Local, sessionVars
  <2>3. AfterRefusedRecv(t) \in {"subscribe", "disconnect"} /\ "IO_RECV_ZERO" \in RecvTypes
    BY GoesOn DEF RecvTypes
  <2> QED
    BY <1>3, <2>1, <2>2, <2>3
<1>5. ASSUME NEW full \in BOOLEAN, PostRecv(t, full) PROVE SendInv'
  <2>1. CreateIf(t, mConnected[ses[t]] = 1 /\ ~full, "IO_RECV", AfterRefusedRecv(t))
    BY <1>5 DEF PostRecv
  <2>2. pc[t] = "postrecv" /\ UNCHANGED <<ses, kind, back, mSendBufferLock, pending, packets>>
    BY <1>5 DEF PostRecv, Local, sessionVars
  <2>3. AfterRefusedRecv(t) \in {"subscribe", "disconnect"} /\ "IO_RECV" \in RecvTypes
    BY GoesOn DEF RecvTypes
  <2> QED
    BY <1>3, <2>1, <2>2, <2>3
<1>6. CASE DisconnectRequest(t)
  <2>1. CreateIf(t, mConnected[ses[t]] = 1, "IO_DISCONNECT", AfterDisconnect(t))
    BY <1>6 DEF DisconnectRequest
  <2>2. pc[t] = "disconnect" /\ UNCHANGED <<ses, kind, back, mSendBufferLock, pending, packets>>
    BY <1>6 DEF DisconnectRequest, Local
  <2>3. /\ AfterDisconnect(t) \in {"unlock", "parse", "finish"}
        /\ AfterDisconnect(t) = "unlock" => mSendBufferLock[ses[t]] = t
    BY GoesOn
  <2> QED
    BY <1>3, <2>1, <2>2, <2>3
<1> QED
  BY <1>4, <1>5, <1>6

\* The steps of the pipeline that end a handler: the request of the row, and
\* the row itself.
LEMMA JobMoves ==
  ASSUME SendInv, NEW t \in IOThread, NEW n, NEW ok, PostRequest(t, n, ok) \/ OnLoadResult(t)
  PROVE  SendInv'
<1>1. /\ pc \in [IOThread -> Label] /\ packets \in [IOThread -> Nat]
      /\ fresh \in [IOThread -> RecvTypes \union {"none", "IO_SEND", "IO_DISCONNECT"}]
      /\ fresh[t] # "none" <=> pc[t] \in Creating
  BY DEF SendInv, SendingTypeOK, SendThreadOK
<1>2. /\ pc[t] \in {"subscribe", "send"} /\ pc' = [pc EXCEPT ![t] = "finish"]
      /\ UNCHANGED <<ses, kind, back, mSendBufferLock, pending, fresh, packets,
                     mSendPendingCount, LSendRequestSessionList>>
  BY DEF PostRequest, OnLoadResult, Goto, Local, sendVars, sessionVars
<1>3. /\ pc'[t] = "finish" /\ \A u \in IOThread \ {t} : pc'[u] = pc[u]
      /\ pc' \in [IOThread -> Label]
  BY <1>1, <1>2 DEF Label
<1>4. MovesOn(t)
  BY <1>1, <1>2, <1>3 DEF MovesOn
<1>5. fresh'[t] = "none" /\ pc'[t] \notin Creating /\ pc'[t] # "unlock"
  BY <1>1, <1>2, <1>3 DEF Creating
<1> QED
  BY <1>4, <1>5, MoveSend

-----------------------------------------------------------------------------
(* The steps that change the context, the locks or the contexts in flight. *)

\* WSARecv or DisconnectEx accepts the context.
LEMMA IssueOther ==
  ASSUME SendInv, NEW t \in IOThread, UNCHANGED sendVars, fresh[t] # "IO_SEND", IssueOk(t)
  PROVE  SendInv'
<1>1. SendingTypeOK /\ SendThreadOK(t)
  BY DEF SendInv
<1>2. ses[t] \in Session /\ fresh[t] \in RecvTypes \union {"IO_DISCONNECT"}
  BY <1>1, HasSession DEF IssueOk, SendingTypeOK, SendThreadOK, Creating
<1>3. PICK l \in {"finish", "subscribe", "parse", "unlock"} :
        l = AfterPost(t) /\ (l = "unlock" => mSendBufferLock[ses[t]] = t)
  BY <1>2, GoesOn
<1>4. /\ pc' = [pc EXCEPT ![t] = l] /\ fresh' = [fresh EXCEPT ![t] = "none"]
      /\ pending' = [pending EXCEPT ![ses[t]][fresh[t]] = @ + 1]
      /\ UNCHANGED <<ses, kind, back, mSendBufferLock, packets,
                     mSendPendingCount, LSendRequestSessionList>>
  BY <1>3 DEF IssueOk, Goto, Local, sendVars
<1>5. /\ pc'[t] = l /\ fresh'[t] = "none"
      /\ \A u \in IOThread \ {t} : pc'[u] = pc[u] /\ fresh'[u] = fresh[u]
  BY <1>1, <1>4 DEF SendingTypeOK
<1>6. pending' \in [Session -> [IOType -> Nat]]
  <2>1. pending \in [Session -> [IOType -> Nat]] /\ fresh[t] \in IOType
    BY <1>1, <1>2 DEF SendingTypeOK, IOType, RecvTypes
  <2> QED
    BY <1>2, <1>4, <2>1
<1>7. \A r \in Session : pending'[r]["IO_SEND"] = pending[r]["IO_SEND"]
  BY <1>1, <1>2, <1>4 DEF SendingTypeOK, IOType, RecvTypes
<1>8. SendingTypeOK'
  <2>1. pc' \in [IOThread -> Label]
    BY <1>1, <1>4 DEF SendingTypeOK, Label
  <2>2. fresh' \in [IOThread -> RecvTypes \union {"none", "IO_SEND", "IO_DISCONNECT"}]
    BY <1>1, <1>4 DEF SendingTypeOK
  <2> QED
    BY <1>1, <1>4, <1>6, <2>1, <2>2 DEF SendingTypeOK
<1>9. StepOf(t) /\ Quiet
  BY <1>4, <1>5, <1>7 DEF StepOf, Quiet
<1>10. SendThreadOK(t)'
  BY <1>1, <1>2, <1>3, <1>4, <1>5, SessionAssumption DEF SendThreadOK, Returning, Creating
<1> QED
  BY <1>5, <1>8, <1>9, <1>10, QuietSend
\* A thread goes on at a label, and has no context any more when it is "idle".
LEMMA ResumeTypes ==
  ASSUME SendInv, NEW t \in IOThread, NEW l \in Label, Resume(t, l)
  PROVE  /\ pc' \in [IOThread -> Label]
         /\ ses' \in [IOThread -> Session \union {None}]
         /\ kind' \in [IOThread -> IOType \union {"none", "flush"}]
         /\ pc'[t] = l
         /\ ses'[t] = IF l = "idle" THEN None ELSE ses[t]
         /\ kind'[t] = IF l = "idle" THEN "none" ELSE kind[t]
         /\ \A u \in IOThread \ {t} : pc'[u] = pc[u] /\ ses'[u] = ses[u] /\ kind'[u] = kind[u]
<1>1. /\ pc \in [IOThread -> Label]
      /\ ses \in [IOThread -> Session \union {None}]
      /\ kind \in [IOThread -> IOType \union {"none", "flush"}]
  BY DEF SendInv, SendingTypeOK
<1>2. /\ pc' = [pc EXCEPT ![t] = l]
      /\ ses' = IF l = "idle" THEN [ses EXCEPT ![t] = None] ELSE ses
      /\ kind' = IF l = "idle" THEN [kind EXCEPT ![t] = "none"] ELSE kind
  BY DEF Resume, Goto
<1> QED
  BY <1>1, <1>2

LEMMA ReleaseSend ==
  ASSUME SendInv, NEW t \in IOThread, UNCHANGED sendVars, ReleaseRef(t)
  PROVE  SendInv'
<1>1. SendingTypeOK /\ SendThreadOK(t) /\ pc[t] \in {"undo", "disconnected", "finish"}
  BY DEF SendInv, ReleaseRef
<1>2. ses[t] \in Session
  BY <1>1, HasSession
<1>3. PICK l \in {"idle", "subscribe", "disconnect", "finish", "parse", "unlock"} :
        l = AfterRelease(t) /\ (l = "unlock" => mSendBufferLock[ses[t]] = t)
  <2>1. pc[t] = "undo" => fresh[t] \in RecvTypes \union {"IO_SEND", "IO_DISCONNECT"}
    BY <1>1 DEF SendThreadOK, SendingTypeOK, Creating
  <2> QED
    BY <1>1, <2>1, GoesOn DEF AfterRelease
<1>4. /\ fresh' = [fresh EXCEPT ![t] = "none"]
      /\ UNCHANGED <<pending, mSendBufferLock, packets, mSendPendingCount, LSendRequestSessionList>>
      /\ \/ /\ pc' = [pc EXCEPT ![t] = "return"] /\ back' = [back EXCEPT ![t] = l]
            /\ UNCHANGED <<ses, kind>>
         \/ Resume(t, l) /\ back' = back
  BY <1>3 DEF ReleaseRef, Goto, sendVars
<1>5. /\ fresh'[t] = "none" /\ \A u \in IOThread \ {t} : fresh'[u] = fresh[u]
      /\ fresh' \in [IOThread -> RecvTypes \union {"none", "IO_SEND", "IO_DISCONNECT"}]
  BY <1>1, <1>4 DEF SendingTypeOK
<1>6. l \in Label /\ l \notin {"sent", "return", "reset"} /\ l \notin Creating
  BY DEF Label, Creating
<1>7. CASE /\ pc' = [pc EXCEPT ![t] = "return"] /\ back' = [back EXCEPT ![t] = l]
           /\ UNCHANGED <<ses, kind>>
  <2>1. /\ pc'[t] = "return" /\ back'[t] = l
        /\ \A u \in IOThread \ {t} : pc'[u] = pc[u] /\ back'[u] = back[u]
    BY <1>1, <1>7 DEF SendingTypeOK
  <2>2. /\ pc' \in [IOThread -> Label]
        /\ back' \in [IOThread -> {"none", "idle", "subscribe", "disconnect", "finish", "parse", "unlock"}]
    BY <1>1, <1>7 DEF SendingTypeOK, Label
  <2>3. SendingTypeOK'
    BY <1>1, <1>4, <1>5, <1>7, <2>2 DEF SendingTypeOK
  <2>4. StepOf(t) /\ Quiet
    BY <1>4, <1>5, <1>7, <2>1 DEF StepOf, Quiet
  <2>5. SendThreadOK(t)'
    BY <1>1, <1>2, <1>3, <1>4, <1>5, <1>7, <2>1, SessionAssumption
    DEF SendThreadOK, Creating
  <2> QED
    BY <2>1, <2>3, <2>4, <2>5, QuietSend
<1>8. CASE Resume(t, l) /\ back' = back
  <2>1. /\ pc' \in [IOThread -> Label]
        /\ ses' \in [IOThread -> Session \union {None}]
        /\ kind' \in [IOThread -> IOType \union {"none", "flush"}]
        /\ pc'[t] = l
        /\ ses'[t] = IF l = "idle" THEN None ELSE ses[t]
        /\ kind'[t] = IF l = "idle" THEN "none" ELSE kind[t]
        /\ \A u \in IOThread \ {t} : pc'[u] = pc[u] /\ ses'[u] = ses[u] /\ kind'[u] = kind[u]
    BY <1>6, <1>8, ResumeTypes
  <2>2. SendingTypeOK'
    BY <1>1, <1>4, <1>5, <1>8, <2>1 DEF SendingTypeOK
  <2>3. StepOf(t) /\ Quiet
    BY <1>4, <1>5, <1>8, <2>1 DEF StepOf, Quiet
  <2>4. SendThreadOK(t)'
    BY <1>1, <1>2, <1>3, <1>4, <1>5, <1>6, <1>8, <2>1, SessionAssumption
    DEF SendThreadOK, Returning
  <2> QED
    BY <1>6, <2>1, <2>2, <2>3, <2>4, QuietSend
<1> QED
  BY <1>4, <1>7, <1>8

LEMMA ReturnSend ==
  ASSUME SendInv, NEW t \in IOThread, UNCHANGED sendVars, ReturnClientSession(t)
  PROVE  SendInv'
<1>1. /\ pc \in [IOThread -> Label] /\ packets \in [IOThread -> Nat]
      /\ fresh \in [IOThread -> RecvTypes \union {"none", "IO_SEND", "IO_DISCONNECT"}]
      /\ fresh[t] # "none" <=> pc[t] \in Creating
  BY DEF SendInv, SendingTypeOK, SendThreadOK
<1>2. /\ pc[t] = "return" /\ pc' = [pc EXCEPT ![t] = "reset"]
      /\ UNCHANGED <<ses, kind, back, mSendBufferLock, pending, fresh, packets,
                     mSendPendingCount, LSendRequestSessionList>>
  BY DEF ReturnClientSession, Goto, sendVars
<1>3. /\ pc'[t] = "reset" /\ \A u \in IOThread \ {t} : pc'[u] = pc[u]
      /\ pc' \in [IOThread -> Label]
  BY <1>1, <1>2 DEF Label
<1>4. MovesOn(t)
  BY <1>1, <1>2, <1>3 DEF MovesOn
<1>5. fresh'[t] = "none" /\ pc'[t] \notin Creating /\ pc'[t] # "unlock"
  BY <1>1, <1>2, <1>3 DEF Creating
<1> QED
  BY <1>4, <1>5, MoveSend

LEMMA ResetSend ==
  ASSUME SendInv, NEW t \in IOThread, ResetWithPlayer(t)
  PROVE  SendInv'
<1>1. SendingTypeOK /\ SendThreadOK(t) /\ pc[t] = "reset"
  BY DEF SendInv, ResetWithPlayer, ResetSends, SessionReset
<1>2. ses[t] \in Session
  BY <1>1, HasSession
<1>3. PICK l \in {"idle", "subscribe", "disconnect", "finish", "parse", "unlock"} :
        l = back[t] /\ (l = "unlock" => mSendBufferLock[ses[t]] = t)
  BY <1>1 DEF SendThreadOK, SendingTypeOK, Returning
<1>4. /\ Resume(t, l) /\ back' = [back EXCEPT ![t] = "none"]
      /\ UNCHANGED <<pending, mSendBufferLock, fresh, packets, mSendPendingCount,
                     LSendRequestSessionList>>
  BY <1>3 DEF ResetWithPlayer, ResetSends, SessionReset, sessionVars
<1>5. l \in Label /\ l \notin {"sent", "return", "reset"} /\ l \notin Creating
  BY DEF Label, Creating
<1>6. /\ back' \in [IOThread -> {"none", "idle", "subscribe", "disconnect", "finish", "parse", "unlock"}]
      /\ \A u \in IOThread \ {t} : back'[u] = back[u]
  BY <1>1, <1>4 DEF SendingTypeOK
<1>7. /\ pc' \in [IOThread -> Label]
      /\ ses' \in [IOThread -> Session \union {None}]
      /\ kind' \in [IOThread -> IOType \union {"none", "flush"}]
      /\ pc'[t] = l
      /\ ses'[t] = IF l = "idle" THEN None ELSE ses[t]
      /\ kind'[t] = IF l = "idle" THEN "none" ELSE kind[t]
      /\ \A u \in IOThread \ {t} : pc'[u] = pc[u] /\ ses'[u] = ses[u] /\ kind'[u] = kind[u]
  BY <1>4, <1>5, ResumeTypes
<1>8. SendingTypeOK'
  BY <1>1, <1>4, <1>6, <1>7 DEF SendingTypeOK
<1>9. StepOf(t) /\ Quiet
  BY <1>4, <1>6, <1>7 DEF StepOf, Quiet
<1>10. SendThreadOK(t)'
  <2>1. pc[t] \notin Creating
    BY <1>1 DEF Creating
  <2> QED
    BY <1>1, <1>2, <1>3, <1>4, <1>5, <1>7, <2>1, SessionAssumption
    DEF SendThreadOK, Returning
<1> QED
  BY <1>5, <1>7, <1>8, <1>9, <1>10, QuietSend
\* A completion is dequeued: a send moves from the kernel to the thread.
LEMMA CompletionSend ==
  ASSUME SendInv, NEW t \in IOThread, NextCompletion(t)
  PROVE  SendInv'
<1>1. PICK s \in Session, k \in IOType, ok \in BOOLEAN : GetQueuedCompletionStatus(t, s, k, ok)
  BY DEF NextCompletion, Completion
<1>2. SendingTypeOK /\ SendThreadOK(t) /\ pc[t] = "idle" /\ pending[s][k] > 0
  BY <1>1 DEF SendInv, GetQueuedCompletionStatus
<1>3. PICK l \in {"disconnect", "accept", "postrecv", "parse", "sent", "disconnected", "send"} :
        /\ pc' = [pc EXCEPT ![t] = l]
        /\ l = "sent" => k = "IO_SEND"
  BY <1>1 DEF GetQueuedCompletionStatus, Goto, IOType
<1>4. /\ pending' = [pending EXCEPT ![s][k] = @ - 1]
      /\ ses' = [ses EXCEPT ![t] = s] /\ kind' = [kind EXCEPT ![t] = k]
      /\ UNCHANGED <<mSendBufferLock, fresh, back>>
      /\ UNCHANGED <<mSendPendingCount, LSendRequestSessionList>>
  BY <1>1 DEF GetQueuedCompletionStatus, NextCompletion, sendVars
<1>5. /\ pc'[t] = l /\ ses'[t] = s /\ kind'[t] = k
      /\ \A u \in IOThread \ {t} : pc'[u] = pc[u] /\ ses'[u] = ses[u] /\ kind'[u] = kind[u]
  BY <1>2, <1>3, <1>4 DEF SendingTypeOK
<1>6. /\ pending' \in [Session -> [IOType -> Nat]]
      /\ \A r \in Session :
           pending'[r]["IO_SEND"] = IF r = s /\ k = "IO_SEND" THEN pending[r]["IO_SEND"] - 1
                                    ELSE pending[r]["IO_SEND"]
  <2>1. pending \in [Session -> [IOType -> Nat]] /\ pending[s][k] - 1 \in Nat
    BY <1>2 DEF SendingTypeOK
  <2> QED
    BY <1>4, <2>1 DEF IOType
<1>7. packets' \in [IOThread -> Nat]
  <2>1. packets' = [packets EXCEPT ![t] = IF ok /\ k = "IO_RECV" THEN MaxPackets + 1 ELSE 0]
    BY <1>1 DEF GetQueuedCompletionStatus
  <2> QED
    BY <1>2, <2>1, BoundAssumption DEF SendingTypeOK
<1>8. SendingTypeOK'
  <2>1. pc' \in [IOThread -> Label]
    BY <1>2, <1>3 DEF SendingTypeOK, Label
  <2> QED
    BY <1>2, <1>4, <1>6, <1>7, <2>1 DEF SendingTypeOK
<1>9. StepOf(t)
  BY <1>4, <1>5 DEF StepOf
<1>10. SendThreadOK(t)'
  <2>1. fresh[t] = "none" /\ l \notin Creating /\ k # "flush" /\ s # None
    BY <1>2, SessionAssumption DEF SendThreadOK, Creating, IOType
  <2> QED
    BY <1>3, <1>4, <1>5, <2>1 DEF SendThreadOK, Returning
<1>11. ASSUME NEW r \in Session
       PROVE  /\ mSendPendingCount'[r] = mSendPendingCount[r] /\ mSendPendingCount[r] <= 1
              /\ mSendPendingCount[r] \in Nat
              /\ SendsOf(t, r)' <= SendsOf(t, r)
              /\ SendsOf(t, r)' \in Int /\ SendsOf(t, r) \in Int
  <2>1. t \notin Sent(r)
    BY <1>2 DEF Sent
  <2>2. t \in Sent(r)' => r = s /\ k = "IO_SEND"
    BY <1>5 DEF Sent
  <2>3. /\ SendsOf(t, r)' = pending'[r]["IO_SEND"] + Bit(t, Sent(r)')
        /\ SendsOf(t, r) = pending[r]["IO_SEND"] + Bit(t, Sent(r))
    BY DEF SendsOf, Bit
  <2>4. Bit(t, Sent(r)) = 0 /\ Bit(t, Sent(r)') \in {0, 1} /\ (Bit(t, Sent(r)') = 1 => t \in Sent(r)')
    BY <2>1, BitType DEF Bit
  <2>5. pending[r]["IO_SEND"] \in Nat
    BY <1>2 DEF SendingTypeOK, IOType
  <2>6. /\ mSendPendingCount'[r] = mSendPendingCount[r] /\ mSendPendingCount[r] <= 1
        /\ mSendPendingCount[r] \in Nat
    BY <1>4 DEF SendInv, SendingTypeOK
  <2> QED
    BY <1>6, <2>2, <2>3, <2>4, <2>5, <2>6
<1>12. \A r \in Session :
           /\ mSendPendingCount'[r] <= 1
           /\ mSendPendingCount'[r] = mSendPendingCount[r]
           /\ SendsOf(t, r)' - mSendPendingCount'[r] <= SendsOf(t, r) - mSendPendingCount[r]
  BY <1>11
<1> QED
  BY <1>8, <1>9, <1>10, <1>12, SendFrame

-----------------------------------------------------------------------------
(* The send path.                                                          *)

LEMMA PostSendStep ==
  ASSUME SendInv, NEW t \in IOThread, NEW full \in BOOLEAN, kind[t] = "IO_RECV", PostSend(t, full)
  PROVE  SendInv'
<1>1. SendingTypeOK /\ SendThreadOK(t) /\ pc[t] = "lock"
  BY DEF SendInv, PostSend
<1>2. ses[t] \in Session
  BY <1>1, HasSession
<1>3. PICK l \in {"parse", "prerecv", "finish"} : l = AfterSend(t)
  BY GoesOn
<1>4. /\ pc' = [pc EXCEPT ![t] = l]
      /\ UNCHANGED <<ses, kind, fresh, back, packets, pending, mSendBufferLock, mSendPendingCount>>
      /\ \/ LSendRequestSessionList' = LSendRequestSessionList
         \/ LSendRequestSessionList' = [LSendRequestSessionList EXCEPT ![t] = Append(@, ses[t])]
  BY <1>3 DEF PostSend, Goto, Local, sessionVars
<1>5. /\ LSendRequestSessionList' \in [IOThread -> Seq(Session)]
      /\ \A u \in IOThread \ {t} : LSendRequestSessionList'[u] = LSendRequestSessionList[u]
  <2>1. LSendRequestSessionList \in [IOThread -> Seq(Session)]
    BY <1>1 DEF SendingTypeOK
  <2>2. Append(LSendRequestSessionList[t], ses[t]) \in Seq(Session)
    BY <1>2, <2>1, AppendProperties
  <2> QED
    BY <1>4, <2>1, <2>2
<1>6. pc'[t] = l /\ \A u \in IOThread \ {t} : pc'[u] = pc[u]
  BY <1>1, <1>4 DEF SendingTypeOK
<1>7. SendingTypeOK'
  <2>1. pc' \in [IOThread -> Label]
    BY <1>1, <1>4 DEF SendingTypeOK, Label
  <2> QED
    BY <1>1, <1>4, <1>5, <2>1 DEF SendingTypeOK
<1>8. StepOf(t) /\ Quiet
  BY <1>4, <1>5, <1>6 DEF StepOf, Quiet
<1>9. SendThreadOK(t)'
  <2>1. kind'[t] # "flush" /\ l \notin Creating /\ fresh[t] = "none"
    BY <1>1, <1>4 DEF Creating, SendThreadOK
  <2> QED
    BY <1>1, <1>2, <1>4, <1>6, <2>1, SessionAssumption DEF SendThreadOK, Returning
<1> QED
  BY <1>6, <1>7, <1>8, <1>9, QuietSend

LEMMA FlushBeginStep ==
  ASSUME SendInv, NEW t \in IOThread, FlushBegin(t)
  PROVE  SendInv'
<1>1. SendingTypeOK /\ SendThreadOK(t) /\ pc[t] = "idle" /\ LSendRequestSessionList[t] # << >>
  BY DEF SendInv, FlushBegin
<1>2. PICK s \in Session, l \in {"lock", "disconnect"} :
        /\ ses' = [ses EXCEPT ![t] = s] /\ pc' = [pc EXCEPT ![t] = l]
  <2>1. Head(LSendRequestSessionList[t]) \in Session
    BY <1>1, HeadTailProperties DEF SendingTypeOK
  <2> QED
    BY <2>1 DEF FlushBegin, Goto
<1>3. /\ kind' = [kind EXCEPT ![t] = "flush"]
      /\ UNCHANGED <<fresh, back, packets, pending, mSendBufferLock, mSendPendingCount,
                     LSendRequestSessionList>>
  BY DEF FlushBegin, sessionVars, sendVars
<1>4. /\ pc'[t] = l /\ ses'[t] = s /\ kind'[t] = "flush"
      /\ \A u \in IOThread \ {t} : pc'[u] = pc[u] /\ ses'[u] = ses[u] /\ kind'[u] = kind[u]
  BY <1>1, <1>2, <1>3 DEF SendingTypeOK
<1>5. SendingTypeOK'
  <2>1. pc' \in [IOThread -> Label]
    BY <1>1, <1>2 DEF SendingTypeOK, Label
  <2> QED
    BY <1>1, <1>2, <1>3, <2>1 DEF SendingTypeOK
<1>6. StepOf(t) /\ Quiet
  BY <1>3, <1>4 DEF StepOf, Quiet
<1>7. SendThreadOK(t)'
  <2>1. fresh[t] = "none" /\ l \notin Creating /\ s # None
    BY <1>1, SessionAssumption DEF SendThreadOK, Creating
  <2> QED
    BY <1>1, <1>3, <1>4, <2>1 DEF SendThreadOK, Returning
<1> QED
  BY <1>4, <1>5, <1>6, <1>7, QuietSend

\* FlushSend returns, with or without the entry of the list.
LEMMA FlushReturnsStep ==
  ASSUME SendInv, NEW t \in IOThread, NEW result \in BOOLEAN, FlushReturns(t, result),
         pc[t] \in {"lock", "unlock", "finish"},
         UNCHANGED <<fresh, back, packets, pending, mSendPendingCount>>,
         \/ mSendBufferLock' = mSendBufferLock
         \/ /\ mSendBufferLock[ses[t]] = t
            /\ mSendBufferLock' = [mSendBufferLock EXCEPT ![ses[t]] = None],
         kind[t] = "flush"
  PROVE  SendInv'
<1>1. SendingTypeOK /\ SendThreadOK(t) /\ LSendRequestSessionList[t] # << >>
  BY DEF SendInv, SendThreadOK
<1>2. ses[t] \in Session
  BY HasSession
<1>3. /\ pc' = [pc EXCEPT ![t] = "idle"] /\ ses' = [ses EXCEPT ![t] = None]
      /\ kind' = [kind EXCEPT ![t] = "none"]
      /\ \/ LSendRequestSessionList' = LSendRequestSessionList
         \/ LSendRequestSessionList' = [LSendRequestSessionList EXCEPT ![t] = Tail(@)]
  BY DEF FlushReturns, Goto
<1>4. /\ pc'[t] = "idle" /\ ses'[t] = None /\ kind'[t] = "none"
      /\ \A u \in IOThread \ {t} : pc'[u] = pc[u] /\ ses'[u] = ses[u] /\ kind'[u] = kind[u]
  BY <1>1, <1>3 DEF SendingTypeOK
<1>5. /\ LSendRequestSessionList' \in [IOThread -> Seq(Session)]
      /\ \A u \in IOThread \ {t} : LSendRequestSessionList'[u] = LSendRequestSessionList[u]
  <2>1. LSendRequestSessionList \in [IOThread -> Seq(Session)]
    BY <1>1 DEF SendingTypeOK
  <2>2. Tail(LSendRequestSessionList[t]) \in Seq(Session)
    BY <1>1, <2>1, HeadTailProperties
  <2> QED
    BY <1>3, <2>1, <2>2
<1>6. /\ mSendBufferLock' \in [Session -> IOThread \union {None}]
      /\ \A u \in IOThread \ {t}, r \in Session : mSendBufferLock'[r] = u <=> mSendBufferLock[r] = u
  BY <1>1, <1>2, ThreadAssumption DEF SendingTypeOK
<1>7. SendingTypeOK'
  <2>1. pc' \in [IOThread -> Label]
    BY <1>1, <1>3 DEF SendingTypeOK, Label
  <2> QED
    BY <1>1, <1>3, <1>5, <1>6, <2>1 DEF SendingTypeOK
<1>8. StepOf(t) /\ Quiet
  BY <1>4, <1>5, <1>6 DEF StepOf, Quiet
<1>9. SendThreadOK(t)'
  <2>1. fresh[t] = "none" /\ "idle" \notin Creating
    BY <1>1 DEF SendThreadOK, Creating
  <2> QED
    BY <1>1, <1>4, <2>1 DEF SendThreadOK, Returning
<1> QED
  BY <1>4, <1>7, <1>8, <1>9, QuietSend
LEMMA FlushLeaves ==
  ASSUME SendInv, NEW t \in IOThread, kind[t] = "flush", FlushWaits(t) \/ FlushEnd(t)
  PROVE  SendInv'
<1>1. CASE FlushWaits(t)
  <2>1. PICK result \in BOOLEAN :
          result = (mSendBuffer[ses[t]] = << >> /\ mSendPendingCount[ses[t]] = 0)
    OBVIOUS
  <2>2. /\ FlushReturns(t, result) /\ pc[t] = "lock" /\ mSendBufferLock' = mSendBufferLock
        /\ UNCHANGED <<fresh, back, packets, pending, mSendPendingCount>>
    BY <1>1, <2>1 DEF FlushWaits, sessionVars
  <2> QED
    BY <2>2, FlushReturnsStep
<1>2. CASE FlushEnd(t)
  <2>1. /\ FlushReturns(t, TRUE) /\ pc[t] \in {"unlock", "finish"}
        /\ UNCHANGED <<fresh, back, packets, pending, mSendPendingCount>>
        /\ \/ mSendBufferLock' = mSendBufferLock
           \/ /\ pc[t] = "unlock"
              /\ mSendBufferLock' = [mSendBufferLock EXCEPT ![ses[t]] = None]
    BY <1>2 DEF FlushEnd
  <2>2. pc[t] = "unlock" => mSendBufferLock[ses[t]] = t
    BY DEF SendInv, SendThreadOK
  <2> QED
    BY <2>1, <2>2, FlushReturnsStep
<1> QED
  BY <1>1, <1>2

\* FlushSend has tested the count and keeps the lock.
LEMMA FlushPostsStep ==
  ASSUME SendInv, NEW t \in IOThread, kind[t] = "flush", FlushPosts(t)
  PROVE  SendInv'
<1>1. SendingTypeOK /\ SendThreadOK(t) /\ pc[t] = "lock"
  BY DEF SendInv, FlushPosts
<1>2. ses[t] \in Session /\ mSendBufferLock[ses[t]] = None /\ mSendPendingCount[ses[t]] = 0
  <2>1. ses[t] \in Session
    BY <1>1, HasSession
  <2>2. mSendPendingCount[ses[t]] \in Nat /\ ~(mSendPendingCount[ses[t]] > 0)
    BY <1>1, <2>1 DEF SendingTypeOK, FlushPosts
  <2> QED
    BY <2>1, <2>2 DEF FlushPosts
<1>3. /\ pc' = [pc EXCEPT ![t] = "create"] /\ fresh' = [fresh EXCEPT ![t] = "IO_SEND"]
      /\ mSendBufferLock' = [mSendBufferLock EXCEPT ![ses[t]] = t]
      /\ UNCHANGED <<ses, kind, back, packets, pending, mSendPendingCount, LSendRequestSessionList>>
  BY DEF FlushPosts, CreateIf, Goto, Local
<1>4. /\ pc'[t] = "create" /\ fresh'[t] = "IO_SEND" /\ mSendBufferLock'[ses[t]] = t
      /\ \A u \in IOThread \ {t} : pc'[u] = pc[u] /\ fresh'[u] = fresh[u]
      /\ \A u \in IOThread \ {t}, r \in Session : mSendBufferLock'[r] = u <=> mSendBufferLock[r] = u
  BY <1>1, <1>2, <1>3, ThreadAssumption DEF SendingTypeOK
<1>5. SendingTypeOK'
  <2>1. pc' \in [IOThread -> Label]
    BY <1>1, <1>3 DEF SendingTypeOK, Label
  <2>2. /\ fresh' \in [IOThread -> RecvTypes \union {"none", "IO_SEND", "IO_DISCONNECT"}]
        /\ mSendBufferLock' \in [Session -> IOThread \union {None}]
    BY <1>1, <1>3 DEF SendingTypeOK
  <2> QED
    BY <1>1, <1>3, <2>1, <2>2 DEF SendingTypeOK
<1>6. StepOf(t) /\ Quiet
  BY <1>3, <1>4 DEF StepOf, Quiet
<1>7. SendThreadOK(t)'
  BY <1>1, <1>2, <1>3, <1>4 DEF SendThreadOK, Returning, Creating
<1> QED
  BY <1>4, <1>5, <1>6, <1>7, QuietSend

\* WSASend has accepted the request: a send more, and one more is counted.
LEMMA FlushIssueStep ==
  ASSUME SendInv, NEW t \in IOThread, FlushIssueOk(t)
  PROVE  SendInv'
<1>1. SendingTypeOK /\ SendThreadOK(t) /\ pc[t] = "issue" /\ fresh[t] = "IO_SEND"
  BY DEF SendInv, FlushIssueOk, IssueOk
<1>2. /\ ses[t] \in Session /\ mSendBufferLock[ses[t]] = t /\ mSendPendingCount[ses[t]] = 0
      /\ kind[t] = "flush" /\ LSendRequestSessionList[t] # << >>
  BY <1>1, HasSession DEF SendThreadOK, FlushIssueOk
<1>3. /\ pc' = [pc EXCEPT ![t] = "unlock"] /\ fresh' = [fresh EXCEPT ![t] = "none"]
      /\ pending' = [pending EXCEPT ![ses[t]]["IO_SEND"] = @ + 1]
      /\ mSendPendingCount' = [mSendPendingCount EXCEPT ![ses[t]] = @ + 1]
      /\ UNCHANGED <<ses, kind, back, packets, mSendBufferLock, LSendRequestSessionList>>
  <2>1. AfterPost(t) = "unlock"
    BY <1>1 DEF AfterPost
  <2> QED
    BY <1>1, <2>1 DEF FlushIssueOk, IssueOk, Goto, Local
<1>4. /\ pc'[t] = "unlock" /\ fresh'[t] = "none"
      /\ \A u \in IOThread \ {t} : pc'[u] = pc[u] /\ fresh'[u] = fresh[u]
  BY <1>1, <1>3 DEF SendingTypeOK
<1>5. \A r \in Session :
        /\ pending[r]["IO_SEND"] \in Nat /\ mSendPendingCount[r] \in Nat
        /\ pending'[r]["IO_SEND"] = pending[r]["IO_SEND"] + IF r = ses[t] THEN 1 ELSE 0
        /\ mSendPendingCount'[r] = mSendPendingCount[r] + IF r = ses[t] THEN 1 ELSE 0
  <2>1. /\ pending \in [Session -> [IOType -> Nat]] /\ mSendPendingCount \in [Session -> Nat]
        /\ "IO_SEND" \in IOType
    BY <1>1 DEF SendingTypeOK, IOType
  <2>2. ASSUME NEW r \in Session
        PROVE  mSendPendingCount'[r] = mSendPendingCount[r] + IF r = ses[t] THEN 1 ELSE 0
    BY <1>2, <1>3, <2>1
  <2>3. ASSUME NEW r \in Session
        PROVE  pending'[r]["IO_SEND"] = pending[r]["IO_SEND"] + IF r = ses[t] THEN 1 ELSE 0
    <3>1. CASE r = ses[t]
      BY <1>2, <1>3, <2>1, <3>1
    <3>2. CASE r # ses[t]
      BY <1>2, <1>3, <2>1, <3>2
    <3> QED
      BY <3>1, <3>2
  <2> QED
    BY <2>1, <2>2, <2>3
<1>6. SendingTypeOK'
  <2>1. pc' \in [IOThread -> Label]
    BY <1>1, <1>3 DEF SendingTypeOK, Label
  <2>2. fresh' \in [IOThread -> RecvTypes \union {"none", "IO_SEND", "IO_DISCONNECT"}]
    BY <1>1, <1>3 DEF SendingTypeOK
  <2>3. pending' \in [Session -> [IOType -> Nat]]
    <3>1. pending \in [Session -> [IOType -> Nat]] /\ "IO_SEND" \in IOType
      BY <1>1 DEF SendingTypeOK, IOType
    <3>2. pending[ses[t]]["IO_SEND"] + 1 \in Nat
      BY <1>2, <3>1
    <3> QED
      BY <1>2, <1>3, <3>1, <3>2
  <2>4. mSendPendingCount' \in [Session -> Nat]
    BY <1>1, <1>2, <1>3 DEF SendingTypeOK
  <2> QED
    BY <1>1, <1>3, <2>1, <2>2, <2>3, <2>4 DEF SendingTypeOK
<1>7. StepOf(t)
  BY <1>3, <1>4 DEF StepOf
<1>8. SendThreadOK(t)'
  BY <1>1, <1>2, <1>3, <1>4, SessionAssumption DEF SendThreadOK, Returning, Creating
<1>9. ASSUME NEW r \in Session
      PROVE  /\ mSendPendingCount'[r] <= 1
             /\ mSendPendingCount'[r] = mSendPendingCount[r] \/ mSendBufferLock[r] \in {t, None}
             /\ SendsOf(t, r)' - mSendPendingCount'[r] <= SendsOf(t, r) - mSendPendingCount[r]
  <2>1. t \notin Sent(r) /\ t \notin Sent(r)'
    BY <1>1, <1>4 DEF Sent
  <2>2. Bit(t, Sent(r)) = 0 /\ Bit(t, Sent(r)') = 0
    BY <2>1 DEF Bit
  <2>3. /\ SendsOf(t, r)' = pending'[r]["IO_SEND"] + Bit(t, Sent(r)')
        /\ SendsOf(t, r) = pending[r]["IO_SEND"] + Bit(t, Sent(r))
    BY DEF SendsOf, Bit
  <2>4. /\ mSendPendingCount[r] <= 1 /\ (r = ses[t] => mSendPendingCount[r] = 0)
        /\ pending[r]["IO_SEND"] \in Nat /\ mSendPendingCount[r] \in Nat
    BY <1>2, <1>5 DEF SendInv
  <2>5. CASE r = ses[t]
    <3>1. /\ mSendPendingCount'[r] = mSendPendingCount[r] + 1 /\ mSendPendingCount[r] = 0
          /\ pending'[r]["IO_SEND"] = pending[r]["IO_SEND"] + 1
      BY <1>5, <2>4, <2>5
    <3>2. mSendBufferLock[r] = t
      BY <1>2, <2>5
    <3> QED
      BY <2>2, <2>3, <2>4, <3>1, <3>2
  <2>6. CASE r # ses[t]
    <3>1. mSendPendingCount'[r] = mSendPendingCount[r] /\ pending'[r]["IO_SEND"] = pending[r]["IO_SEND"]
      BY <1>5, <2>4, <2>6
    <3> QED
      BY <2>2, <2>3, <2>4, <3>1
  <2> QED
    BY <2>5, <2>6
<1> QED
  BY <1>6, <1>7, <1>8, <1>9, SendFrame

\* The completion of a send is handled: a send less, and one less is counted.
LEMMA SendCompletionSend ==
  ASSUME SendInv, NEW t \in IOThread, NEW len, FlushedSendCompletion(t, len)
  PROVE  SendInv'
<1>1. SendingTypeOK /\ SendThreadOK(t) /\ pc[t] = "sent" /\ kind[t] = "IO_SEND"
  BY DEF SendInv, FlushedSendCompletion, SendThreadOK
<1>2. ses[t] \in Session /\ mSendBufferLock[ses[t]] = None
  BY <1>1, HasSession DEF FlushedSendCompletion
<1>3. PICK l \in {"disconnect", "finish"} : pc' = [pc EXCEPT ![t] = l]
  BY DEF FlushedSendCompletion, Goto
<1>4. /\ mSendPendingCount' = [mSendPendingCount EXCEPT ![ses[t]] = @ - 1]
      /\ UNCHANGED <<ses, kind, fresh, back, packets, pending, mSendBufferLock, LSendRequestSessionList>>
  BY DEF FlushedSendCompletion, Local, sessionVars
<1>5. /\ pc'[t] = l /\ \A u \in IOThread \ {t} : pc'[u] = pc[u]
      /\ pc' \in [IOThread -> Label]
  BY <1>1, <1>3 DEF SendingTypeOK, Label
<1>6. mSendPendingCount[ses[t]] >= 1
  <2>1. t \in Sent(ses[t]) /\ Sent(ses[t]) \subseteq IOThread
    BY <1>1 DEF Sent
  <2>2. Cardinality(Sent(ses[t])) >= 1 /\ Cardinality(Sent(ses[t])) \in Nat
    BY <2>1, CountMember
  <2>3. /\ Uncompleted(ses[t]) <= mSendPendingCount[ses[t]]
        /\ pending[ses[t]]["IO_SEND"] \in Nat /\ mSendPendingCount[ses[t]] \in Nat
    BY <1>1, <1>2 DEF SendInv, SendingTypeOK, IOType
  <2> QED
    BY <2>2, <2>3 DEF Uncompleted
<1>7. mSendPendingCount' \in [Session -> Nat]
  BY <1>1, <1>2, <1>4, <1>6 DEF SendingTypeOK
<1>8. SendingTypeOK' /\ StepOf(t)
  BY <1>1, <1>4, <1>5, <1>7 DEF SendingTypeOK, StepOf
<1>9. SendThreadOK(t)'
  <2>1. l \notin Creating /\ fresh[t] = "none"
    BY <1>1 DEF SendThreadOK, Creating
  <2> QED
    BY <1>1, <1>2, <1>4, <1>5, <2>1, SessionAssumption DEF SendThreadOK, Returning
<1>10. ASSUME NEW r \in Session
       PROVE  /\ mSendPendingCount'[r] <= 1
              /\ mSendPendingCount'[r] = mSendPendingCount[r] \/ mSendBufferLock[r] \in {t, None}
              /\ SendsOf(t, r)' - mSendPendingCount'[r] <= SendsOf(t, r) - mSendPendingCount[r]
  <2>1. t \notin Sent(r)' /\ (r = ses[t] <=> t \in Sent(r))
    BY <1>1, <1>5 DEF Sent
  <2>2. Bit(t, Sent(r)') = 0 /\ Bit(t, Sent(r)) = IF r = ses[t] THEN 1 ELSE 0
    BY <2>1 DEF Bit
  <2>3. /\ SendsOf(t, r)' = pending'[r]["IO_SEND"] + Bit(t, Sent(r)')
        /\ SendsOf(t, r) = pending[r]["IO_SEND"] + Bit(t, Sent(r))
    BY DEF SendsOf, Bit
  <2>4. /\ mSendPendingCount[r] <= 1 /\ mSendPendingCount[r] \in Nat
        /\ pending[r]["IO_SEND"] \in Nat /\ pending'[r]["IO_SEND"] = pending[r]["IO_SEND"]
    BY <1>4 DEF SendInv, SendingTypeOK, IOType
  <2>5. mSendPendingCount'[r] = mSendPendingCount[r] - IF r = ses[t] THEN 1 ELSE 0
    BY <1>1, <1>2, <1>4, <2>4 DEF SendingTypeOK
  <2> QED
    BY <1>2, <2>2, <2>3, <2>4, <2>5
<1> QED
  BY <1>8, <1>9, <1>10, SendFrame
-----------------------------------------------------------------------------
(* The main thread, the database threads, and the theorem.                 *)

LEMMA AcceptSend ==
  ASSUME SendInv, AcceptClientSessions, UNCHANGED sendVars
  PROVE  SendInv'
<1>1. UNCHANGED <<pc, ses, kind, fresh, back, packets, mSendBufferLock,
                  mSendPendingCount, LSendRequestSessionList>>
  BY DEF AcceptClientSessions, AcceptEnter, AcceptOne, AcceptLeave, threadVars, sessionVars, sendVars
<1>2. \/ pending' = pending
      \/ \E s : pending' = [pending EXCEPT ![s]["IO_ACCEPT"] = @ + 1]
  BY DEF AcceptClientSessions, AcceptEnter, AcceptOne, AcceptLeave, sessionVars
<1>3. pending \in [Session -> [IOType -> Nat]]
  BY DEF SendInv, SendingTypeOK
<1>4. /\ pending' \in [Session -> [IOType -> Nat]]
      /\ \A r \in Session : pending'[r]["IO_SEND"] = pending[r]["IO_SEND"]
  BY <1>2, <1>3 DEF IOType
<1>5. SendingTypeOK' /\ Quiet
  BY <1>1, <1>4 DEF SendInv, SendingTypeOK, Quiet
<1> QED
  BY <1>1, <1>5, ForeignSend

LEMMA DatabaseSend ==
  ASSUME SendInv, NEW d \in DBThread,
         DoDatabaseJob(d) \/ \E ok \in BOOLEAN : PostDatabaseResult(d, ok)
  PROVE  SendInv'
<1>1. UNCHANGED <<pc, ses, kind, fresh, back, packets, mSendBufferLock,
                  mSendPendingCount, LSendRequestSessionList>>
  BY DEF DoDatabaseJob, PostDatabaseResult, allVars, vars, threadVars, sessionVars, sendVars
<1>2. \/ pending' = pending
      \/ \E s : pending' = [pending EXCEPT ![s]["CK_DB_RESULT"] = @ + 1]
  BY DEF DoDatabaseJob, PostDatabaseResult, allVars, vars, sessionVars
<1>3. pending \in [Session -> [IOType -> Nat]]
  BY DEF SendInv, SendingTypeOK
<1>4. /\ pending' \in [Session -> [IOType -> Nat]]
      /\ \A r \in Session : pending'[r]["IO_SEND"] = pending[r]["IO_SEND"]
  BY <1>2, <1>3 DEF IOType
<1>5. SendingTypeOK' /\ Quiet
  BY <1>1, <1>4 DEF SendInv, SendingTypeOK, Quiet
<1> QED
  BY <1>1, <1>5, ForeignSend

LEMMA JobInitSendInv == JobInit => SendInv
<1> SUFFICES ASSUME JobInit PROVE SendInv
  OBVIOUS
<1>1. /\ Init
      /\ mSendPendingCount = [s \in Session |-> 0]
      /\ LSendRequestSessionList = [t \in IOThread |-> << >>]
  BY DEF JobInit, SendInit
<1>2. SendingTypeOK
  BY <1>1 DEF Init, SendingTypeOK, Label
<1>3. ASSUME NEW t \in IOThread PROVE SendThreadOK(t)
  BY <1>1 DEF Init, SendThreadOK, Returning, Creating
<1>4. ASSUME NEW s \in Session
      PROVE  Uncompleted(s) <= mSendPendingCount[s] /\ mSendPendingCount[s] <= 1
  <2>1. Sent(s) = {} /\ pending[s]["IO_SEND"] = 0 /\ mSendPendingCount[s] = 0
    BY <1>1 DEF Init, Sent, IOType
  <2>2. Cardinality(Sent(s)) = 0
    BY <2>1, FS_EmptySet
  <2> QED
    BY <2>1, <2>2 DEF Uncompleted
<1> QED
  BY <1>2, <1>3, <1>4 DEF SendInv

LEMMA DoSendsStep ==
  ASSUME SendInv, NEW t \in IOThread, DoSends(t)
  PROVE  SendInv'
<1>1. CASE kind[t] = "IO_RECV" /\ \E full \in BOOLEAN : PostSend(t, full)
  BY <1>1, PostSendStep
<1>2. CASE \E len \in 1 .. MaxStored : FlushedSendCompletion(t, len)
  BY <1>2, SendCompletionSend
<1>3. CASE FlushBegin(t)
  BY <1>3, FlushBeginStep
<1>4. CASE kind[t] = "flush" /\ FlushWaits(t)
  BY <1>4, FlushLeaves
<1>5. CASE kind[t] = "flush" /\ FlushPosts(t)
  BY <1>5, FlushPostsStep
<1>6. CASE FlushIssueOk(t)
  BY <1>6, FlushIssueStep
<1>7. CASE FlushEnd(t)
  <2>1. kind[t] = "flush"
    BY <1>7 DEF FlushEnd
  <2> QED
    BY <1>7, <2>1, FlushLeaves
<1> QED
  BY <1>1, <1>2, <1>3, <1>4, <1>5, <1>6, <1>7 DEF DoSends, DoSendJob

LEMMA NextSendInv == SendInv /\ [JobNext]_h6Vars => SendInv'
<1> SUFFICES ASSUME SendInv, [JobNext]_h6Vars PROVE SendInv'
  OBVIOUS
<1>1. CASE AcceptClientSessions /\ UNCHANGED <<sendVars, jobVars>>
  BY <1>1, AcceptSend
<1>2. ASSUME NEW t \in IOThread, SameAsHomework7(t), UNCHANGED <<sendVars, jobVars>>
      PROVE  SendInv'
  BY <1>2, HandlerMoves, CreatingMoves, IssueOther, ReleaseSend, ReturnSend DEF SameAsHomework7
<1>3. ASSUME NEW t \in IOThread, DoSends(t) PROVE SendInv'
  BY <1>3, DoSendsStep
<1>4. ASSUME NEW t \in IOThread, NextCompletion(t) PROVE SendInv'
  BY <1>4, CompletionSend
<1>5. ASSUME NEW t \in IOThread, NEW n, NEW ok, PostRequest(t, n, ok) \/ OnLoadResult(t)
      PROVE  SendInv'
  BY <1>5, JobMoves
<1>6. ASSUME NEW t \in IOThread, ResetWithPlayer(t) PROVE SendInv'
  BY <1>6, ResetSend
<1>7. ASSUME NEW d \in DBThread, DoDatabaseJob(d) \/ \E ok \in BOOLEAN : PostDatabaseResult(d, ok)
      PROVE  SendInv'
  BY <1>7, DatabaseSend
<1>8. CASE UNCHANGED allVars
  <2>1. UNCHANGED <<pc, ses, kind, fresh, back, packets, mSendBufferLock, pending,
                    mSendPendingCount, LSendRequestSessionList>>
    BY <1>8 DEF allVars, vars, threadVars, sessionVars, sendVars
  <2>2. SendingTypeOK' /\ Quiet
    BY <2>1 DEF SendInv, SendingTypeOK, Quiet
  <2> QED
    BY <2>1, <2>2, ForeignSend
<1>9. UNCHANGED h6Vars \/ (\E d \in DBThread : PostDatabaseResultFails(d)) => UNCHANGED allVars
  BY DEF h6Vars, PostDatabaseResultFails
<1> QED
  BY <1>1, <1>2, <1>3, <1>4, <1>5, <1>6, <1>7, <1>8, <1>9 DEF JobNext

\* SendInv is an invariant of Homework6, revived sessions and failed Winsock
\* calls included: whoever is between the test of mSendPendingCount and its
\* increment holds the send lock, and the count is at least the uncompleted
\* sends.
THEOREM SendInvariant == JobSpec => []SendInv
<1>1. JobInit => SendInv
  BY JobInitSendInv
<1>2. SendInv /\ [JobNext]_h6Vars => SendInv'
  BY NextSendInv
<1> QED
  BY <1>1, <1>2, PTL DEF JobSpec

\* The kernel has at most one send of a session, although FlushSend releases
\* the lock before the completion and several threads flush the session: no
\* byte of mSendBuffer is handed to it twice.
THEOREM SendOneInFlight == JobSpec => []OneSendInFlight
<1>1. SendInv => OneSendInFlight
  <2> SUFFICES ASSUME SendInv, NEW s \in Session PROVE Uncompleted(s) <= 1
    BY DEF OneSendInFlight
  <2>1. /\ Uncompleted(s) <= mSendPendingCount[s] /\ mSendPendingCount[s] <= 1
        /\ mSendPendingCount[s] \in Nat /\ pending[s]["IO_SEND"] \in Nat
    BY DEF SendInv, SendingTypeOK, IOType
  <2>2. Sent(s) \subseteq IOThread
    BY DEF Sent
  <2>3. Uncompleted(s) \in Nat
    BY <2>1, <2>2, CountMember DEF Uncompleted
  <2> QED
    BY <2>1, <2>3
<1> QED
  BY <1>1, SendInvariant, PTL

-----------------------------------------------------------------------------
(* Until a session is revived: the references, the pool and the rows.      *)

\* A step of thread t on session s.
StepOn(t, s) ==
  /\ StepOf(t)
  /\ \A u \in IOThread \ {t} : packets'[u] = packets[u]
  /\ \A r \in Session \ {s} :
       /\ mConnected'[r] = mConnected[r] /\ mRefCount'[r] = mRefCount[r]
       /\ pending'[r] = pending[r] /\ issued'[r] = issued[r]
  /\ ses[t] \in {s, None} /\ ses'[t] \in {s, None}

\* One that leaves the pool and the database pipeline alone.
JobOnly(t, s) == StepOn(t, s) /\ UNCHANGED <<mFreeSessionList, jobVars>>

LEMMA JobSets ==
  ASSUME NEW t \in IOThread, NEW s \in Session, StepOn(t, s), NEW r \in Session
  PROVE  /\ SameBut(t, JobHandlers(r), JobHandlers(r)')
         /\ SameBut(t, Creators(r), Creators(r)')
         /\ SameBut(t, Connectors(r), Connectors(r)')
         /\ SameBut(t, Accepting(r), Accepting(r)')
         /\ SameBut(t, Delivering(r), Delivering(r)')
         /\ r # s => /\ JobHandlers(r)' = JobHandlers(r) /\ Creators(r)' = Creators(r)
                     /\ Connectors(r)' = Connectors(r) /\ Accepting(r)' = Accepting(r)
                     /\ Delivering(r)' = Delivering(r)
<1>1. \A u \in IOThread : u # t =>
        /\ u \in JobHandlers(r) <=> u \in JobHandlers(r)'
        /\ u \in Creators(r) <=> u \in Creators(r)'
        /\ u \in Connectors(r) <=> u \in Connectors(r)'
        /\ u \in Accepting(r) <=> u \in Accepting(r)'
        /\ u \in Delivering(r) <=> u \in Delivering(r)'
  BY DEF StepOn, StepOf, JobHandlers, Handlers, Creators, Connectors, Accepting, Delivering
<1>2. r # s => /\ t \notin JobHandlers(r) /\ t \notin JobHandlers(r)'
               /\ t \notin Creators(r) /\ t \notin Creators(r)'
               /\ t \notin Connectors(r) /\ t \notin Connectors(r)'
               /\ t \notin Accepting(r) /\ t \notin Accepting(r)'
               /\ t \notin Delivering(r) /\ t \notin Delivering(r)'
  BY SessionAssumption
  DEF StepOn, JobHandlers, Handlers, Creators, Connectors, Accepting, Delivering
<1>3. /\ JobHandlers(r) \subseteq IOThread /\ JobHandlers(r)' \subseteq IOThread
      /\ Creators(r) \subseteq IOThread /\ Creators(r)' \subseteq IOThread
      /\ Connectors(r) \subseteq IOThread /\ Connectors(r)' \subseteq IOThread
      /\ Accepting(r) \subseteq IOThread /\ Accepting(r)' \subseteq IOThread
      /\ Delivering(r) \subseteq IOThread /\ Delivering(r)' \subseteq IOThread
  BY DEF JobHandlers, Handlers, Creators, Connectors, Accepting, Delivering
<1>4. SameBut(t, JobHandlers(r), JobHandlers(r)')
  BY <1>1, <1>3, CountStep
<1>5. SameBut(t, Creators(r), Creators(r)')
  BY <1>1, <1>3, CountStep
<1>6. SameBut(t, Connectors(r), Connectors(r)')
  BY <1>1, <1>3, CountStep
<1>7. SameBut(t, Accepting(r), Accepting(r)')
  BY <1>1, <1>3, CountStep
<1>8. SameBut(t, Delivering(r), Delivering(r)')
  BY <1>1, <1>3, CountStep
<1> QED
  BY <1>1, <1>2, <1>3, <1>4, <1>5, <1>6, <1>7, <1>8

\* The counts of contexts are natural numbers.
LEMMA JobCounts ==
  ASSUME SendInv, JobTypes, NEW s \in Session
  PROVE  /\ \A k \in IOType : pending[s][k] \in Nat /\ pending[s][k] <= InFlight(s)
         /\ InFlight(s) \in Nat /\ Loads(s) \in Nat /\ IssueRef(s) \in {0, 1}
         /\ Cardinality(Requests(s)) \in Nat /\ Cardinality(Running(s)) \in Nat
         /\ IsFiniteSet(Requests(s)) /\ IsFiniteSet(Running(s))
<1>1. \A k \in IOType : pending[s][k] \in Nat
  BY DEF SendInv, SendingTypeOK
<1>2. IsFiniteSet(Requests(s)) /\ IsFiniteSet(Running(s))
  <2>1. Requests(s) \subseteq requests /\ Running(s) \subseteq DBThread
    BY DEF Requests, Running
  <2> QED
    BY <2>1, FS_Subset, DatabaseAssumption DEF JobTypes
<1>3. Cardinality(Requests(s)) \in Nat /\ Cardinality(Running(s)) \in Nat
  BY <1>2, FS_CardinalityType
<1> QED
  BY <1>1, <1>2, <1>3 DEF InFlight, IOType, Loads, IssueRef

\* What t and the contexts of s contribute to the count and to the loads.
JobRefs(t, s) ==
  InFlight(s) + Loads(s) + Bit(t, JobHandlers(s)) + Bit(t, Creators(s)) + IssueRef(s)

LoadsOf(t, s) ==
  pending[s]["IO_ACCEPT"] + Bit(t, Accepting(s)) + Loads(s)
    + pending[s]["CK_DB_RESULT"] + Bit(t, Delivering(s))

\* The other sessions, and the pipeline, in such a step.
LEMMA JobElsewhere ==
  ASSUME NEW t \in IOThread, NEW s \in Session, JobOnly(t, s), NEW r \in Session
  PROVE  /\ Loads(r)' = Loads(r)
         /\ r # s => /\ InFlight(r)' = InFlight(r) /\ IssueRef(r)' = IssueRef(r)
                     /\ mRefCount'[r] = mRefCount[r] /\ mConnected'[r] = mConnected[r]
                     /\ pending'[r] = pending[r]
<1>1. requests' = requests /\ running' = running
  BY DEF JobOnly, StepOn, jobVars
<1>2. Loads(r)' = Loads(r)
  BY <1>1 DEF Loads, Requests, Running
<1> QED
  BY <1>2 DEF JobOnly, StepOn, InFlight, IssueRef

\* The sums follow from the contributions of t and s.
LEMMA JobSums ==
  ASSUME JobLifeInv, SendInv, SendInv', JobTypes', NEW t \in IOThread, NEW s \in Session,
         StepOn(t, s), \A r \in Session \ {s} : Loads(r)' = Loads(r), Loads(s)' \in Nat,
         mRefCount'[s] - JobRefs(t, s)' = mRefCount[s] - JobRefs(t, s),
         Connects(t, s)' <= Connects(t, s),
         LoadsOf(t, s)' <= LoadsOf(t, s)
  PROVE  CountsAll' /\ ConnectOnce' /\ LoadOnce'
<1>1. ASSUME NEW r \in Session, r # s
      PROVE  /\ JobHandlers(r)' = JobHandlers(r) /\ Creators(r)' = Creators(r)
             /\ Connectors(r)' = Connectors(r) /\ Accepting(r)' = Accepting(r)
             /\ Delivering(r)' = Delivering(r) /\ Loads(r)' = Loads(r)
             /\ InFlight(r)' = InFlight(r) /\ IssueRef(r)' = IssueRef(r)
             /\ mRefCount'[r] = mRefCount[r] /\ mConnected'[r] = mConnected[r]
             /\ pending'[r] = pending[r]
  BY <1>1, JobSets DEF StepOn, InFlight, IssueRef
<1>2. /\ SameBut(t, JobHandlers(s), JobHandlers(s)')
      /\ SameBut(t, Creators(s), Creators(s)')
      /\ SameBut(t, Connectors(s), Connectors(s)')
      /\ SameBut(t, Accepting(s), Accepting(s)')
      /\ SameBut(t, Delivering(s), Delivering(s)')
      /\ Loads(s)' \in Nat
  BY JobSets
<1>3. \A S : Bit(t, S) \in {0, 1}
  BY DEF Bit
<1>4. /\ pending[s]["IO_ACCEPT"] \in Nat /\ pending[s]["IO_DISCONNECT"] \in Nat
      /\ pending[s]["CK_DB_RESULT"] \in Nat
      /\ mRefCount[s] \in Int /\ mConnected[s] \in {0, 1} /\ IssueRef(s) \in {0, 1}
      /\ InFlight(s) \in Nat /\ Loads(s) \in Nat
  <2>1. JobTypes
    BY DEF JobLifeInv
  <2>2. mRefCount[s] \in Int /\ mConnected[s] \in {0, 1}
    BY <2>1 DEF JobTypes
  <2> QED
    BY <2>1, <2>2, JobCounts DEF IOType
<1>5. /\ pending'[s]["IO_ACCEPT"] \in Nat /\ pending'[s]["IO_DISCONNECT"] \in Nat
      /\ pending'[s]["CK_DB_RESULT"] \in Nat /\ InFlight(s)' \in Nat
      /\ mRefCount'[s] \in Int /\ mConnected'[s] \in {0, 1} /\ IssueRef(s)' \in {0, 1}
  <2>1. pending' \in [Session -> [IOType -> Nat]]
    BY DEF SendInv, SendingTypeOK
  <2>2. \A k \in IOType : pending'[s][k] \in Nat
    BY <2>1
  <2>3. InFlight(s)' \in Nat
    BY <2>2 DEF InFlight, IOType
  <2>4. mRefCount'[s] \in Int /\ mConnected'[s] \in {0, 1}
    BY DEF JobTypes
  <2> QED
    BY <2>2, <2>3, <2>4 DEF IssueRef, IOType
<1>6. /\ Cardinality(JobHandlers(s)) \in Nat
      /\ Cardinality(JobHandlers(s)') = Cardinality(JobHandlers(s)) - Bit(t, JobHandlers(s)) + Bit(t, JobHandlers(s)')
      /\ Cardinality(Creators(s)) \in Nat
      /\ Cardinality(Creators(s)') = Cardinality(Creators(s)) - Bit(t, Creators(s)) + Bit(t, Creators(s)')
      /\ Cardinality(Connectors(s)) \in Nat
      /\ Cardinality(Connectors(s)') = Cardinality(Connectors(s)) - Bit(t, Connectors(s)) + Bit(t, Connectors(s)')
      /\ Cardinality(Accepting(s)) \in Nat
      /\ Cardinality(Accepting(s)') = Cardinality(Accepting(s)) - Bit(t, Accepting(s)) + Bit(t, Accepting(s)')
      /\ Cardinality(Delivering(s)) \in Nat
      /\ Cardinality(Delivering(s)') = Cardinality(Delivering(s)) - Bit(t, Delivering(s)) + Bit(t, Delivering(s)')
  BY <1>2 DEF SameBut
<1>7. CountsAll'
  <2>1. mRefCount[s] = InFlight(s) + Loads(s) + Cardinality(JobHandlers(s))
                         + Cardinality(Creators(s)) + IssueRef(s)
    BY DEF JobLifeInv, CountsAll
  <2>2. /\ JobRefs(t, s) = InFlight(s) + Loads(s) + Bit(t, JobHandlers(s)) + Bit(t, Creators(s))
                            + IssueRef(s)
        /\ JobRefs(t, s)' = InFlight(s)' + Loads(s)' + Bit(t, JobHandlers(s)') + Bit(t, Creators(s)')
                             + IssueRef(s)'
    BY DEF JobRefs, Bit
  <2>3. mRefCount'[s] = InFlight(s)' + Loads(s)' + Cardinality(JobHandlers(s)')
                          + Cardinality(Creators(s)') + IssueRef(s)'
    BY <1>2, <1>3, <1>4, <1>5, <1>6, <2>1, <2>2
  <2>4. ASSUME NEW r \in Session
        PROVE  mRefCount'[r] = InFlight(r)' + Loads(r)' + Cardinality(JobHandlers(r)')
                                 + Cardinality(Creators(r)') + IssueRef(r)'
    <3>1. CASE r = s
      BY <2>3, <3>1
    <3>2. CASE r # s
      BY <1>1, <3>2 DEF JobLifeInv, CountsAll
    <3> QED
      BY <3>1, <3>2
  <2> QED
    BY <2>4 DEF CountsAll
<1>8. ConnectOnce'
  <2> USE DEF ConnectOnce
  <2>0. ConnectOnce
    BY DEF JobLifeInv
  <2>1. pending[s]["IO_ACCEPT"] + mConnected[s] + pending[s]["IO_DISCONNECT"]
          + Cardinality(Connectors(s)) <= IssueRef(s)
    BY <2>0
  <2>2. /\ Connects(t, s) = pending[s]["IO_ACCEPT"] + mConnected[s] + pending[s]["IO_DISCONNECT"]
                            + Bit(t, Connectors(s)) - IssueRef(s)
        /\ Connects(t, s)' = pending'[s]["IO_ACCEPT"] + mConnected'[s] + pending'[s]["IO_DISCONNECT"]
                             + Bit(t, Connectors(s)') - IssueRef(s)'
    BY DEF Connects, Bit
  <2>3. pending'[s]["IO_ACCEPT"] + mConnected'[s] + pending'[s]["IO_DISCONNECT"]
          + Cardinality(Connectors(s)') <= IssueRef(s)'
    BY <1>2, <1>3, <1>4, <1>5, <1>6, <2>1, <2>2
  <2>4. ASSUME NEW r \in Session
        PROVE  pending'[r]["IO_ACCEPT"] + mConnected'[r] + pending'[r]["IO_DISCONNECT"]
                 + Cardinality(Connectors(r)') <= IssueRef(r)'
    <3>1. CASE r = s
      BY <2>3, <3>1
    <3>2. CASE r # s
      BY <1>1, <2>0, <3>2
    <3> QED
      BY <3>1, <3>2
  <2> QED
    BY <2>4
<1>9. LoadOnce'
  <2>1. pending[s]["IO_ACCEPT"] + Cardinality(Accepting(s)) + Loads(s)
          + pending[s]["CK_DB_RESULT"] + Cardinality(Delivering(s)) <= 1
    BY DEF JobLifeInv, LoadOnce
  <2>2. /\ LoadsOf(t, s) = pending[s]["IO_ACCEPT"] + Bit(t, Accepting(s)) + Loads(s)
                            + pending[s]["CK_DB_RESULT"] + Bit(t, Delivering(s))
        /\ LoadsOf(t, s)' = pending'[s]["IO_ACCEPT"] + Bit(t, Accepting(s)') + Loads(s)'
                             + pending'[s]["CK_DB_RESULT"] + Bit(t, Delivering(s)')
    BY DEF LoadsOf, Bit
  <2>3. pending'[s]["IO_ACCEPT"] + Cardinality(Accepting(s)') + Loads(s)'
          + pending'[s]["CK_DB_RESULT"] + Cardinality(Delivering(s)') <= 1
    BY <1>2, <1>3, <1>4, <1>5, <1>6, <2>1, <2>2
  <2>4. ASSUME NEW r \in Session
        PROVE  pending'[r]["IO_ACCEPT"] + Cardinality(Accepting(r)') + Loads(r)'
                 + pending'[r]["CK_DB_RESULT"] + Cardinality(Delivering(r)') <= 1
    <3>1. CASE r = s
      BY <2>3, <3>1
    <3>2. CASE r # s
      BY <1>1, <3>2 DEF JobLifeInv, LoadOnce
    <3> QED
      BY <3>1, <3>2
  <2> QED
    BY <2>4 DEF LoadOnce
<1> QED
  BY <1>7, <1>8, <1>9

\* A set of threads is empty when its size is 0, and the other way round.
LEMMA NoThread ==
  ASSUME NEW A, A \subseteq IOThread
  PROVE  Cardinality(A) \in Nat /\ (Cardinality(A) = 0 <=> A = {})
BY ThreadAssumption, FS_Subset, FS_CardinalityType, FS_EmptySet

\* What the counts say of a session whose count is 0, and of a thread that holds
\* a reference.
LEMMA ZeroCount ==
  ASSUME JobLifeInv, SendInv, NEW s \in Session
  PROVE  /\ mRefCount[s] \in Nat
         /\ mRefCount[s] = 0 =>
              /\ InFlight(s) = 0 /\ Loads(s) = 0 /\ JobHandlers(s) = {} /\ Creators(s) = {}
              /\ IssueRef(s) = 0 /\ \A k \in IOType : pending[s][k] = 0
         /\ \A t \in IOThread :
              mRefCount[s] >= Bit(t, JobHandlers(s)) + Bit(t, Creators(s)) + IssueRef(s)
<1>1. JobTypes /\ CountsAll
  BY DEF JobLifeInv
<1>2. mRefCount[s] = InFlight(s) + Loads(s) + Cardinality(JobHandlers(s))
                       + Cardinality(Creators(s)) + IssueRef(s)
  BY <1>1 DEF CountsAll
<1>3. /\ InFlight(s) \in Nat /\ Loads(s) \in Nat /\ IssueRef(s) \in {0, 1}
      /\ \A k \in IOType : pending[s][k] \in Nat /\ pending[s][k] <= InFlight(s)
  BY <1>1, JobCounts
<1>4. JobHandlers(s) \subseteq IOThread /\ Creators(s) \subseteq IOThread
  BY DEF JobHandlers, Handlers, Creators
<1>5. /\ Cardinality(JobHandlers(s)) \in Nat /\ (Cardinality(JobHandlers(s)) = 0 <=> JobHandlers(s) = {})
      /\ Cardinality(Creators(s)) \in Nat /\ (Cardinality(Creators(s)) = 0 <=> Creators(s) = {})
  BY <1>4, NoThread
<1>6. \A t \in IOThread : /\ Cardinality(JobHandlers(s)) >= Bit(t, JobHandlers(s))
                          /\ Cardinality(Creators(s)) >= Bit(t, Creators(s))
  BY <1>4, <1>5, CountMember DEF Bit
<1>7. mRefCount[s] \in Nat
  BY <1>2, <1>3, <1>5
<1>8. mRefCount[s] = 0 =>
        /\ InFlight(s) = 0 /\ Loads(s) = 0 /\ JobHandlers(s) = {} /\ Creators(s) = {}
        /\ IssueRef(s) = 0
  <2>1. \A a, b, c, d, e \in Nat :
          a + b + c + d + e = 0 => a = 0 /\ b = 0 /\ c = 0 /\ d = 0 /\ e = 0
    OBVIOUS
  <2>2. IssueRef(s) \in Nat
    BY <1>3
  <2>3. mRefCount[s] = 0 =>
          /\ InFlight(s) = 0 /\ Loads(s) = 0 /\ Cardinality(JobHandlers(s)) = 0
          /\ Cardinality(Creators(s)) = 0 /\ IssueRef(s) = 0
    BY <1>2, <1>3, <1>5, <2>1, <2>2
  <2> QED
    BY <1>5, <2>3
<1>9. InFlight(s) = 0 => \A k \in IOType : pending[s][k] = 0
  BY <1>3
<1>10. ASSUME NEW t \in IOThread
       PROVE  mRefCount[s] >= Bit(t, JobHandlers(s)) + Bit(t, Creators(s)) + IssueRef(s)
  BY <1>2, <1>3, <1>5, <1>6, BitType
<1> QED
  BY <1>7, <1>8, <1>9, <1>10

\* What the sums leave for one thread.
LEMMA JobBounds ==
  ASSUME JobLifeInv, SendInv, NEW t \in IOThread, NEW s \in Session
  PROVE  /\ Connects(t, s) \in Int /\ Connects(t, s) <= 0
         /\ LoadsOf(t, s) \in Nat /\ LoadsOf(t, s) <= 1
         /\ mConnected[s] \in {0, 1} /\ mRefCount[s] \in Int /\ IssueRef(s) \in {0, 1}
         /\ InFlight(s) \in Nat /\ Loads(s) \in Nat /\ \A k \in IOType : pending[s][k] \in Nat
<1>1. JobTypes /\ ConnectOnce /\ LoadOnce
  BY DEF JobLifeInv
<1>2. /\ mConnected[s] \in {0, 1} /\ mRefCount[s] \in Int /\ IssueRef(s) \in {0, 1}
      /\ InFlight(s) \in Nat /\ Loads(s) \in Nat /\ \A k \in IOType : pending[s][k] \in Nat
  BY <1>1, JobCounts DEF JobTypes
<1>3. /\ Connectors(s) \subseteq IOThread /\ Accepting(s) \subseteq IOThread
      /\ Delivering(s) \subseteq IOThread
  BY DEF Connectors, Accepting, Delivering
<1>4. /\ Cardinality(Connectors(s)) \in Nat /\ Cardinality(Accepting(s)) \in Nat
      /\ Cardinality(Delivering(s)) \in Nat
      /\ Cardinality(Connectors(s)) >= Bit(t, Connectors(s))
      /\ Cardinality(Accepting(s)) >= Bit(t, Accepting(s))
      /\ Cardinality(Delivering(s)) >= Bit(t, Delivering(s))
  BY <1>3, CountMember DEF Bit
<1>5. /\ Bit(t, Connectors(s)) \in {0, 1} /\ Bit(t, Accepting(s)) \in {0, 1}
      /\ Bit(t, Delivering(s)) \in {0, 1}
  BY BitType
<1>6. Connects(t, s) \in Int /\ Connects(t, s) <= 0
  <2>1. pending[s]["IO_ACCEPT"] + mConnected[s] + pending[s]["IO_DISCONNECT"]
          + Cardinality(Connectors(s)) <= IssueRef(s)
    BY <1>1 DEF ConnectOnce
  <2> QED
    BY <1>2, <1>4, <1>5, <2>1 DEF Connects, IOType
<1>7. LoadsOf(t, s) \in Nat /\ LoadsOf(t, s) <= 1
  <2>1. pending[s]["IO_ACCEPT"] + Cardinality(Accepting(s)) + Loads(s)
          + pending[s]["CK_DB_RESULT"] + Cardinality(Delivering(s)) <= 1
    BY <1>1 DEF LoadOnce
  <2> QED
    BY <1>2, <1>4, <1>5, <2>1 DEF LoadsOf, IOType
<1> QED
  BY <1>2, <1>6, <1>7

\* The contributions after a step.
LEMMA JobPrimes ==
  ASSUME NEW t \in IOThread, NEW s \in Session
  PROVE  /\ JobRefs(t, s)' = InFlight(s)' + Loads(s)' + Bit(t, JobHandlers(s)') + Bit(t, Creators(s)')
                               + IssueRef(s)'
         /\ Connects(t, s)' = pending'[s]["IO_ACCEPT"] + mConnected'[s] + pending'[s]["IO_DISCONNECT"]
                                + Bit(t, Connectors(s)') - IssueRef(s)'
         /\ LoadsOf(t, s)' = pending'[s]["IO_ACCEPT"] + Bit(t, Accepting(s)') + Loads(s)'
                               + pending'[s]["CK_DB_RESULT"] + Bit(t, Delivering(s)')
BY DEF JobRefs, Connects, LoadsOf, Bit

\* The places of the threads and the returns after such a step.
LEMMA JobFrame ==
  ASSUME JobLifeInv, SendInv, SendInv', NEW t \in IOThread, NEW s \in Session,
         StepOn(t, s), JobThreadOK(t)',
         \/ mRefCount[s] > 0 \/ Returning(t)
         \/ mRefCount'[s] = mRefCount[s] /\ ~Returning(t)',
         Returning(t)' => mRefCount'[s] = 0
  PROVE  /\ \A u \in IOThread : JobThreadOK(u)'
         /\ ReturnsOnce'
         /\ \A u \in IOThread : Returning(u) => ses[u] \in Session /\ mRefCount[ses[u]] = 0
         /\ Returning(t)' => ses'[t] = s
<1>1. /\ \A u \in IOThread \ {t} :
           /\ pc'[u] = pc[u] /\ ses'[u] = ses[u] /\ kind'[u] = kind[u]
           /\ fresh'[u] = fresh[u] /\ back'[u] = back[u] /\ packets'[u] = packets[u]
           /\ \A r \in Session : mSendBufferLock'[r] = u <=> mSendBufferLock[r] = u
      /\ ses[t] \in {s, None} /\ ses'[t] \in {s, None}
  BY DEF StepOn, StepOf
<1>2. ASSUME NEW u \in IOThread
      PROVE  /\ Returning(u) => ses[u] \in Session /\ mRefCount[ses[u]] = 0
             /\ Returning(u)' => ses'[u] \in Session
             /\ pc[u] # "idle" => ses[u] \in Session
  <2>1. Returning(u) => pc[u] # "idle"
    BY DEF Returning
  <2>2. Returning(u)' => pc'[u] # "idle"
    BY DEF Returning
  <2>3. pc'[u] # "idle" => ses'[u] \in Session
    BY DEF SendInv, SendingTypeOK, SendThreadOK
  <2> QED
    BY <2>1, <2>2, <2>3, HasSession DEF JobLifeInv, ReturnsOnce
<1>3. ASSUME NEW u \in IOThread PROVE JobThreadOK(u)'
  <2>1. CASE u = t
    BY <2>1
  <2>2. CASE u # t
    <3>1. JobThreadOK(u)
      BY DEF JobLifeInv
    <3>2. Returning(u)' <=> Returning(u)
      BY <1>1, <2>2 DEF Returning
    <3>3. Returning(u)' => back'[u] = "idle" \/ mSendBufferLock'[ses'[u]] = u
      BY <1>1, <1>2, <2>2, <3>1, <3>2 DEF JobThreadOK
    <3> QED
      BY <1>1, <2>2, <3>1, <3>3 DEF JobThreadOK
  <2> QED
    BY <2>1, <2>2
<1>4. \A u \in IOThread : u # t /\ Returning(u) /\ ses[u] = s =>
        mRefCount'[s] = mRefCount[s] /\ ~Returning(t)'
  <2> SUFFICES ASSUME NEW u \in IOThread, u # t, Returning(u), ses[u] = s
               PROVE  mRefCount'[s] = mRefCount[s] /\ ~Returning(t)'
    OBVIOUS
  <2>1. mRefCount[s] = 0
    BY <1>2
  <2>2. ~Returning(t)
    <3>1. Returning(t) => ses[t] = s
      BY <1>1, <1>2, SessionAssumption
    <3> QED
      BY <3>1 DEF JobLifeInv, ReturnsOnce
  <2> QED
    BY <2>1, <2>2
<1>5. \A u \in IOThread : u # t => (Returning(u)' <=> Returning(u)) /\ ses'[u] = ses[u]
  BY <1>1 DEF Returning
<1>6. ReturnsOnce'
  <2>1. ASSUME NEW u \in IOThread, Returning(u)' PROVE mRefCount'[ses'[u]] = 0
    <3>1. CASE u = t
      BY <1>1, <1>2, <2>1, <3>1, SessionAssumption
    <3>2. CASE u # t
      <4>1. Returning(u) /\ ses'[u] = ses[u] /\ mRefCount[ses[u]] = 0 /\ ses[u] \in Session
        BY <1>2, <1>5, <2>1, <3>2
      <4>2. mRefCount'[ses[u]] = mRefCount[ses[u]]
        BY <1>4, <3>2, <4>1 DEF StepOn
      <4> QED
        BY <4>1, <4>2
    <3> QED
      BY <3>1, <3>2
  <2>2. ASSUME NEW u \in IOThread, NEW v \in IOThread,
               Returning(u)', Returning(v)', ses'[u] = ses'[v]
        PROVE  u = v
    <3>1. Returning(t)' => ses'[t] = s
      BY <1>1, <1>2, SessionAssumption
    <3>2. CASE u = t \/ v = t
      BY <1>4, <1>5, <2>2, <3>1, <3>2
    <3>3. CASE u # t /\ v # t
      BY <1>5, <2>2, <3>3 DEF JobLifeInv, ReturnsOnce
    <3> QED
      BY <3>2, <3>3
  <2> QED
    BY <2>1, <2>2 DEF ReturnsOnce
<1> QED
  BY <1>1, <1>2, <1>3, <1>6, SessionAssumption

\* The invariant is put together again after such a step.
LEMMA JobStep ==
  ASSUME JobLifeInv, SendInv, SendInv', NEW t \in IOThread, NEW s \in Session,
         JobOnly(t, s), JobTypes', JobThreadOK(t)', ~crashed',
         mRefCount'[s] - JobRefs(t, s)' = mRefCount[s] - JobRefs(t, s),
         Connects(t, s)' <= Connects(t, s),
         LoadsOf(t, s)' <= LoadsOf(t, s),
         \/ mRefCount[s] > 0 \/ Returning(t)
         \/ mRefCount'[s] = mRefCount[s] /\ ~Returning(t)',
         Returning(t)' => mRefCount'[s] = 0,
         pending'[s]["IO_ACCEPT"] > 0 \/ t \in Accepting(s)' =>
           pending[s]["IO_ACCEPT"] > 0 \/ t \in Accepting(s),
         pending[s]["CK_DB_RESULT"] > 0 \/ t \in Delivering(s) =>
           pending'[s]["CK_DB_RESULT"] > 0 \/ t \in Delivering(s)'
  PROVE  JobLifeInv'
<1>1. /\ mFreeSessionList' = mFreeSessionList /\ mPlayerId' = mPlayerId /\ asked' = asked
      /\ requests' = requests /\ running' = running /\ results' = results
      /\ \A u \in IOThread \ {t} :
           /\ pc'[u] = pc[u] /\ ses'[u] = ses[u] /\ kind'[u] = kind[u]
           /\ fresh'[u] = fresh[u] /\ back'[u] = back[u] /\ packets'[u] = packets[u]
           /\ \A r \in Session : mSendBufferLock'[r] = u <=> mSendBufferLock[r] = u
      /\ ses[t] \in {s, None} /\ ses'[t] \in {s, None}
  BY DEF JobOnly, StepOn, StepOf, jobVars
<1>2. /\ \A u \in IOThread : Returning(u) => ses[u] \in Session /\ mRefCount[ses[u]] = 0
      /\ Returning(t)' => ses'[t] = s
      /\ \A u \in IOThread : JobThreadOK(u)'
      /\ ReturnsOnce'
  BY JobFrame DEF JobOnly
<1>5. \A u \in IOThread : u # t => (Returning(u)' <=> Returning(u)) /\ ses'[u] = ses[u]
  BY <1>1 DEF Returning
<1>7. CountsAll' /\ ConnectOnce' /\ LoadOnce'
  <2>1. StepOn(t, s) /\ Loads(s)' \in Nat /\ \A r \in Session \ {s} : Loads(r)' = Loads(r)
    BY JobElsewhere, JobBounds DEF JobOnly
  <2> QED
    BY <2>1, JobSums
<1>8. ASSUME NEW r \in Session
      PROVE  /\ pending'[r]["IO_ACCEPT"] > 0 \/ Accepting(r)' # {} =>
                  pending[r]["IO_ACCEPT"] > 0 \/ Accepting(r) # {}
             /\ pending[r]["CK_DB_RESULT"] > 0 \/ Delivering(r) # {} =>
                  pending'[r]["CK_DB_RESULT"] > 0 \/ Delivering(r)' # {}
  <2>1. CASE r = s
    <3>1. \A u \in IOThread : u # t =>
            /\ u \in Accepting(s) <=> u \in Accepting(s)'
            /\ u \in Delivering(s) <=> u \in Delivering(s)'
      BY <1>1 DEF Accepting, Delivering
    <3>2. /\ Accepting(s) \subseteq IOThread /\ Accepting(s)' \subseteq IOThread
          /\ Delivering(s) \subseteq IOThread /\ Delivering(s)' \subseteq IOThread
      BY DEF Accepting, Delivering
    <3> QED
      BY <2>1, <3>1, <3>2
  <2>2. CASE r # s
    BY <2>2, JobSets, JobElsewhere DEF JobOnly
  <2> QED
    BY <2>1, <2>2
<1>9. RowsAsked'
  <2>1. RowsAsked
    BY DEF JobLifeInv
  <2>2. ASSUME NEW r \in Session
        PROVE  /\ mPlayerId'[r] \in {NoPlayer, asked'[r]}
               /\ pending'[r]["IO_ACCEPT"] > 0 \/ Accepting(r)' # {} => mPlayerId'[r] = NoPlayer
    BY <1>1, <1>8, <2>1 DEF RowsAsked
  <2> QED
    BY <1>1, <2>1, <2>2 DEF RowsAsked
<1>10. ResultsPosted'
  <2>1. ResultsPosted /\ results \subseteq Context
    BY DEF JobLifeInv, JobTypes
  <2>2. \A c \in results : c.mSessionObject \in Session
    BY <2>1 DEF Context
  <2>3. ASSUME NEW c \in results
        PROVE  pending'[c.mSessionObject]["CK_DB_RESULT"] > 0 \/ Delivering(c.mSessionObject)' # {}
    <3>1. pending[c.mSessionObject]["CK_DB_RESULT"] > 0 \/ Delivering(c.mSessionObject) # {}
      BY <2>1 DEF ResultsPosted
    <3> QED
      BY <1>8, <2>2, <3>1
  <2>4. \A c \in results : \A e \in results : c.mSessionObject = e.mSessionObject => c = e
    BY <2>1 DEF ResultsPosted
  <2> QED
    BY <1>1, <2>3, <2>4 DEF ResultsPosted
<1>11. PoolOK'
  <2>1. PoolOK
    BY DEF JobLifeInv
  <2>2. Free' = Free /\ Free \subseteq Session
    <3>1. mFreeSessionList \in Seq(Session)
      BY DEF JobLifeInv, JobTypes
    <3>2. \A i \in 1 .. Len(mFreeSessionList) : mFreeSessionList[i] \in Session
      BY <3>1
    <3> QED
      BY <1>1, <3>2 DEF Free
  <2>3. ASSUME NEW r \in Free
        PROVE  /\ mRefCount'[r] = 0 /\ mPlayerId'[r] = NoPlayer
               /\ \A u \in IOThread : Returning(u)' => ses'[u] # r
    <3>1. /\ mRefCount[r] = 0 /\ mPlayerId[r] = NoPlayer
          /\ \A u \in IOThread : Returning(u) => ses[u] # r
      BY <2>1 DEF PoolOK
    <3>2. CASE r = s
      <4>1. ~Returning(t)
        BY <1>1, <1>2, <3>1, <3>2, SessionAssumption
      <4>2. mRefCount'[s] = mRefCount[s] /\ ~Returning(t)'
        BY <3>1, <3>2, <4>1
      <4> QED
        BY <1>1, <1>5, <3>1, <3>2, <4>2
    <3>3. CASE r # s
      <4>1. Returning(t)' => ses'[t] = s
        BY <1>1, <1>2, SessionAssumption
      <4> QED
        BY <1>1, <1>5, <2>2, <3>1, <3>3, <4>1 DEF JobOnly, StepOn
    <3> QED
      BY <3>2, <3>3
  <2>4. \A i, j \in 1 .. Len(mFreeSessionList') :
          mFreeSessionList'[i] = mFreeSessionList'[j] => i = j
    BY <1>1, <2>1 DEF PoolOK
  <2> QED
    BY <2>2, <2>3, <2>4 DEF PoolOK
<1> QED
  BY <1>2, <1>7, <1>9, <1>10, <1>11 DEF JobLifeInv

-----------------------------------------------------------------------------
(* Steps that only move a thread.                                          *)

LEMMA JobQuiet ==
  ASSUME JobLifeInv, SendInv, SendInv', NEW t \in IOThread, NEW s \in Session,
         StepOf(t), \A u \in IOThread \ {t} : packets'[u] = packets[u],
         UNCHANGED <<mConnected, mRefCount, pending, issued, crashed, mFreeSessionList, jobVars>>,
         ses[t] \in {s, None}, ses'[t] \in {s, None},
         JobThreadOK(t)', ~Returning(t)',
         t \in JobHandlers(s)' <=> t \in JobHandlers(s),
         t \in Creators(s)' <=> t \in Creators(s),
         t \in Connectors(s)' => t \in Connectors(s),
         t \in Accepting(s)' => t \in Accepting(s),
         t \in Delivering(s)' <=> t \in Delivering(s)
  PROVE  JobLifeInv'
<1>1. JobOnly(t, s)
  BY DEF JobOnly, StepOn
<1>2. JobTypes /\ JobTypes' /\ ~crashed'
  BY DEF JobLifeInv, JobTypes, jobVars
<1>3. /\ Bit(t, JobHandlers(s)') = Bit(t, JobHandlers(s))
      /\ Bit(t, Creators(s)') = Bit(t, Creators(s))
      /\ Bit(t, Connectors(s)') <= Bit(t, Connectors(s))
      /\ Bit(t, Accepting(s)') <= Bit(t, Accepting(s))
      /\ Bit(t, Delivering(s)') = Bit(t, Delivering(s))
      /\ \A S : Bit(t, S) \in {0, 1}
  BY DEF Bit
<1>4. /\ Loads(s)' = Loads(s) /\ InFlight(s)' = InFlight(s) /\ IssueRef(s)' = IssueRef(s)
      /\ Loads(s) \in Nat /\ IssueRef(s) \in {0, 1} /\ mConnected[s] \in {0, 1}
      /\ \A k \in IOType : pending[s][k] \in Nat
  BY <1>1, <1>2, JobElsewhere, JobCounts DEF InFlight, IssueRef, JobTypes
<1>5. JobRefs(t, s)' = JobRefs(t, s)
  <2>1. JobRefs(t, s)' = InFlight(s)' + Loads(s)' + Bit(t, JobHandlers(s)') + Bit(t, Creators(s)')
                           + IssueRef(s)'
    BY DEF JobRefs, Bit
  <2> QED
    BY <1>3, <1>4, <2>1 DEF JobRefs
<1>6. Connects(t, s)' <= Connects(t, s)
  <2>1. Connects(t, s)' = pending[s]["IO_ACCEPT"] + mConnected[s] + pending[s]["IO_DISCONNECT"]
                            + Bit(t, Connectors(s)') - IssueRef(s)'
    BY DEF Connects, Bit
  <2> QED
    BY <1>3, <1>4, <2>1 DEF Connects, IOType
<1>7. LoadsOf(t, s)' <= LoadsOf(t, s)
  <2>1. LoadsOf(t, s)' = pending[s]["IO_ACCEPT"] + Bit(t, Accepting(s)') + Loads(s)'
                           + pending[s]["CK_DB_RESULT"] + Bit(t, Delivering(s)')
    BY DEF LoadsOf, Bit
  <2> QED
    BY <1>3, <1>4, <2>1 DEF LoadsOf, IOType
<1> QED
  BY <1>1, <1>2, <1>5, <1>6, <1>7, JobStep

\* Where a thread is, as far as the invariant tells places apart.
ConnectsNow(t) == pc[t] \in {"accept", "disconnected"} \/ fresh[t] = "IO_DISCONNECT"

\* The thread keeps its context and its session.
LEMMA JobMove ==
  ASSUME JobLifeInv, SendInv, SendInv', NEW t \in IOThread, pc[t] # "idle",
         StepOf(t), \A u \in IOThread \ {t} : packets'[u] = packets[u],
         UNCHANGED <<mConnected, mRefCount, pending, issued, crashed, mFreeSessionList, jobVars,
                     ses, kind, back>>,
         JobThreadOK(t)', ~Returning(t), ~Returning(t)',
         pc'[t] \in {"issue", "undo"} <=> pc[t] \in {"issue", "undo"},
         ConnectsNow(t)' => ConnectsNow(t),
         pc[t] # "finish",
         kind[t] = "CK_DB_RESULT" => (pc[t] = "send" <=> pc'[t] = "send")
  PROVE  JobLifeInv'
<1>1. PICK s \in Session : ses[t] = s
  BY HasSession
<1>2. /\ t \in JobHandlers(s)' <=> t \in JobHandlers(s)
      /\ t \in Creators(s)' <=> t \in Creators(s)
      /\ t \in Connectors(s)' => t \in Connectors(s)
      /\ t \in Delivering(s)' <=> t \in Delivering(s)
  BY <1>1 DEF JobHandlers, Handlers, Creators, Connectors, ConnectsNow, Delivering, Returning
<1>3. t \in Accepting(s)' => t \in Accepting(s)
  BY <1>1 DEF Accepting, Returning
<1> QED
  BY <1>1, <1>2, <1>3, JobQuiet

\* The thread goes to label l with a fresh context of type k, or none.
LEMMA JobGoto ==
  ASSUME JobLifeInv, SendInv, SendInv', NEW t \in IOThread,
         NEW l \in Label \ {"idle", "return", "reset", "accept", "disconnected"},
         NEW k \in RecvTypes \union {"none", "IO_SEND", "IO_DISCONNECT"},
         pc' = [pc EXCEPT ![t] = l], fresh' = [fresh EXCEPT ![t] = k],
         UNCHANGED <<mConnected, mRefCount, pending, issued, crashed, mFreeSessionList, jobVars,
                     ses, kind, back>>,
         \A u \in IOThread \ {t} :
           /\ packets'[u] = packets[u] /\ LSendRequestSessionList'[u] = LSendRequestSessionList[u]
           /\ \A r \in Session : mSendBufferLock'[r] = u <=> mSendBufferLock[r] = u,
         packets'[t] > 0 => packets[t] > 0 /\ pc[t] # "parse",
         pc[t] \notin {"idle", "finish", "return", "reset"},
         l \in {"issue", "undo"} <=> pc[t] \in {"issue", "undo"},
         k = "IO_DISCONNECT" => fresh[t] = "IO_DISCONNECT",
         kind[t] = "CK_DB_RESULT" => (pc[t] = "send" <=> l = "send"),
         l \in {"prerecv", "postrecv"} \/ k \in RecvTypes => kind[t] # "flush",
         l \in {"setup", "subscribe"} => kind[t] = "IO_ACCEPT",
         l = "parse" => kind[t] = "IO_RECV",
         k = "IO_SEND" => kind[t] = "flush"
  PROVE  JobLifeInv'
<1>1. /\ pc'[t] = l /\ fresh'[t] = k
      /\ \A u \in IOThread \ {t} : pc'[u] = pc[u] /\ fresh'[u] = fresh[u]
  BY DEF SendInv, SendingTypeOK
<1>2. StepOf(t)
  BY <1>1 DEF StepOf
<1>3. ~Returning(t) /\ ~Returning(t)'
  BY <1>1 DEF Returning
<1>4. JobThreadOK(t)
  BY DEF JobLifeInv
<1>5. JobThreadOK(t)'
  BY <1>1, <1>3, <1>4 DEF JobThreadOK
<1>6. ConnectsNow(t)' => ConnectsNow(t)
  BY <1>1 DEF ConnectsNow
<1> QED
  BY <1>1, <1>2, <1>3, <1>5, <1>6, JobMove

\* The handlers of DoIocpJob that only go on.
LEMMA JobHandlerMoves ==
  ASSUME JobLifeInv, SendInv, SendInv', NEW t \in IOThread, UNCHANGED <<sendVars, jobVars>>,
         \/ \E ok \in BOOLEAN : AcceptSetup(t, ok)
         \/ PreRecv(t)
         \/ \E full \in BOOLEAN : PostRecv(t, full)
         \/ IssueFails(t) \/ ParseEnd(t)
         \/ kind[t] = "IO_RECV" /\ BeginSend(t, FALSE)
  PROVE  JobLifeInv'
<1>1. /\ JobThreadOK(t) /\ SendThreadOK(t) /\ packets[t] \in Nat /\ packets \in [IOThread -> Nat]
      /\ kind[t] \in IOType \union {"none", "flush"}
      /\ fresh \in [IOThread -> RecvTypes \union {"none", "IO_SEND", "IO_DISCONNECT"}]
      /\ fresh[t] # "none" <=> pc[t] \in Creating
  BY DEF JobLifeInv, SendInv, SendingTypeOK, SendThreadOK
<1>2. LSendRequestSessionList' = LSendRequestSessionList
  BY DEF sendVars
<1>3. fresh = [fresh EXCEPT ![t] = fresh[t]]
  BY <1>1
<1>4. ASSUME NEW l, NEW k \in RecvTypes \union {"none", "IO_SEND", "IO_DISCONNECT"},
             pc' = [pc EXCEPT ![t] = l], fresh' = [fresh EXCEPT ![t] = k],
             UNCHANGED <<mConnected, mRefCount, pending, issued, crashed, mFreeSessionList,
                         ses, kind, back, mSendBufferLock>>,
             \A u \in IOThread \ {t} : packets'[u] = packets[u],
             packets'[t] > 0 => packets[t] > 0 /\ pc[t] # "parse",
             \/ pc[t] = "issue" /\ l = "undo" /\ k = fresh[t]
             \/ /\ pc[t] \in {"setup", "prerecv", "postrecv", "parse", "send"}
                /\ l \in {"prerecv", "disconnect", "create", "subscribe", "send", "lock", "parse", "finish"}
                /\ k \in RecvTypes \union {"none"},
             kind[t] # "CK_DB_RESULT" \/ (pc[t] # "send" /\ l # "send"),
             l \in {"prerecv", "postrecv"} \/ k \in RecvTypes => kind[t] # "flush",
             l \in {"setup", "subscribe"} => kind[t] = "IO_ACCEPT",
             l = "parse" => kind[t] = "IO_RECV"
      PROVE  JobLifeInv'
  <2>1. /\ l \in Label \ {"idle", "return", "reset", "accept", "disconnected"}
        /\ pc[t] \notin {"idle", "finish", "return", "reset"}
        /\ l \in {"issue", "undo"} <=> pc[t] \in {"issue", "undo"}
    BY <1>4 DEF Label
  <2>2. /\ k = "IO_DISCONNECT" => fresh[t] = "IO_DISCONNECT"
        /\ k = "IO_SEND" => kind[t] = "flush"
    BY <1>1, <1>4 DEF RecvTypes, JobThreadOK
  <2> QED
    BY <1>2, <1>4, <2>1, <2>2, JobGoto
<1>5. ASSUME NEW ok \in BOOLEAN, AcceptSetup(t, ok) PROVE JobLifeInv'
  <2>1. PICK l : l = IF ok THEN "prerecv" ELSE "disconnect"
    OBVIOUS
  <2>2. pc[t] = "setup" /\ fresh[t] = "none" /\ kind[t] = "IO_ACCEPT"
    BY <1>1, <1>5 DEF AcceptSetup, JobThreadOK, Creating
  <2>3. /\ pc' = [pc EXCEPT ![t] = l] /\ fresh' = [fresh EXCEPT ![t] = "none"]
        /\ UNCHANGED <<mConnected, mRefCount, pending, issued, crashed, mFreeSessionList,
                       ses, kind, back, mSendBufferLock, packets>>
    BY <1>3, <1>5, <2>1, <2>2 DEF AcceptSetup, Goto, Local, sessionVars, poolVars
  <2>4. l \in {"prerecv", "disconnect"}
    BY <2>1
  <2> QED
    BY <1>4, <2>2, <2>3, <2>4
<1>6. ASSUME NEW test, NEW k \in RecvTypes, CreateIf(t, test, k, AfterRefusedRecv(t)),
             pc[t] \in {"prerecv", "postrecv"}, Local, UNCHANGED <<sessionVars, crashed>>
      PROVE  JobLifeInv'
  <2>1. PICK l \in {"create", "subscribe", "disconnect"}, j \in RecvTypes \union {"none"} :
          /\ pc' = [pc EXCEPT ![t] = l] /\ fresh' = [fresh EXCEPT ![t] = j]
          /\ l = "subscribe" => kind[t] = "IO_ACCEPT"
    <3>1. fresh[t] = "none"
      BY <1>1, <1>6 DEF Creating
    <3>2. CASE test
      <4>1. pc' = [pc EXCEPT ![t] = "create"] /\ fresh' = [fresh EXCEPT ![t] = k]
        BY <1>6, <3>2 DEF CreateIf, Goto
      <4> QED
        BY <4>1
    <3>3. CASE ~test
      <4>1. pc' = [pc EXCEPT ![t] = AfterRefusedRecv(t)] /\ fresh' = [fresh EXCEPT ![t] = "none"]
        BY <1>3, <1>6, <3>1, <3>3 DEF CreateIf, Goto
      <4>2. /\ AfterRefusedRecv(t) \in {"subscribe", "disconnect"}
            /\ AfterRefusedRecv(t) = "subscribe" => kind[t] = "IO_ACCEPT"
        BY DEF AfterRefusedRecv
      <4> QED
        BY <4>1, <4>2
    <3> QED
      BY <3>2, <3>3
  <2>2. UNCHANGED <<mConnected, mRefCount, pending, issued, crashed, mFreeSessionList,
                    ses, kind, back, mSendBufferLock, packets>>
    BY <1>6 DEF Local, sessionVars, poolVars
  <2>3. kind[t] # "flush"
    BY <1>1, <1>6 DEF JobThreadOK
  <2>4. pc[t] # "send" /\ l # "send"
    BY <1>6
  <2> QED
    BY <1>4, <1>6, <2>1, <2>2, <2>3, <2>4
<1>7. CASE PreRecv(t)
  <2>1. "IO_RECV_ZERO" \in RecvTypes
    BY DEF RecvTypes
  <2> QED
    BY <1>6, <1>7, <2>1 DEF PreRecv
<1>8. ASSUME NEW full \in BOOLEAN, PostRecv(t, full) PROVE JobLifeInv'
  <2>1. "IO_RECV" \in RecvTypes
    BY DEF RecvTypes
  <2> QED
    BY <1>6, <1>8, <2>1 DEF PostRecv
<1>9. CASE IssueFails(t)
  <2>1. /\ pc[t] = "issue" /\ pc' = [pc EXCEPT ![t] = "undo"]
        /\ fresh' = [fresh EXCEPT ![t] = fresh[t]]
        /\ UNCHANGED <<mConnected, mRefCount, pending, issued, crashed, mFreeSessionList,
                       ses, kind, back, mSendBufferLock, packets>>
    BY <1>3, <1>9 DEF IssueFails, Goto, Local, sessionVars, poolVars
  <2>2. /\ fresh[t] \in RecvTypes \union {"none", "IO_SEND", "IO_DISCONNECT"}
        /\ fresh[t] \in RecvTypes => kind[t] # "flush"
    BY <1>1 DEF JobThreadOK
  <2> QED
    BY <1>4, <2>1, <2>2
<1>10. CASE ParseEnd(t)
  <2>1. /\ pc[t] = "parse" /\ pc' = [pc EXCEPT ![t] = "send"]
        /\ fresh' = [fresh EXCEPT ![t] = fresh[t]] /\ packets' = [packets EXCEPT ![t] = 0]
        /\ UNCHANGED <<mConnected, mRefCount, pending, issued, crashed, mFreeSessionList,
                       ses, kind, back, mSendBufferLock>>
    BY <1>3, <1>10 DEF ParseEnd, Goto, sessionVars, poolVars
  <2>2. kind[t] = "IO_RECV" /\ fresh[t] = "none"
    BY <1>1, <2>1 DEF JobThreadOK, Creating
  <2>3. packets'[t] = 0 /\ \A u \in IOThread \ {t} : packets'[u] = packets[u]
    BY <1>1, <2>1
  <2>4. fresh' = [fresh EXCEPT ![t] = "none"] /\ ~(packets'[t] > 0)
    BY <2>1, <2>2, <2>3
  <2> QED
    BY <1>4, <2>1, <2>2, <2>3, <2>4
<1>11. CASE kind[t] = "IO_RECV" /\ BeginSend(t, FALSE)
  <2>1. PICK l \in {"lock", "parse", "prerecv", "finish"} : Goto(t, l)
    BY <1>11, GoesOn DEF BeginSend
  <2>2. /\ pc[t] = "send" /\ pc' = [pc EXCEPT ![t] = l]
        /\ fresh' = [fresh EXCEPT ![t] = fresh[t]]
        /\ UNCHANGED <<mConnected, mRefCount, pending, issued, crashed, mFreeSessionList,
                       ses, kind, back, mSendBufferLock, packets>>
    BY <1>3, <1>11, <2>1 DEF BeginSend, Goto, Local, sessionVars, poolVars
  <2>3. fresh[t] = "none"
    BY <1>1, <2>2 DEF Creating
  <2> QED
    BY <1>4, <1>11, <2>2, <2>3
<1> QED
  BY <1>5, <1>7, <1>8, <1>9, <1>10, <1>11

\* The send path: PostSend, SendCompletion, and FlushSend up to its context.
LEMMA JobSendMoves ==
  ASSUME JobLifeInv, SendInv, SendInv', NEW t \in IOThread, UNCHANGED jobVars,
         \/ kind[t] = "IO_RECV" /\ \E full \in BOOLEAN : PostSend(t, full)
         \/ \E len \in 1 .. MaxStored : FlushedSendCompletion(t, len)
         \/ kind[t] = "flush" /\ FlushPosts(t)
  PROVE  JobLifeInv'
<1>1. /\ JobThreadOK(t) /\ SendThreadOK(t)
      /\ LSendRequestSessionList \in [IOThread -> Seq(Session)]
      /\ mSendBufferLock \in [Session -> IOThread \union {None}]
      /\ fresh \in [IOThread -> RecvTypes \union {"none", "IO_SEND", "IO_DISCONNECT"}]
      /\ fresh[t] # "none" <=> pc[t] \in Creating
  BY DEF JobLifeInv, SendInv, SendingTypeOK, SendThreadOK
<1>2. fresh[t] = "none" => fresh = [fresh EXCEPT ![t] = "none"]
  BY <1>1
<1>3. ASSUME NEW full \in BOOLEAN, kind[t] = "IO_RECV", PostSend(t, full) PROVE JobLifeInv'
  <2>1. PICK l \in {"parse", "prerecv", "finish"} : l = AfterSend(t)
    BY GoesOn
  <2>2. /\ pc[t] = "lock" /\ pc' = [pc EXCEPT ![t] = l]
        /\ UNCHANGED <<mConnected, mRefCount, pending, issued, crashed, mFreeSessionList,
                       ses, kind, back, mSendBufferLock, packets, fresh>>
        /\ \/ LSendRequestSessionList' = LSendRequestSessionList
           \/ LSendRequestSessionList' = [LSendRequestSessionList EXCEPT ![t] = Append(@, ses[t])]
    BY <1>3, <2>1 DEF PostSend, Goto, Local, sessionVars, poolVars
  <2>3. fresh[t] = "none" /\ fresh' = [fresh EXCEPT ![t] = "none"]
    BY <1>1, <1>2, <2>2 DEF Creating
  <2>4. \A u \in IOThread \ {t} : LSendRequestSessionList'[u] = LSendRequestSessionList[u]
    BY <1>1, <2>2
  <2>5. l \in Label \ {"idle", "return", "reset", "accept", "disconnected"}
    BY DEF Label
  <2>6. "none" \notin RecvTypes
    BY DEF RecvTypes
  <2> QED
    BY <1>3, <2>2, <2>3, <2>4, <2>5, <2>6, JobGoto
<1>4. ASSUME NEW len \in 1 .. MaxStored, FlushedSendCompletion(t, len) PROVE JobLifeInv'
  <2>1. PICK l \in {"disconnect", "finish"} : pc' = [pc EXCEPT ![t] = l]
    BY <1>4 DEF FlushedSendCompletion, Goto
  <2>2. /\ pc[t] = "sent"
        /\ UNCHANGED <<mConnected, mRefCount, pending, issued, crashed, mFreeSessionList,
                       ses, kind, back, mSendBufferLock, packets, fresh, LSendRequestSessionList>>
    BY <1>4 DEF FlushedSendCompletion, Local, sessionVars, poolVars
  <2>3. fresh[t] = "none" /\ fresh' = [fresh EXCEPT ![t] = "none"]
    BY <1>1, <1>2, <2>2 DEF Creating
  <2>4. kind[t] = "IO_SEND"
    BY <1>1, <2>2 DEF SendThreadOK
  <2>5. l \in Label \ {"idle", "return", "reset", "accept", "disconnected"}
    BY DEF Label
  <2>6. "none" \notin RecvTypes
    BY DEF RecvTypes
  <2> QED
    BY <2>1, <2>2, <2>3, <2>4, <2>5, <2>6, JobGoto
<1>5. ASSUME kind[t] = "flush", FlushPosts(t) PROVE JobLifeInv'
  <2>1. /\ pc[t] = "lock" /\ pc' = [pc EXCEPT ![t] = "create"]
        /\ fresh' = [fresh EXCEPT ![t] = "IO_SEND"]
        /\ mSendBufferLock[ses[t]] = None
        /\ mSendBufferLock' = [mSendBufferLock EXCEPT ![ses[t]] = t]
        /\ UNCHANGED <<mConnected, mRefCount, pending, issued, crashed, mFreeSessionList,
                       ses, kind, back, packets, LSendRequestSessionList>>
    BY <1>5 DEF FlushPosts, CreateIf, Goto, Local, sessionVars, poolVars
  <2>2. \A u \in IOThread \ {t}, r \in Session : mSendBufferLock'[r] = u <=> mSendBufferLock[r] = u
    BY <1>1, <2>1, ThreadAssumption
  <2>3. "create" \in Label \ {"idle", "return", "reset", "accept", "disconnected"}
    BY DEF Label
  <2>4. "IO_SEND" \notin RecvTypes
    BY DEF RecvTypes
  <2> QED
    BY <1>5, <2>1, <2>2, <2>3, <2>4, JobGoto
<1> QED
  BY <1>3, <1>4, <1>5

\* DoSendJob takes a session from its list, and leaves it.
LEMMA JobFlushTurns ==
  ASSUME JobLifeInv, SendInv, SendInv', NEW t \in IOThread, UNCHANGED jobVars,
         FlushBegin(t) \/ (kind[t] = "flush" /\ (FlushWaits(t) \/ FlushEnd(t)))
  PROVE  JobLifeInv'
<1>1. /\ JobThreadOK(t) /\ SendThreadOK(t) /\ SendingTypeOK
  BY DEF JobLifeInv, SendInv
<1>2. CASE FlushBegin(t)
  <2>1. PICK s \in Session, l \in {"lock", "disconnect"} :
          /\ ses' = [ses EXCEPT ![t] = s] /\ pc' = [pc EXCEPT ![t] = l]
    <3>1. Head(LSendRequestSessionList[t]) \in Session
      BY <1>1, <1>2, HeadTailProperties DEF SendingTypeOK, FlushBegin
    <3> QED
      BY <1>2, <3>1 DEF FlushBegin, Goto
  <2>2. /\ pc[t] = "idle" /\ kind' = [kind EXCEPT ![t] = "flush"]
        /\ UNCHANGED <<mConnected, mRefCount, pending, issued, crashed, mFreeSessionList,
                       fresh, back, packets, mSendBufferLock, LSendRequestSessionList>>
    BY <1>2 DEF FlushBegin, sessionVars, poolVars, sendVars
  <2>3. /\ pc'[t] = l /\ ses'[t] = s /\ kind'[t] = "flush" /\ ses[t] = None /\ fresh[t] = "none"
        /\ \A u \in IOThread \ {t} : pc'[u] = pc[u] /\ ses'[u] = ses[u] /\ kind'[u] = kind[u]
    BY <1>1, <2>1, <2>2 DEF SendingTypeOK, SendThreadOK, Creating
  <2>4. StepOf(t)
    BY <2>2, <2>3 DEF StepOf
  <2>5. ~(packets'[t] > 0)
    BY <1>1, <2>2 DEF JobThreadOK
  <2>6. JobThreadOK(t)' /\ ~Returning(t)'
    BY <2>2, <2>3, <2>5 DEF JobThreadOK, Returning, RecvTypes
  <2>7. /\ t \notin JobHandlers(s) /\ t \notin Creators(s) /\ t \notin Delivering(s)
        /\ t \notin JobHandlers(s)' /\ t \notin Creators(s)' /\ t \notin Connectors(s)'
        /\ t \notin Accepting(s)' /\ t \notin Delivering(s)'
    BY <2>2, <2>3, SessionAssumption
    DEF JobHandlers, Handlers, Creators, Connectors, Accepting, Delivering
  <2> QED
    BY <2>2, <2>3, <2>4, <2>6, <2>7, JobQuiet
<1>3. CASE kind[t] = "flush" /\ (FlushWaits(t) \/ FlushEnd(t))
  <2>1. PICK s \in Session : ses[t] = s
    BY <1>3, HasSession DEF FlushWaits, FlushEnd
  <2>2. /\ pc[t] \in {"lock", "unlock", "finish"}
        /\ pc' = [pc EXCEPT ![t] = "idle"] /\ ses' = [ses EXCEPT ![t] = None]
        /\ kind' = [kind EXCEPT ![t] = "none"]
        /\ UNCHANGED <<mConnected, mRefCount, pending, issued, crashed, mFreeSessionList,
                       fresh, back, packets>>
        /\ \/ mSendBufferLock' = mSendBufferLock
           \/ pc[t] = "unlock" /\ mSendBufferLock' = [mSendBufferLock EXCEPT ![s] = None]
        /\ \/ LSendRequestSessionList' = LSendRequestSessionList
           \/ LSendRequestSessionList' = [LSendRequestSessionList EXCEPT ![t] = Tail(@)]
    BY <1>3, <2>1 DEF FlushWaits, FlushEnd, FlushReturns, Goto, sessionVars, poolVars
  <2>3. /\ pc'[t] = "idle" /\ ses'[t] = None /\ kind'[t] = "none" /\ fresh[t] = "none"
        /\ \A u \in IOThread \ {t} :
             /\ pc'[u] = pc[u] /\ ses'[u] = ses[u] /\ kind'[u] = kind[u]
             /\ LSendRequestSessionList'[u] = LSendRequestSessionList[u]
    BY <1>1, <2>2 DEF SendingTypeOK, SendThreadOK, Creating
  <2>4. \A u \in IOThread \ {t}, r \in Session : mSendBufferLock'[r] = u <=> mSendBufferLock[r] = u
    <3>1. pc[t] = "unlock" => mSendBufferLock[s] = t
      BY <1>1, <2>1 DEF SendThreadOK
    <3> QED
      BY <1>1, <2>2, <3>1, ThreadAssumption DEF SendingTypeOK
  <2>5. StepOf(t)
    BY <2>2, <2>3, <2>4 DEF StepOf
  <2>6. ~(packets'[t] > 0)
    BY <1>1, <1>3, <2>2 DEF JobThreadOK
  <2>7. JobThreadOK(t)' /\ ~Returning(t)'
    BY <2>2, <2>3, <2>6 DEF JobThreadOK, Returning, RecvTypes
  <2>8. /\ t \notin JobHandlers(s) /\ t \notin Creators(s) /\ t \notin Delivering(s)
        /\ t \notin JobHandlers(s)' /\ t \notin Creators(s)' /\ t \notin Connectors(s)'
        /\ t \notin Accepting(s)' /\ t \notin Delivering(s)'
    BY <1>3, <2>2, <2>3, SessionAssumption
    DEF JobHandlers, Handlers, Creators, Connectors, Accepting, Delivering
  <2> QED
    BY <2>1, <2>2, <2>3, <2>5, <2>7, <2>8, JobQuiet
<1> QED
  BY <1>2, <1>3

-----------------------------------------------------------------------------
(* Steps that count.                                                       *)

\* AcceptCompletion finds the session unconnected: t itself is the one that
\* connects it.
LEMMA JobAcceptCompletion ==
  ASSUME JobLifeInv, SendInv, SendInv', NEW t \in IOThread, UNCHANGED <<sendVars, jobVars>>,
         AcceptCompletion(t)
  PROVE  JobLifeInv'
<1>1. PICK s \in Session : ses[t] = s
  BY HasSession DEF AcceptCompletion
<1>2. JobThreadOK(t) /\ SendThreadOK(t) /\ SendingTypeOK /\ JobTypes
  BY DEF JobLifeInv, SendInv
<1>3. /\ pc[t] = "accept" /\ pc' = [pc EXCEPT ![t] = "setup"]
      /\ mConnected' = [mConnected EXCEPT ![s] = 1] /\ crashed' = (mConnected[s] = 1)
      /\ UNCHANGED <<mRefCount, pending, issued, mFreeSessionList, mSendBufferLock, fresh,
                     ses, kind, back, packets, LSendRequestSessionList>>
  BY <1>1 DEF AcceptCompletion, Goto, Local, poolVars, sendVars
<1>4. /\ pc'[t] = "setup" /\ \A u \in IOThread \ {t} : pc'[u] = pc[u]
      /\ fresh[t] = "none" /\ kind[t] = "IO_ACCEPT"
      /\ mConnected'[s] = 1 /\ \A r \in Session \ {s} : mConnected'[r] = mConnected[r]
      /\ mConnected' \in [Session -> {0, 1}]
  BY <1>2, <1>3 DEF SendingTypeOK, SendThreadOK, JobThreadOK, JobTypes, Creating
<1>5. JobOnly(t, s)
  BY <1>1, <1>3, <1>4 DEF JobOnly, StepOn, StepOf
<1>6. JobTypes'
  BY <1>2, <1>3, <1>4 DEF JobTypes, jobVars
<1>7. JobThreadOK(t)' /\ ~Returning(t)'
  BY <1>2, <1>3, <1>4 DEF JobThreadOK, Returning, RecvTypes
<1>8. /\ t \in JobHandlers(s) /\ t \in JobHandlers(s)'
      /\ t \notin Creators(s) /\ t \notin Creators(s)'
      /\ t \in Connectors(s) /\ t \notin Connectors(s)'
      /\ t \in Accepting(s) /\ t \in Accepting(s)'
      /\ t \notin Delivering(s) /\ t \notin Delivering(s)'
  BY <1>1, <1>3, <1>4 DEF JobHandlers, Handlers, Creators, Connectors, Accepting, Delivering
<1>9. /\ Loads(s)' = Loads(s) /\ InFlight(s)' = InFlight(s) /\ IssueRef(s)' = IssueRef(s)
  BY <1>3, <1>5, JobElsewhere DEF InFlight, IssueRef
<1>10. /\ Bit(t, JobHandlers(s)) = 1 /\ Bit(t, JobHandlers(s)') = 1
       /\ Bit(t, Creators(s)) = 0 /\ Bit(t, Creators(s)') = 0
       /\ Bit(t, Connectors(s)) = 1 /\ Bit(t, Connectors(s)') = 0
       /\ Bit(t, Accepting(s)) = 1 /\ Bit(t, Accepting(s)') = 1
       /\ Bit(t, Delivering(s)) = 0 /\ Bit(t, Delivering(s)') = 0
  BY <1>8 DEF Bit
<1>11. mConnected[s] = 0 /\ ~crashed'
  <2>1. mConnected[s] = 0
    BY <1>10, JobBounds DEF Connects, IOType
  <2>2. ~(mConnected[s] = 1)
    BY <2>1
  <2> QED
    BY <1>3, <2>1, <2>2
<1>12. mRefCount'[s] - JobRefs(t, s)' = mRefCount[s] - JobRefs(t, s)
  BY <1>3, <1>9, <1>10, JobPrimes DEF JobRefs
<1>13. Connects(t, s)' <= Connects(t, s)
  BY <1>3, <1>4, <1>9, <1>10, <1>11, JobPrimes, JobBounds DEF Connects, IOType
<1>14. LoadsOf(t, s)' <= LoadsOf(t, s)
  BY <1>3, <1>9, <1>10, JobPrimes, JobBounds DEF LoadsOf, IOType
<1> QED
  BY <1>3, <1>5, <1>6, <1>7, <1>8, <1>11, <1>12, <1>13, <1>14, JobStep

\* The constructor of OverlappedIOContext, on a session that somebody refers to:
\* AddRef, and t is a creator from here on.
LEMMA JobNewContext ==
  ASSUME JobLifeInv, SendInv, SendInv', NEW t \in IOThread, UNCHANGED <<sendVars, jobVars>>,
         NewContext(t), ~Revives(t)
  PROVE  JobLifeInv'
<1>1. PICK s \in Session : ses[t] = s
  BY HasSession DEF NewContext
<1>2. JobThreadOK(t) /\ SendThreadOK(t) /\ SendingTypeOK /\ JobTypes
  BY DEF JobLifeInv, SendInv
<1>3. /\ pc[t] = "create" /\ pc' = [pc EXCEPT ![t] = "issue"]
      /\ mRefCount' = [mRefCount EXCEPT ![s] = @ + 1] /\ crashed' = ~(mRefCount[s] + 1 > 0)
      /\ UNCHANGED <<mConnected, pending, issued, mFreeSessionList, mSendBufferLock, fresh,
                     ses, kind, back, packets, LSendRequestSessionList>>
  BY <1>1 DEF NewContext, Goto, Local, poolVars, sendVars
<1>4. /\ pc'[t] = "issue" /\ \A u \in IOThread \ {t} : pc'[u] = pc[u]
      /\ mRefCount'[s] = mRefCount[s] + 1
      /\ \A r \in Session \ {s} : mRefCount'[r] = mRefCount[r]
      /\ mRefCount' \in [Session -> Int]
  BY <1>2, <1>3 DEF SendingTypeOK, JobTypes
<1>5. JobOnly(t, s)
  BY <1>1, <1>3, <1>4 DEF JobOnly, StepOn, StepOf
<1>6. JobTypes'
  BY <1>2, <1>3, <1>4 DEF JobTypes, jobVars
<1>7. JobThreadOK(t)' /\ ~Returning(t)'
  BY <1>2, <1>3, <1>4 DEF JobThreadOK, Returning, RecvTypes
<1>8. /\ t \in JobHandlers(s)' <=> t \in JobHandlers(s)
      /\ t \notin Creators(s) /\ t \in Creators(s)'
      /\ t \in Connectors(s)' <=> t \in Connectors(s)
      /\ t \in Accepting(s)' <=> t \in Accepting(s)
      /\ t \notin Delivering(s) /\ t \notin Delivering(s)'
  BY <1>1, <1>3, <1>4 DEF JobHandlers, Handlers, Creators, Connectors, Accepting, Delivering
<1>9. /\ Loads(s)' = Loads(s) /\ InFlight(s)' = InFlight(s) /\ IssueRef(s)' = IssueRef(s)
  BY <1>3, <1>5, JobElsewhere DEF InFlight, IssueRef
<1>10. /\ Bit(t, JobHandlers(s)') = Bit(t, JobHandlers(s)) /\ Bit(t, JobHandlers(s)) \in {0, 1}
       /\ Bit(t, Creators(s)) = 0 /\ Bit(t, Creators(s)') = 1
       /\ Bit(t, Connectors(s)') = Bit(t, Connectors(s)) /\ Bit(t, Connectors(s)) \in {0, 1}
       /\ Bit(t, Accepting(s)') = Bit(t, Accepting(s)) /\ Bit(t, Accepting(s)) \in {0, 1}
       /\ Bit(t, Delivering(s)) = 0 /\ Bit(t, Delivering(s)') = 0
  BY <1>8 DEF Bit
<1>11. mRefCount[s] > 0 /\ ~crashed'
  <2>1. mRefCount[s] \in Nat
    BY ZeroCount
  <2>2. ASSUME kind[t] = "flush" PROVE mRefCount[s] > 0
    <3>1. mRefCount[s] # 0
      BY <1>1, <1>3, <2>2 DEF Revives
    <3> QED
      BY <2>1, <3>1
  <2>3. ASSUME kind[t] # "flush" PROVE mRefCount[s] > 0
    <3>1. t \in JobHandlers(s)
      BY <1>1, <1>3, <2>3 DEF JobHandlers, Handlers
    <3>2. mRefCount[s] # 0
      BY <3>1, ZeroCount
    <3> QED
      BY <2>1, <3>2
  <2>4. mRefCount[s] > 0
    BY <2>2, <2>3
  <2>5. mRefCount[s] + 1 > 0
    BY <2>1
  <2> QED
    BY <1>3, <2>4, <2>5
<1>12. mRefCount'[s] - JobRefs(t, s)' = mRefCount[s] - JobRefs(t, s)
  BY <1>4, <1>9, <1>10, JobPrimes, JobBounds DEF JobRefs
<1>13. Connects(t, s)' <= Connects(t, s)
  BY <1>3, <1>9, <1>10, JobPrimes, JobBounds DEF Connects, IOType
<1>14. LoadsOf(t, s)' <= LoadsOf(t, s)
  BY <1>3, <1>9, <1>10, JobPrimes, JobBounds DEF LoadsOf, IOType
<1> QED
  BY <1>3, <1>5, <1>6, <1>7, <1>8, <1>11, <1>12, <1>13, <1>14, JobStep

\* Where the thread goes from a fresh context, and what it has there.
LEMMA JobGoesOn ==
  ASSUME JobLifeInv, SendInv, NEW t \in IOThread
  PROVE  /\ AfterDisconnect(t) \in {"unlock", "parse", "finish"}
         /\ AfterDisconnect(t) = "parse" => kind[t] = "IO_RECV"
         /\ fresh[t] \in RecvTypes \union {"IO_SEND", "IO_DISCONNECT"} =>
              /\ AfterPost(t) \in {"finish", "subscribe", "parse", "unlock"}
              /\ AfterPost(t) = "subscribe" => kind[t] = "IO_ACCEPT"
              /\ AfterPost(t) = "parse" => kind[t] = "IO_RECV"
              /\ AfterFailedPost(t) \in {"finish", "subscribe", "disconnect", "parse", "unlock"}
              /\ AfterFailedPost(t) = "subscribe" => kind[t] = "IO_ACCEPT"
              /\ AfterFailedPost(t) = "parse" => kind[t] = "IO_RECV"
<1>1. JobThreadOK(t) /\ packets[t] \in Nat
  BY DEF JobLifeInv, SendInv, SendingTypeOK
<1>2. /\ AfterDisconnect(t) \in {"unlock", "parse", "finish"}
      /\ AfterDisconnect(t) = "parse" => kind[t] = "IO_RECV"
  BY <1>1 DEF AfterDisconnect, JobThreadOK
<1>3. ASSUME fresh[t] \in RecvTypes \union {"IO_SEND", "IO_DISCONNECT"}
      PROVE  /\ AfterPost(t) = "subscribe" => kind[t] = "IO_ACCEPT"
             /\ AfterPost(t) = "parse" => kind[t] = "IO_RECV"
  BY <1>2, <1>3 DEF AfterPost, RecvTypes
<1>4. ASSUME fresh[t] \in RecvTypes \union {"IO_SEND", "IO_DISCONNECT"}
      PROVE  /\ AfterFailedPost(t) = "subscribe" => kind[t] = "IO_ACCEPT"
             /\ AfterFailedPost(t) = "parse" => kind[t] = "IO_RECV"
  BY <1>2, <1>4 DEF AfterFailedPost, AfterRefusedRecv, RecvTypes
<1> QED
  BY <1>2, <1>3, <1>4, GoesOn

\* The Winsock call accepts the context: its reference is one of a context in
\* flight.
LEMMA JobIssueOk ==
  ASSUME JobLifeInv, SendInv, SendInv', NEW t \in IOThread, UNCHANGED jobVars,
         LSendRequestSessionList' = LSendRequestSessionList, IssueOk(t)
  PROVE  JobLifeInv'
<1>1. PICK s \in Session : ses[t] = s
  BY HasSession DEF IssueOk
<1>2. JobThreadOK(t) /\ SendThreadOK(t) /\ SendingTypeOK /\ JobTypes
  BY DEF JobLifeInv, SendInv
<1>3. PICK k \in RecvTypes \union {"IO_SEND", "IO_DISCONNECT"} : fresh[t] = k
  BY <1>2 DEF SendThreadOK, SendingTypeOK, Creating, IssueOk
<1>4. PICK l \in {"finish", "subscribe", "parse", "unlock"} :
        /\ AfterPost(t) = l
        /\ l = "subscribe" => kind[t] = "IO_ACCEPT"
        /\ l = "parse" => kind[t] = "IO_RECV"
  BY <1>3, JobGoesOn
<1>5. /\ pc[t] = "issue" /\ pc' = [pc EXCEPT ![t] = l] /\ fresh' = [fresh EXCEPT ![t] = "none"]
      /\ pending' = [pending EXCEPT ![s][k] = @ + 1]
      /\ UNCHANGED <<mConnected, mRefCount, issued, crashed, mFreeSessionList, mSendBufferLock,
                     ses, kind, back, packets>>
  BY <1>1, <1>3, <1>4 DEF IssueOk, Goto, Local, poolVars
<1>6. /\ pc'[t] = l /\ fresh'[t] = "none"
      /\ \A u \in IOThread \ {t} : pc'[u] = pc[u] /\ fresh'[u] = fresh[u]
  BY <1>2, <1>5 DEF SendingTypeOK
<1>7. /\ k \in IOType /\ k \notin {"IO_ACCEPT", "CK_DB_RESULT"}
      /\ pending'[s][k] = pending[s][k] + 1
      /\ \A j \in IOType \ {k} : pending'[s][j] = pending[s][j]
      /\ \A r \in Session \ {s} : pending'[r] = pending[r]
  <2>1. k \in IOType /\ k \notin {"IO_ACCEPT", "CK_DB_RESULT"}
    BY <1>3 DEF IOType, RecvTypes
  <2> QED
    BY <1>2, <1>5, <2>1 DEF SendingTypeOK
<1>8. JobOnly(t, s)
  BY <1>1, <1>5, <1>6, <1>7 DEF JobOnly, StepOn, StepOf
<1>9. JobTypes' /\ ~crashed'
  BY <1>2, <1>5 DEF JobTypes, jobVars, JobLifeInv
<1>10. JobThreadOK(t)' /\ ~Returning(t)'
  BY <1>2, <1>4, <1>5, <1>6 DEF JobThreadOK, Returning, RecvTypes
<1>11. /\ t \in JobHandlers(s)' <=> t \in JobHandlers(s)
       /\ t \in Creators(s) /\ t \notin Creators(s)'
       /\ t \in Connectors(s) <=> k = "IO_DISCONNECT"
       /\ t \notin Connectors(s)'
       /\ t \in Accepting(s)' => t \in Accepting(s)
       /\ t \notin Delivering(s) /\ t \notin Delivering(s)'
  BY <1>1, <1>3, <1>5, <1>6
  DEF JobHandlers, Handlers, Creators, Connectors, Accepting, Delivering
<1>12. /\ Bit(t, JobHandlers(s)') = Bit(t, JobHandlers(s)) /\ Bit(t, JobHandlers(s)) \in {0, 1}
       /\ Bit(t, Creators(s)) = 1 /\ Bit(t, Creators(s)') = 0
       /\ Bit(t, Connectors(s)) = (IF k = "IO_DISCONNECT" THEN 1 ELSE 0)
       /\ Bit(t, Connectors(s)') = 0
       /\ Bit(t, Accepting(s)') <= Bit(t, Accepting(s)) /\ Bit(t, Accepting(s)) \in {0, 1}
       /\ Bit(t, Accepting(s)') \in {0, 1}
       /\ Bit(t, Delivering(s)) = 0 /\ Bit(t, Delivering(s)') = 0
  BY <1>11 DEF Bit
<1>13. Loads(s)' = Loads(s) /\ IssueRef(s)' = IssueRef(s)
  BY <1>5, <1>8, JobElsewhere DEF IssueRef
<1>14. InFlight(s)' = InFlight(s) + 1
  <2>1. \A j \in IOType : pending[s][j] \in Nat
    BY JobBounds
  <2> QED
    BY <1>7, <2>1 DEF InFlight, IOType
<1>15. mRefCount'[s] - JobRefs(t, s)' = mRefCount[s] - JobRefs(t, s)
  BY <1>5, <1>12, <1>13, <1>14, JobPrimes, JobBounds DEF JobRefs
<1>16. Connects(t, s)' <= Connects(t, s)
  <2>1. /\ "IO_ACCEPT" \in IOType \ {k} /\ "IO_DISCONNECT" \in IOType
        /\ mConnected'[s] = mConnected[s]
    BY <1>5, <1>7 DEF IOType
  <2>2. /\ pending'[s]["IO_ACCEPT"] = pending[s]["IO_ACCEPT"]
        /\ pending'[s]["IO_DISCONNECT"] = pending[s]["IO_DISCONNECT"]
                                           + IF k = "IO_DISCONNECT" THEN 1 ELSE 0
    BY <1>7, <2>1, JobBounds
  <2> QED
    BY <1>12, <1>13, <2>1, <2>2, JobPrimes, JobBounds DEF Connects
<1>17. LoadsOf(t, s)' <= LoadsOf(t, s) /\ pending'[s]["IO_ACCEPT"] = pending[s]["IO_ACCEPT"]
       /\ pending'[s]["CK_DB_RESULT"] = pending[s]["CK_DB_RESULT"]
  <2>1. /\ pending'[s]["IO_ACCEPT"] = pending[s]["IO_ACCEPT"]
        /\ pending'[s]["CK_DB_RESULT"] = pending[s]["CK_DB_RESULT"]
        /\ pending[s]["IO_ACCEPT"] \in Nat /\ pending[s]["CK_DB_RESULT"] \in Nat
    BY <1>7, JobBounds DEF IOType
  <2> QED
    BY <1>12, <1>13, <2>1, JobPrimes, JobBounds DEF LoadsOf
<1>18. mRefCount[s] > 0
  BY <1>11, ZeroCount
<1> QED
  BY <1>8, <1>9, <1>10, <1>11, <1>15, <1>16, <1>17, <1>18, JobStep

\* DisconnectRequest: the thread that finds mConnected set takes over from it.
LEMMA JobDisconnectRequest ==
  ASSUME JobLifeInv, SendInv, SendInv', NEW t \in IOThread, UNCHANGED <<sendVars, jobVars>>,
         DisconnectRequest(t)
  PROVE  JobLifeInv'
<1>1. PICK s \in Session : ses[t] = s
  BY HasSession DEF DisconnectRequest
<1>2. JobThreadOK(t) /\ SendThreadOK(t) /\ SendingTypeOK /\ JobTypes
  BY DEF JobLifeInv, SendInv
<1>3. /\ pc[t] = "disconnect" /\ mConnected' = [mConnected EXCEPT ![s] = 0]
      /\ CreateIf(t, mConnected[s] = 1, "IO_DISCONNECT", AfterDisconnect(t))
      /\ UNCHANGED <<mRefCount, pending, issued, crashed, mFreeSessionList, mSendBufferLock,
                     ses, kind, back, packets, LSendRequestSessionList>>
  BY <1>1 DEF DisconnectRequest, Local, poolVars, sendVars
<1>4. PICK l \in {"create", "unlock", "parse", "finish"}, k \in {"none", "IO_DISCONNECT"} :
        /\ pc' = [pc EXCEPT ![t] = l] /\ fresh' = [fresh EXCEPT ![t] = k]
        /\ l = "parse" => kind[t] = "IO_RECV"
        /\ k = "IO_DISCONNECT" <=> mConnected[s] = 1
  <2>1. fresh[t] = "none" /\ fresh = [fresh EXCEPT ![t] = "none"]
    BY <1>2, <1>3 DEF SendThreadOK, SendingTypeOK, Creating
  <2>2. CASE mConnected[s] = 1
    <3>1. pc' = [pc EXCEPT ![t] = "create"] /\ fresh' = [fresh EXCEPT ![t] = "IO_DISCONNECT"]
      BY <1>3, <2>2 DEF CreateIf, Goto
    <3> QED
      BY <2>2, <3>1
  <2>3. CASE mConnected[s] # 1
    <3>1. pc' = [pc EXCEPT ![t] = AfterDisconnect(t)] /\ fresh' = [fresh EXCEPT ![t] = "none"]
      BY <1>3, <2>1, <2>3 DEF CreateIf, Goto
    <3>2. /\ AfterDisconnect(t) \in {"unlock", "parse", "finish"}
          /\ AfterDisconnect(t) = "parse" => kind[t] = "IO_RECV"
      BY JobGoesOn
    <3> QED
      BY <2>3, <3>1, <3>2
  <2> QED
    BY <2>2, <2>3
<1>5. /\ pc'[t] = l /\ fresh'[t] = k /\ fresh[t] = "none"
      /\ \A u \in IOThread \ {t} : pc'[u] = pc[u] /\ fresh'[u] = fresh[u]
      /\ mConnected'[s] = 0 /\ \A r \in Session \ {s} : mConnected'[r] = mConnected[r]
      /\ mConnected' \in [Session -> {0, 1}]
  BY <1>2, <1>3, <1>4 DEF SendingTypeOK, SendThreadOK, JobTypes, Creating
<1>6. JobOnly(t, s)
  BY <1>1, <1>3, <1>5 DEF JobOnly, StepOn, StepOf
<1>7. JobTypes' /\ ~crashed'
  BY <1>2, <1>3, <1>5 DEF JobTypes, jobVars, JobLifeInv
<1>8. JobThreadOK(t)' /\ ~Returning(t)' /\ ~Returning(t)
  BY <1>2, <1>3, <1>4, <1>5 DEF JobThreadOK, Returning, RecvTypes
<1>9. /\ t \in JobHandlers(s)' <=> t \in JobHandlers(s)
      /\ t \notin Creators(s) /\ t \notin Creators(s)'
      /\ t \notin Connectors(s)
      /\ t \in Connectors(s)' <=> k = "IO_DISCONNECT"
      /\ t \in Accepting(s)' => t \in Accepting(s)
      /\ t \notin Delivering(s) /\ t \notin Delivering(s)'
  BY <1>1, <1>3, <1>4, <1>5
  DEF JobHandlers, Handlers, Creators, Connectors, Accepting, Delivering
<1>10. /\ Bit(t, JobHandlers(s)') = Bit(t, JobHandlers(s)) /\ Bit(t, JobHandlers(s)) \in {0, 1}
       /\ Bit(t, Creators(s)) = 0 /\ Bit(t, Creators(s)') = 0
       /\ Bit(t, Connectors(s)) = 0
       /\ Bit(t, Connectors(s)') = (IF k = "IO_DISCONNECT" THEN 1 ELSE 0)
       /\ Bit(t, Accepting(s)') <= Bit(t, Accepting(s)) /\ Bit(t, Accepting(s)) \in {0, 1}
       /\ Bit(t, Accepting(s)') \in {0, 1}
       /\ Bit(t, Delivering(s)) = 0 /\ Bit(t, Delivering(s)') = 0
  BY <1>9 DEF Bit
<1>11. Loads(s)' = Loads(s) /\ InFlight(s)' = InFlight(s) /\ IssueRef(s)' = IssueRef(s)
  BY <1>3, <1>6, JobElsewhere DEF InFlight, IssueRef
<1>12. mRefCount'[s] - JobRefs(t, s)' = mRefCount[s] - JobRefs(t, s)
  BY <1>3, <1>10, <1>11, JobPrimes DEF JobRefs
<1>13. Connects(t, s)' <= Connects(t, s)
  BY <1>3, <1>4, <1>5, <1>10, <1>11, JobPrimes, JobBounds DEF Connects, IOType
<1>14. LoadsOf(t, s)' <= LoadsOf(t, s)
  BY <1>3, <1>10, <1>11, JobPrimes, JobBounds DEF LoadsOf, IOType
<1> QED
  BY <1>3, <1>6, <1>7, <1>8, <1>9, <1>12, <1>13, <1>14, JobStep

\* A completion is dequeued: the thread takes over the reference of the context.
LEMMA JobCompletion ==
  ASSUME JobLifeInv, SendInv, SendInv', NEW t \in IOThread, UNCHANGED jobVars, NextCompletion(t)
  PROVE  JobLifeInv'
<1>1. PICK s \in Session, k \in IOType, ok \in BOOLEAN : GetQueuedCompletionStatus(t, s, k, ok)
  BY DEF NextCompletion, Completion
<1>2. JobThreadOK(t) /\ SendThreadOK(t) /\ SendingTypeOK /\ JobTypes
  BY DEF JobLifeInv, SendInv
<1>3. PICK l \in {"disconnect", "accept", "postrecv", "parse", "sent", "disconnected", "send"} :
        /\ pc' = [pc EXCEPT ![t] = l]
        /\ l = "accept" <=> k = "IO_ACCEPT"
        /\ l = "disconnected" <=> k = "IO_DISCONNECT"
        /\ l = "send" <=> k = "CK_DB_RESULT"
        /\ l = "parse" => k = "IO_RECV"
  BY <1>1 DEF GetQueuedCompletionStatus, Goto, IOType
<1>4. /\ pc[t] = "idle" /\ pending[s][k] > 0
      /\ pending' = [pending EXCEPT ![s][k] = @ - 1]
      /\ ses' = [ses EXCEPT ![t] = s] /\ kind' = [kind EXCEPT ![t] = k]
      /\ packets' = [packets EXCEPT ![t] = IF ok /\ k = "IO_RECV" THEN MaxPackets + 1 ELSE 0]
      /\ UNCHANGED <<mConnected, mRefCount, issued, crashed, mFreeSessionList, mSendBufferLock,
                     fresh, back, LSendRequestSessionList>>
  BY <1>1 DEF GetQueuedCompletionStatus, NextCompletion, poolVars, sendVars
<1>5. /\ pc'[t] = l /\ ses'[t] = s /\ kind'[t] = k /\ fresh[t] = "none" /\ ses[t] = None
      /\ \A u \in IOThread \ {t} : /\ pc'[u] = pc[u] /\ ses'[u] = ses[u] /\ kind'[u] = kind[u]
                                   /\ packets'[u] = packets[u]
      /\ packets'[t] > 0 => l = "parse"
  <2>1. packets'[t] = IF ok /\ k = "IO_RECV" THEN MaxPackets + 1 ELSE 0
    BY <1>2, <1>4 DEF SendingTypeOK
  <2>2. ~(0 > 0)
    OBVIOUS
  <2>3. packets'[t] > 0 => ok /\ k = "IO_RECV"
    BY <2>1, <2>2
  <2>4. ok /\ k = "IO_RECV" => l = "parse"
    <3>1. ok /\ k = "IO_RECV" => pc' = [pc EXCEPT ![t] = "parse"]
      BY <1>1 DEF GetQueuedCompletionStatus, Goto
    <3> QED
      BY <1>2, <1>3, <3>1 DEF SendingTypeOK
  <2> QED
    BY <1>2, <1>3, <1>4, <2>3, <2>4 DEF SendingTypeOK, SendThreadOK, Creating
<1>6. /\ pending'[s][k] = pending[s][k] - 1
      /\ \A j \in IOType \ {k} : pending'[s][j] = pending[s][j]
      /\ \A r \in Session \ {s} : pending'[r] = pending[r]
  BY <1>2, <1>4 DEF SendingTypeOK
<1>7. JobOnly(t, s)
  BY <1>4, <1>5, <1>6 DEF JobOnly, StepOn, StepOf
<1>8. JobTypes' /\ ~crashed'
  BY <1>2, <1>4 DEF JobTypes, jobVars, JobLifeInv
<1>9. JobThreadOK(t)' /\ ~Returning(t)'
  <2>1. k # "none" /\ k # "flush"
    BY DEF IOType
  <2> QED
    BY <1>2, <1>3, <1>4, <1>5, <2>1 DEF JobThreadOK, Returning, RecvTypes
<1>10. /\ t \notin JobHandlers(s) /\ t \in JobHandlers(s)'
       /\ t \notin Creators(s) /\ t \notin Creators(s)'
       /\ t \notin Connectors(s)
       /\ t \in Connectors(s)' <=> k \in {"IO_ACCEPT", "IO_DISCONNECT"}
       /\ t \notin Accepting(s)
       /\ t \in Accepting(s)' <=> k = "IO_ACCEPT"
       /\ t \notin Delivering(s)
       /\ t \in Delivering(s)' <=> k = "CK_DB_RESULT"
  <2>1. s # None /\ k # "flush" /\ l \notin {"finish", "return", "reset", "issue", "undo"}
    BY SessionAssumption DEF IOType
  <2> QED
    BY <1>3, <1>4, <1>5, <2>1
    DEF JobHandlers, Handlers, Creators, Connectors, Accepting, Delivering
<1>11. /\ Bit(t, JobHandlers(s)) = 0 /\ Bit(t, JobHandlers(s)') = 1
       /\ Bit(t, Creators(s)) = 0 /\ Bit(t, Creators(s)') = 0
       /\ Bit(t, Connectors(s)) = 0
       /\ Bit(t, Connectors(s)') = (IF k \in {"IO_ACCEPT", "IO_DISCONNECT"} THEN 1 ELSE 0)
       /\ Bit(t, Accepting(s)) = 0
       /\ Bit(t, Accepting(s)') = (IF k = "IO_ACCEPT" THEN 1 ELSE 0)
       /\ Bit(t, Delivering(s)) = 0
       /\ Bit(t, Delivering(s)') = (IF k = "CK_DB_RESULT" THEN 1 ELSE 0)
  BY <1>10 DEF Bit
<1>12. Loads(s)' = Loads(s) /\ IssueRef(s)' = IssueRef(s)
  BY <1>4, <1>7, JobElsewhere DEF IssueRef
<1>13. InFlight(s)' = InFlight(s) - 1
  <2>1. \A j \in IOType : pending[s][j] \in Nat
    BY JobBounds
  <2>2. \A j \in IOType : pending'[s][j] = pending[s][j] - IF j = k THEN 1 ELSE 0
    BY <1>6, <2>1
  <2>3. CASE k \in {"IO_ACCEPT", "IO_RECV_ZERO", "IO_RECV"}
    BY <2>1, <2>2, <2>3 DEF InFlight, IOType
  <2>4. CASE k \in {"IO_SEND", "IO_DISCONNECT", "CK_DB_RESULT"}
    BY <2>1, <2>2, <2>4 DEF InFlight, IOType
  <2> QED
    BY <2>3, <2>4 DEF IOType
<1>14. mRefCount'[s] - JobRefs(t, s)' = mRefCount[s] - JobRefs(t, s)
  BY <1>4, <1>11, <1>12, <1>13, JobPrimes, JobBounds DEF JobRefs
<1>15. /\ pending'[s]["IO_ACCEPT"] = pending[s]["IO_ACCEPT"] - IF k = "IO_ACCEPT" THEN 1 ELSE 0
       /\ pending'[s]["IO_DISCONNECT"] = pending[s]["IO_DISCONNECT"]
                                          - IF k = "IO_DISCONNECT" THEN 1 ELSE 0
       /\ pending'[s]["CK_DB_RESULT"] = pending[s]["CK_DB_RESULT"]
                                         - IF k = "CK_DB_RESULT" THEN 1 ELSE 0
       /\ pending[s]["IO_ACCEPT"] \in Nat /\ pending[s]["IO_DISCONNECT"] \in Nat
       /\ pending[s]["CK_DB_RESULT"] \in Nat
  <2>1. \A j \in IOType : pending[s][j] \in Nat
    BY JobBounds
  <2> QED
    BY <1>6, <2>1 DEF IOType
<1>16. Connects(t, s)' <= Connects(t, s)
  <2>1. mConnected'[s] = mConnected[s]
    BY <1>4
  <2> QED
    BY <1>11, <1>12, <1>15, <2>1, JobPrimes, JobBounds DEF Connects
<1>17. LoadsOf(t, s)' <= LoadsOf(t, s)
  BY <1>11, <1>12, <1>15, JobPrimes, JobBounds DEF LoadsOf
<1>18. /\ pending'[s]["IO_ACCEPT"] > 0 \/ t \in Accepting(s)' =>
            pending[s]["IO_ACCEPT"] > 0 \/ t \in Accepting(s)
       /\ pending[s]["CK_DB_RESULT"] > 0 \/ t \in Delivering(s) =>
            pending'[s]["CK_DB_RESULT"] > 0 \/ t \in Delivering(s)'
  <2>1. k = "IO_ACCEPT" => pending[s]["IO_ACCEPT"] > 0
    BY <1>4
  <2> QED
    BY <1>10, <1>15, <2>1
<1> QED
  BY <1>4, <1>7, <1>8, <1>9, <1>14, <1>16, <1>17, <1>18, JobStep

\* ReleaseRef in DeleteIoContext of a context that could not be posted: it only
\* reaches 0 in FlushSend, which holds the send lock and goes on to disconnect.
LEMMA JobReleaseFailed ==
  ASSUME JobLifeInv, SendInv, SendInv', NEW t \in IOThread, UNCHANGED <<sendVars, jobVars>>,
         pc[t] = "undo", ReleaseRef(t)
  PROVE  JobLifeInv'
<1>1. PICK s \in Session : ses[t] = s
  BY HasSession
<1>2. JobThreadOK(t) /\ SendThreadOK(t) /\ SendingTypeOK /\ JobTypes
  BY DEF JobLifeInv, SendInv
<1>3. fresh[t] \in RecvTypes \union {"IO_SEND", "IO_DISCONNECT"}
  BY <1>2 DEF SendThreadOK, SendingTypeOK, Creating
<1>4. PICK l \in {"finish", "subscribe", "disconnect", "parse", "unlock"} :
        /\ AfterRelease(t) = l
        /\ l = "subscribe" => kind[t] = "IO_ACCEPT"
        /\ l = "parse" => kind[t] = "IO_RECV"
  BY <1>3, JobGoesOn DEF AfterRelease
<1>5. /\ mRefCount' = [mRefCount EXCEPT ![s] = @ - 1] /\ crashed' = (mRefCount[s] - 1 < 0)
      /\ fresh' = [fresh EXCEPT ![t] = "none"]
      /\ UNCHANGED <<mConnected, pending, issued, mFreeSessionList, mSendBufferLock, packets,
                     ses, kind, LSendRequestSessionList>>
      /\ IF mRefCount[s] - 1 = 0
           THEN pc' = [pc EXCEPT ![t] = "return"] /\ back' = [back EXCEPT ![t] = l]
           ELSE pc' = [pc EXCEPT ![t] = l] /\ back' = back
  BY <1>1, <1>4 DEF ReleaseRef, Resume, Goto, poolVars, sendVars
<1>6. /\ t \in Creators(s) /\ t \notin Delivering(s)
      /\ t \in JobHandlers(s) <=> kind[t] # "flush"
      /\ t \in Connectors(s) <=> fresh[t] = "IO_DISCONNECT"
  BY <1>1 DEF JobHandlers, Handlers, Creators, Connectors, Delivering
<1>7. /\ Bit(t, Creators(s)) = 1 /\ Bit(t, JobHandlers(s)) = (IF kind[t] # "flush" THEN 1 ELSE 0)
      /\ Bit(t, Connectors(s)) = (IF fresh[t] = "IO_DISCONNECT" THEN 1 ELSE 0)
      /\ Bit(t, Delivering(s)) = 0 /\ Bit(t, Accepting(s)) \in {0, 1}
  BY <1>6 DEF Bit
<1>8. /\ mRefCount[s] \in Nat
      /\ mRefCount[s] >= Bit(t, JobHandlers(s)) + Bit(t, Creators(s)) + IssueRef(s)
  BY ZeroCount
<1>9. fresh[t] = "IO_DISCONNECT" => IssueRef(s) = 1
  BY <1>7, JobBounds DEF Connects, IOType
<1>10. mRefCount[s] - 1 = 0 => kind[t] = "flush" /\ fresh[t] = "IO_SEND"
  <2>1. IssueRef(s) \in {0, 1}
    BY JobBounds
  <2>2. mRefCount[s] - 1 = 0 => kind[t] = "flush"
    BY <1>7, <1>8, <2>1
  <2>3. mRefCount[s] - 1 = 0 => fresh[t] # "IO_DISCONNECT"
    BY <1>7, <1>8, <1>9, <2>1
  <2>4. fresh[t] \in RecvTypes => kind[t] # "flush"
    BY <1>2 DEF JobThreadOK
  <2> QED
    BY <1>3, <2>2, <2>3, <2>4
<1>11. ~crashed'
  <2>1. ~(mRefCount[s] - 1 < 0)
    BY <1>7, <1>8, JobBounds
  <2> QED
    BY <1>5, <2>1
<1>12. PICK m \in Label :
         /\ pc' = [pc EXCEPT ![t] = m]
         /\ m = "return" <=> mRefCount[s] - 1 = 0
         /\ m # "return" => m = l
  BY <1>5 DEF Label
<1>13. /\ pc'[t] = m /\ fresh'[t] = "none"
       /\ \A u \in IOThread \ {t} : pc'[u] = pc[u] /\ fresh'[u] = fresh[u] /\ back'[u] = back[u]
       /\ mRefCount'[s] = mRefCount[s] - 1
       /\ \A r \in Session \ {s} : mRefCount'[r] = mRefCount[r]
       /\ mRefCount' \in [Session -> Int]
  BY <1>2, <1>5, <1>12 DEF SendingTypeOK, JobTypes
<1>14. JobOnly(t, s)
  BY <1>1, <1>5, <1>13 DEF JobOnly, StepOn, StepOf
<1>15. JobTypes'
  BY <1>2, <1>5, <1>13 DEF JobTypes, jobVars
<1>16. /\ Returning(t)' <=> m = "return"
       /\ m \notin {"idle", "reset", "issue", "undo", "send", "accept", "disconnected", "setup",
                    "prerecv", "postrecv"}
  BY <1>12, <1>13 DEF Returning
<1>17. JobThreadOK(t)'
  <2>1. mSendBufferLock[s] = t \/ m # "return"
    BY <1>1, <1>2, <1>10, <1>12 DEF SendThreadOK
  <2>2. ~(packets'[t] > 0)
    BY <1>2, <1>5 DEF JobThreadOK
  <2>3. kind[t] # "none" /\ kind'[t] = kind[t] /\ ses'[t] = s /\ mSendBufferLock' = mSendBufferLock
    BY <1>1, <1>2, <1>5 DEF JobThreadOK
  <2> QED
    BY <1>4, <1>12, <1>13, <1>16, <2>1, <2>2, <2>3 DEF JobThreadOK, RecvTypes
<1>18. /\ t \notin Creators(s)' /\ t \notin Delivering(s)' /\ t \notin Connectors(s)'
       /\ t \in JobHandlers(s)' <=> kind[t] # "flush"
       /\ t \in Accepting(s)' => t \in Accepting(s)
  <2>1. m = "return" => kind[t] = "flush"
    BY <1>10, <1>12
  <2> QED
    BY <1>1, <1>5, <1>13, <1>16, <2>1
    DEF JobHandlers, Handlers, Creators, Connectors, Delivering, Accepting
<1>19. /\ Bit(t, Creators(s)') = 0 /\ Bit(t, JobHandlers(s)') = Bit(t, JobHandlers(s))
       /\ Bit(t, Connectors(s)') = 0 /\ Bit(t, Delivering(s)') = 0
       /\ Bit(t, Accepting(s)') <= Bit(t, Accepting(s)) /\ Bit(t, Accepting(s)') \in {0, 1}
       /\ Bit(t, JobHandlers(s)) \in {0, 1} /\ Bit(t, Connectors(s)) \in {0, 1}
  BY <1>6, <1>18 DEF Bit
<1>20. Loads(s)' = Loads(s) /\ InFlight(s)' = InFlight(s) /\ IssueRef(s)' = IssueRef(s)
  BY <1>5, <1>14, JobElsewhere DEF InFlight, IssueRef
<1>21. mRefCount'[s] - JobRefs(t, s)' = mRefCount[s] - JobRefs(t, s)
  BY <1>7, <1>13, <1>19, <1>20, JobPrimes, JobBounds DEF JobRefs
<1>22. Connects(t, s)' <= Connects(t, s)
  BY <1>5, <1>19, <1>20, JobPrimes, JobBounds DEF Connects, IOType
<1>23. LoadsOf(t, s)' <= LoadsOf(t, s)
  BY <1>5, <1>7, <1>19, <1>20, JobPrimes, JobBounds DEF LoadsOf, IOType
<1>24. mRefCount[s] > 0 /\ (Returning(t)' => mRefCount'[s] = 0)
  BY <1>6, <1>8, <1>12, <1>13, <1>16, ZeroCount
<1> QED
  BY <1>5, <1>6, <1>11, <1>14, <1>15, <1>17, <1>18, <1>21, <1>22, <1>23, <1>24, JobStep

\* DisconnectCompletion releases the reference of the issue; the context of the
\* completion still has one.
LEMMA JobReleaseIssue ==
  ASSUME JobLifeInv, SendInv, SendInv', NEW t \in IOThread, UNCHANGED <<sendVars, jobVars>>,
         pc[t] = "disconnected", ReleaseRef(t)
  PROVE  JobLifeInv'
<1>1. PICK s \in Session : ses[t] = s
  BY HasSession
<1>2. JobThreadOK(t) /\ SendThreadOK(t) /\ SendingTypeOK /\ JobTypes
  BY DEF JobLifeInv, SendInv
<1>3. fresh[t] = "none" /\ kind[t] # "flush"
  BY <1>2 DEF SendThreadOK, JobThreadOK, Creating
<1>4. /\ t \notin Creators(s) /\ t \notin Delivering(s) /\ t \in JobHandlers(s)
      /\ t \in Connectors(s)
  BY <1>1, <1>3 DEF JobHandlers, Handlers, Creators, Connectors, Delivering
<1>5. /\ Bit(t, Creators(s)) = 0 /\ Bit(t, JobHandlers(s)) = 1
      /\ Bit(t, Connectors(s)) = 1 /\ Bit(t, Delivering(s)) = 0
  BY <1>4 DEF Bit
<1>6. IssueRef(s) = 1
  BY <1>5, JobBounds DEF Connects, IOType
<1>7. mRefCount[s] \in Nat /\ mRefCount[s] >= 2
  <2>1. /\ mRefCount[s] \in Nat
        /\ mRefCount[s] >= Bit(t, JobHandlers(s)) + Bit(t, Creators(s)) + IssueRef(s)
    BY ZeroCount
  <2> QED
    BY <1>5, <1>6, <2>1
<1>8. mRefCount[s] - 1 # 0 /\ ~(mRefCount[s] - 1 < 0)
  BY <1>7
<1>9. /\ pc' = [pc EXCEPT ![t] = "finish"]
      /\ mRefCount' = [mRefCount EXCEPT ![s] = @ - 1] /\ ~crashed'
      /\ fresh' = [fresh EXCEPT ![t] = "none"] /\ issued' = [issued EXCEPT ![s] = FALSE]
      /\ UNCHANGED <<mConnected, pending, mFreeSessionList, mSendBufferLock, packets,
                     ses, kind, back, LSendRequestSessionList>>
  <2>1. AfterRelease(t) = "finish"
    BY DEF AfterRelease
  <2> QED
    BY <1>1, <1>8, <2>1 DEF ReleaseRef, Resume, Goto, poolVars, sendVars
<1>10. /\ pc'[t] = "finish" /\ fresh'[t] = "none" /\ issued'[s] = FALSE
       /\ \A u \in IOThread \ {t} : pc'[u] = pc[u] /\ fresh'[u] = fresh[u]
       /\ mRefCount'[s] = mRefCount[s] - 1
       /\ \A r \in Session \ {s} : mRefCount'[r] = mRefCount[r] /\ issued'[r] = issued[r]
       /\ mRefCount' \in [Session -> Int] /\ issued' \in [Session -> BOOLEAN]
  BY <1>2, <1>9 DEF SendingTypeOK, JobTypes
<1>11. JobOnly(t, s)
  BY <1>1, <1>9, <1>10 DEF JobOnly, StepOn, StepOf
<1>12. JobTypes'
  BY <1>2, <1>9, <1>10 DEF JobTypes, jobVars
<1>13. JobThreadOK(t)' /\ ~Returning(t)'
  BY <1>2, <1>9, <1>10 DEF JobThreadOK, Returning, RecvTypes
<1>14. /\ t \notin Creators(s)' /\ t \notin Delivering(s)' /\ t \notin Connectors(s)'
       /\ t \in JobHandlers(s)' /\ t \notin Accepting(s)'
  BY <1>1, <1>3, <1>9, <1>10
  DEF JobHandlers, Handlers, Creators, Connectors, Delivering, Accepting
<1>15. /\ Bit(t, Creators(s)') = 0 /\ Bit(t, JobHandlers(s)') = 1
       /\ Bit(t, Connectors(s)') = 0 /\ Bit(t, Delivering(s)') = 0
       /\ Bit(t, Accepting(s)') = 0 /\ Bit(t, Accepting(s)) \in {0, 1}
  BY <1>14 DEF Bit
<1>16. Loads(s)' = Loads(s) /\ InFlight(s)' = InFlight(s) /\ IssueRef(s)' = 0
  BY <1>9, <1>10, <1>11, JobElsewhere DEF InFlight, IssueRef
<1>17. mRefCount'[s] - JobRefs(t, s)' = mRefCount[s] - JobRefs(t, s)
  BY <1>5, <1>6, <1>10, <1>15, <1>16, JobPrimes, JobBounds DEF JobRefs
<1>18. Connects(t, s)' <= Connects(t, s)
  BY <1>5, <1>6, <1>9, <1>15, <1>16, JobPrimes, JobBounds DEF Connects, IOType
<1>19. LoadsOf(t, s)' <= LoadsOf(t, s)
  BY <1>5, <1>9, <1>15, <1>16, JobPrimes, JobBounds DEF LoadsOf, IOType
<1>20. mRefCount[s] > 0
  BY <1>7
<1> QED
  BY <1>4, <1>9, <1>11, <1>12, <1>13, <1>14, <1>17, <1>18, <1>19, <1>20, JobStep

\* DeleteIoContext at the end of DoIocpJob: the last reference returns the session.
LEMMA JobReleaseLast ==
  ASSUME JobLifeInv, SendInv, SendInv', NEW t \in IOThread, UNCHANGED <<sendVars, jobVars>>,
         pc[t] = "finish", kind[t] # "flush", ReleaseRef(t)
  PROVE  JobLifeInv'
<1>1. PICK s \in Session : ses[t] = s
  BY HasSession
<1>2. JobThreadOK(t) /\ SendThreadOK(t) /\ SendingTypeOK /\ JobTypes
  BY DEF JobLifeInv, SendInv
<1>3. fresh[t] = "none"
  BY <1>2 DEF SendThreadOK, Creating
<1>4. /\ t \notin Creators(s) /\ t \notin Delivering(s) /\ t \in JobHandlers(s)
      /\ t \notin Connectors(s) /\ t \notin Accepting(s)
  BY <1>1, <1>3 DEF JobHandlers, Handlers, Creators, Connectors, Delivering, Accepting
<1>5. /\ Bit(t, Creators(s)) = 0 /\ Bit(t, JobHandlers(s)) = 1
      /\ Bit(t, Connectors(s)) = 0 /\ Bit(t, Delivering(s)) = 0 /\ Bit(t, Accepting(s)) = 0
  BY <1>4 DEF Bit
<1>6. mRefCount[s] \in Nat /\ mRefCount[s] > 0
  BY <1>4, ZeroCount
<1>7. ~(mRefCount[s] - 1 < 0)
  BY <1>6
<1>8. /\ mRefCount' = [mRefCount EXCEPT ![s] = @ - 1] /\ ~crashed'
      /\ fresh' = [fresh EXCEPT ![t] = "none"]
      /\ UNCHANGED <<mConnected, pending, issued, mFreeSessionList, mSendBufferLock, packets,
                     LSendRequestSessionList>>
      /\ IF mRefCount[s] - 1 = 0
           THEN /\ pc' = [pc EXCEPT ![t] = "return"] /\ back' = [back EXCEPT ![t] = "idle"]
                /\ UNCHANGED <<ses, kind>>
           ELSE /\ pc' = [pc EXCEPT ![t] = "idle"] /\ back' = back
                /\ ses' = [ses EXCEPT ![t] = None] /\ kind' = [kind EXCEPT ![t] = "none"]
  <2>1. AfterRelease(t) = "idle"
    BY DEF AfterRelease
  <2> QED
    BY <1>1, <1>7, <2>1 DEF ReleaseRef, Resume, Goto, poolVars, sendVars
<1>9. /\ fresh'[t] = "none"
      /\ \A u \in IOThread \ {t} :
           /\ pc'[u] = pc[u] /\ ses'[u] = ses[u] /\ kind'[u] = kind[u]
           /\ fresh'[u] = fresh[u] /\ back'[u] = back[u]
      /\ mRefCount'[s] = mRefCount[s] - 1
      /\ \A r \in Session \ {s} : mRefCount'[r] = mRefCount[r]
      /\ mRefCount' \in [Session -> Int]
  BY <1>2, <1>8 DEF SendingTypeOK, JobTypes
<1>10. \/ /\ mRefCount[s] - 1 = 0 /\ pc'[t] = "return" /\ back'[t] = "idle"
          /\ ses'[t] = s /\ kind'[t] = kind[t]
       \/ mRefCount[s] - 1 # 0 /\ pc'[t] = "idle" /\ ses'[t] = None /\ kind'[t] = "none"
  BY <1>1, <1>2, <1>8 DEF SendingTypeOK
<1>11. JobOnly(t, s)
  BY <1>1, <1>8, <1>9, <1>10 DEF JobOnly, StepOn, StepOf
<1>12. JobTypes'
  BY <1>2, <1>8, <1>9 DEF JobTypes, jobVars
<1>13. JobThreadOK(t)'
  <2>1. ~(packets'[t] > 0) /\ kind[t] # "none"
    BY <1>2, <1>8 DEF JobThreadOK
  <2> QED
    BY <1>9, <1>10, <2>1 DEF JobThreadOK, Returning, RecvTypes
<1>14. /\ t \notin Creators(s)' /\ t \notin Delivering(s)' /\ t \notin Connectors(s)'
       /\ t \notin JobHandlers(s)' /\ t \notin Accepting(s)'
  BY <1>9, <1>10, SessionAssumption
  DEF JobHandlers, Handlers, Creators, Connectors, Delivering, Accepting
<1>15. /\ Bit(t, Creators(s)') = 0 /\ Bit(t, JobHandlers(s)') = 0
       /\ Bit(t, Connectors(s)') = 0 /\ Bit(t, Delivering(s)') = 0 /\ Bit(t, Accepting(s)') = 0
  BY <1>14 DEF Bit
<1>16. Loads(s)' = Loads(s) /\ InFlight(s)' = InFlight(s) /\ IssueRef(s)' = IssueRef(s)
  BY <1>8, <1>11, JobElsewhere DEF InFlight, IssueRef
<1>17. mRefCount'[s] - JobRefs(t, s)' = mRefCount[s] - JobRefs(t, s)
  BY <1>5, <1>9, <1>15, <1>16, JobPrimes, JobBounds DEF JobRefs
<1>18. Connects(t, s)' <= Connects(t, s)
  BY <1>5, <1>8, <1>15, <1>16, JobPrimes, JobBounds DEF Connects, IOType
<1>19. LoadsOf(t, s)' <= LoadsOf(t, s)
  BY <1>5, <1>8, <1>15, <1>16, JobPrimes, JobBounds DEF LoadsOf, IOType
<1>20. Returning(t)' => mRefCount'[s] = 0
  BY <1>9, <1>10 DEF Returning
<1> QED
  BY <1>4, <1>6, <1>8, <1>11, <1>12, <1>13, <1>14, <1>17, <1>18, <1>19, <1>20, JobStep

\* ReturnClientSession: nothing is left of a session whose count has reached 0,
\* nor is it connected, so the CRASH_ASSERT holds.
LEMMA JobReturn ==
  ASSUME JobLifeInv, SendInv, SendInv', NEW t \in IOThread, UNCHANGED <<sendVars, jobVars>>,
         ReturnClientSession(t)
  PROVE  JobLifeInv'
<1>1. PICK s \in Session : ses[t] = s
  BY HasSession DEF ReturnClientSession
<1>2. JobThreadOK(t) /\ SendThreadOK(t) /\ SendingTypeOK /\ JobTypes
  BY DEF JobLifeInv, SendInv
<1>3. /\ pc[t] = "return" /\ pc' = [pc EXCEPT ![t] = "reset"]
      /\ crashed' = ~(mConnected[s] = 0 /\ mRefCount[s] = 0)
      /\ mConnected' = [mConnected EXCEPT ![s] = 0] /\ mRefCount' = [mRefCount EXCEPT ![s] = 0]
      /\ UNCHANGED <<pending, issued, mFreeSessionList, mSendBufferLock, fresh,
                     ses, kind, back, packets, LSendRequestSessionList>>
  BY <1>1 DEF ReturnClientSession, Goto, sendVars
<1>4. Returning(t) /\ mRefCount[s] = 0
  BY <1>1, <1>3 DEF Returning, JobLifeInv, ReturnsOnce
<1>5. IssueRef(s) = 0 /\ JobHandlers(s) = {} /\ Creators(s) = {}
      /\ \A k \in IOType : pending[s][k] = 0
  BY <1>4, ZeroCount
<1>6. mConnected[s] = 0
  <2>1. Bit(t, Connectors(s)) \in {0, 1}
    BY BitType
  <2> QED
    BY <1>5, <2>1, JobBounds DEF Connects, IOType
<1>7. /\ pc'[t] = "reset" /\ \A u \in IOThread \ {t} : pc'[u] = pc[u]
      /\ fresh[t] = "none"
      /\ mConnected' = mConnected /\ mRefCount' = mRefCount
  BY <1>2, <1>3, <1>4, <1>6 DEF SendingTypeOK, SendThreadOK, JobTypes, Creating
<1>8. ~crashed'
  <2>1. mConnected[s] = 0 /\ mRefCount[s] = 0
    BY <1>4, <1>6
  <2> QED
    BY <1>3, <2>1
<1>9. JobOnly(t, s)
  BY <1>1, <1>3, <1>7 DEF JobOnly, StepOn, StepOf
<1>10. JobTypes'
  BY <1>2, <1>3, <1>7 DEF JobTypes, jobVars
<1>11. JobThreadOK(t)'
  <2>1. back[t] = "idle" \/ mSendBufferLock[s] = t
    BY <1>1, <1>2, <1>4 DEF JobThreadOK
  <2>2. ~(packets[t] > 0) /\ kind[t] # "none"
    BY <1>2, <1>3 DEF JobThreadOK
  <2> QED
    BY <1>1, <1>3, <1>7, <2>1, <2>2 DEF JobThreadOK, RecvTypes
<1>12. /\ t \in JobHandlers(s)' <=> t \in JobHandlers(s)
       /\ t \notin Creators(s)' /\ t \notin Creators(s)
       /\ t \notin Connectors(s)' /\ t \notin Connectors(s)
       /\ t \notin Accepting(s)' /\ t \notin Accepting(s)
       /\ t \notin Delivering(s)' /\ t \notin Delivering(s)
  BY <1>1, <1>3, <1>7 DEF JobHandlers, Handlers, Creators, Connectors, Accepting, Delivering
<1>13. /\ Bit(t, JobHandlers(s)') = Bit(t, JobHandlers(s))
       /\ Bit(t, Creators(s)') = Bit(t, Creators(s))
       /\ Bit(t, Connectors(s)') = Bit(t, Connectors(s))
       /\ Bit(t, Accepting(s)') = Bit(t, Accepting(s))
       /\ Bit(t, Delivering(s)') = Bit(t, Delivering(s))
  BY <1>12 DEF Bit
<1>14. Loads(s)' = Loads(s) /\ InFlight(s)' = InFlight(s) /\ IssueRef(s)' = IssueRef(s)
  BY <1>3, <1>9, JobElsewhere DEF InFlight, IssueRef
<1>15. mRefCount'[s] - JobRefs(t, s)' = mRefCount[s] - JobRefs(t, s)
  BY <1>7, <1>13, <1>14, JobPrimes DEF JobRefs
<1>16. Connects(t, s)' = Connects(t, s)
  BY <1>3, <1>7, <1>13, <1>14, JobPrimes DEF Connects
<1>17. LoadsOf(t, s)' = LoadsOf(t, s)
  BY <1>3, <1>13, <1>14, JobPrimes DEF LoadsOf
<1>18. Connects(t, s)' <= Connects(t, s) /\ LoadsOf(t, s)' <= LoadsOf(t, s)
  BY <1>16, <1>17, JobBounds
<1>19. mRefCount'[s] = 0
  BY <1>4, <1>7
<1> QED
  BY <1>3, <1>4, <1>8, <1>9, <1>10, <1>11, <1>12, <1>15, <1>18, <1>19, JobStep
-----------------------------------------------------------------------------
(* Steps of the database pipeline.                                         *)

\* A connection loads its player once: while one part of the load of s is
\* there, no other is.
LEMMA LoadAlone ==
  ASSUME JobLifeInv, SendInv, NEW s \in Session
  PROVE  /\ Loads(s) = 0 <=> Requests(s) = {} /\ Running(s) = {}
         /\ pending[s]["IO_ACCEPT"] > 0 \/ Accepting(s) # {} =>
              /\ Loads(s) = 0 /\ pending[s]["CK_DB_RESULT"] = 0 /\ Delivering(s) = {}
              /\ \A c \in results : c.mSessionObject # s
         /\ Loads(s) > 0 =>
              /\ Loads(s) = 1
              /\ pending[s]["IO_ACCEPT"] = 0 /\ Accepting(s) = {}
              /\ pending[s]["CK_DB_RESULT"] = 0 /\ Delivering(s) = {}
              /\ \A c \in results : c.mSessionObject # s
         /\ Delivering(s) # {} =>
              Loads(s) = 0 /\ pending[s]["IO_ACCEPT"] = 0 /\ Accepting(s) = {}
              /\ pending[s]["CK_DB_RESULT"] = 0 /\ Cardinality(Delivering(s)) = 1
<1>1. JobTypes /\ LoadOnce /\ ResultsPosted
  BY DEF JobLifeInv
<1>2. /\ Loads(s) \in Nat /\ \A k \in IOType : pending[s][k] \in Nat
      /\ Cardinality(Requests(s)) \in Nat /\ Cardinality(Running(s)) \in Nat
      /\ IsFiniteSet(Requests(s)) /\ IsFiniteSet(Running(s))
  BY <1>1, JobCounts
<1>3. Accepting(s) \subseteq IOThread /\ Delivering(s) \subseteq IOThread
  BY DEF Accepting, Delivering
<1>4. /\ Cardinality(Accepting(s)) \in Nat /\ (Cardinality(Accepting(s)) = 0 <=> Accepting(s) = {})
      /\ Cardinality(Delivering(s)) \in Nat /\ (Cardinality(Delivering(s)) = 0 <=> Delivering(s) = {})
  BY <1>3, NoThread
<1>5. Loads(s) = 0 <=> Requests(s) = {} /\ Running(s) = {}
  <2>1. Cardinality(Requests(s)) = 0 <=> Requests(s) = {}
    BY <1>2, FS_EmptySet
  <2>2. Cardinality(Running(s)) = 0 <=> Running(s) = {}
    BY <1>2, FS_EmptySet
  <2>3. Loads(s) = 0 <=> Cardinality(Requests(s)) = 0 /\ Cardinality(Running(s)) = 0
    BY <1>2 DEF Loads
  <2> QED
    BY <2>1, <2>2, <2>3
<1>6. pending[s]["IO_ACCEPT"] + Cardinality(Accepting(s)) + Loads(s)
        + pending[s]["CK_DB_RESULT"] + Cardinality(Delivering(s)) <= 1
  BY <1>1 DEF LoadOnce
<1>7. pending[s]["IO_ACCEPT"] \in Nat /\ pending[s]["CK_DB_RESULT"] \in Nat
  BY <1>2 DEF IOType
<1>8. pending[s]["CK_DB_RESULT"] = 0 /\ Delivering(s) = {} =>
        \A c \in results : c.mSessionObject # s
  <2>1. ~(0 > 0)
    OBVIOUS
  <2> QED
    BY <1>1, <2>1 DEF ResultsPosted
<1>9. pending[s]["IO_ACCEPT"] > 0 \/ Accepting(s) # {} =>
        Loads(s) = 0 /\ pending[s]["CK_DB_RESULT"] = 0 /\ Delivering(s) = {}
  BY <1>2, <1>4, <1>6, <1>7
<1>10. Loads(s) > 0 =>
         /\ Loads(s) = 1 /\ pending[s]["IO_ACCEPT"] = 0 /\ Accepting(s) = {}
         /\ pending[s]["CK_DB_RESULT"] = 0 /\ Delivering(s) = {}
  BY <1>2, <1>4, <1>6, <1>7
<1>11. Delivering(s) # {} =>
         /\ Loads(s) = 0 /\ pending[s]["IO_ACCEPT"] = 0 /\ Accepting(s) = {}
         /\ pending[s]["CK_DB_RESULT"] = 0 /\ Cardinality(Delivering(s)) = 1
  BY <1>2, <1>4, <1>6, <1>7
<1> QED
  BY <1>5, <1>8, <1>9, <1>10, <1>11

\* The pool in a step on a session that is not in it.
LEMMA JobPool ==
  ASSUME JobLifeInv, NEW t \in IOThread, NEW s \in Session, StepOn(t, s), s \notin Free,
         mFreeSessionList' = mFreeSessionList,
         \A r \in Session \ {s} : mPlayerId'[r] = mPlayerId[r],
         Returning(t)' => ses'[t] = s
  PROVE  PoolOK'
<1>1. PoolOK /\ Free' = Free /\ Free \subseteq Session
  BY DEF JobLifeInv, JobTypes, Free
<1>2. ASSUME NEW r \in Free
      PROVE  /\ mRefCount'[r] = 0 /\ mPlayerId'[r] = NoPlayer
             /\ \A u \in IOThread : Returning(u)' => ses'[u] # r
  <2>1. r \in Session \ {s} /\ mRefCount[r] = 0 /\ mPlayerId[r] = NoPlayer
    BY <1>1 DEF PoolOK
  <2>2. ASSUME NEW u \in IOThread, Returning(u)' PROVE ses'[u] # r
    <3>1. CASE u = t
      BY <2>1, <2>2, <3>1
    <3>2. CASE u # t
      BY <1>1, <2>2, <3>2 DEF StepOn, StepOf, Returning, PoolOK
    <3> QED
      BY <3>1, <3>2
  <2> QED
    BY <2>1, <2>2 DEF StepOn
<1>3. \A i, j \in 1 .. Len(mFreeSessionList') :
        mFreeSessionList'[i] = mFreeSessionList'[j] => i = j
  BY <1>1 DEF PoolOK
<1> QED
  BY <1>1, <1>2, <1>3 DEF PoolOK

\* What the pipeline has of the sessions other than s, in a step on s.
LEMMA RowsFrame ==
  ASSUME JobLifeInv, NEW t \in IOThread, NEW s \in Session, StepOn(t, s),
         \A r \in Session \ {s} : mPlayerId'[r] = mPlayerId[r] /\ asked'[r] = asked[r],
         NEW r \in Session, r # s
  PROVE  /\ mPlayerId'[r] \in {NoPlayer, asked'[r]}
         /\ pending'[r]["IO_ACCEPT"] > 0 \/ Accepting(r)' # {} => mPlayerId'[r] = NoPlayer
         /\ Delivering(r)' = Delivering(r) /\ pending'[r] = pending[r]
<1>1. Accepting(r)' = Accepting(r) /\ Delivering(r)' = Delivering(r) /\ pending'[r] = pending[r]
  BY JobSets DEF StepOn
<1> QED
  BY <1>1 DEF JobLifeInv, RowsAsked

\* mPlayer.RequestLoad at the end of AcceptCompletion: the connection has asked
\* for nothing before.
LEMMA JobPostRequest ==
  ASSUME JobLifeInv, SendInv, SendInv', NEW t \in IOThread,
         NEW n \in 0 .. MaxPlayerId - 1, NEW ok, PostRequest(t, n, ok)
  PROVE  JobLifeInv'
<1>1. PICK s \in Session : ses[t] = s
  BY HasSession DEF PostRequest
<1>2. JobThreadOK(t) /\ SendThreadOK(t) /\ SendingTypeOK /\ JobTypes
  BY DEF JobLifeInv, SendInv
<1> DEFINE c == [mSessionObject |-> s, mPlayerId |-> n, mSuccess |-> FALSE]
<1>3. /\ pc[t] = "subscribe" /\ pc' = [pc EXCEPT ![t] = "finish"]
      /\ mRefCount' = [mRefCount EXCEPT ![s] = @ + 1]
      /\ requests' = requests \union {c} /\ asked' = [asked EXCEPT ![s] = n]
      /\ UNCHANGED <<mConnected, mSendBufferLock, pending, fresh, crashed, mFreeSessionList,
                     ses, kind, back, packets, issued, LSendRequestSessionList,
                     mPlayerId, running, results>>
  BY <1>1 DEF PostRequest, Goto, Local, poolVars, sendVars
<1>4. /\ pc'[t] = "finish" /\ fresh[t] = "none" /\ kind[t] = "IO_ACCEPT"
      /\ \A u \in IOThread \ {t} : pc'[u] = pc[u]
      /\ mRefCount'[s] = mRefCount[s] + 1 /\ mRefCount' \in [Session -> Int]
      /\ \A r \in Session \ {s} : mRefCount'[r] = mRefCount[r]
  BY <1>2, <1>3 DEF SendingTypeOK, SendThreadOK, JobThreadOK, JobTypes, Creating
<1>5. /\ n \in 0 .. MaxPlayerId - 1 /\ n \in Int
      /\ asked'[s] = n /\ \A r \in Session \ {s} : asked'[r] = asked[r]
      /\ asked' \in [Session -> Int]
  BY <1>2, <1>3, DatabaseAssumption DEF JobTypes
<1>6. c \in Context /\ c.mSessionObject = s /\ c.mPlayerId = n
  BY <1>5 DEF Context
<1>7. StepOn(t, s)
  BY <1>1, <1>3, <1>4 DEF StepOn, StepOf
<1>8. JobTypes'
  <2>1. IsFiniteSet(requests') /\ requests' \subseteq Context
    BY <1>2, <1>3, <1>6, FS_AddElement DEF JobTypes
  <2> QED
    BY <1>2, <1>3, <1>4, <1>5, <2>1 DEF JobTypes
<1>9. JobThreadOK(t)' /\ ~Returning(t)' /\ ~Returning(t)
  BY <1>2, <1>3, <1>4 DEF JobThreadOK, Returning, RecvTypes
<1>10. /\ t \in JobHandlers(s)' /\ t \in JobHandlers(s)
       /\ t \notin Creators(s)' /\ t \notin Creators(s)
       /\ t \notin Connectors(s)' /\ t \notin Connectors(s)
       /\ t \notin Accepting(s)' /\ t \in Accepting(s)
       /\ t \notin Delivering(s)' /\ t \notin Delivering(s)
  BY <1>1, <1>3, <1>4 DEF JobHandlers, Handlers, Creators, Connectors, Accepting, Delivering
<1>11. /\ Bit(t, JobHandlers(s)') = 1 /\ Bit(t, JobHandlers(s)) = 1
       /\ Bit(t, Creators(s)') = 0 /\ Bit(t, Creators(s)) = 0
       /\ Bit(t, Connectors(s)') = 0 /\ Bit(t, Connectors(s)) = 0
       /\ Bit(t, Accepting(s)') = 0 /\ Bit(t, Accepting(s)) = 1
       /\ Bit(t, Delivering(s)') = 0 /\ Bit(t, Delivering(s)) = 0
  BY <1>10 DEF Bit
<1>12. /\ Loads(s) = 0 /\ Requests(s) = {} /\ Running(s) = {} /\ pending[s]["CK_DB_RESULT"] = 0
       /\ Delivering(s) = {} /\ \A e \in results : e.mSessionObject # s
  BY <1>10, LoadAlone
<1>13. Loads(s)' = 1
  <2>1. Requests(s)' = {c}
    BY <1>3, <1>6, <1>12 DEF Requests
  <2>2. Running(s)' = {}
    BY <1>3, <1>12 DEF Running
  <2>3. Cardinality({c}) = 1 /\ Cardinality({}) = 0
    BY FS_Singleton, FS_EmptySet
  <2>4. Loads(s)' = Cardinality(Requests(s)') + Cardinality(Running(s)')
    BY DEF Loads
  <2> QED
    BY <2>1, <2>2, <2>3, <2>4
<1>14. ASSUME NEW r \in Session \ {s} PROVE Loads(r)' = Loads(r)
  BY <1>3, <1>6 DEF Loads, Requests, Running
<1>15. InFlight(s)' = InFlight(s) /\ IssueRef(s)' = IssueRef(s)
  BY <1>3 DEF InFlight, IssueRef
<1>16. mRefCount'[s] - JobRefs(t, s)' = mRefCount[s] - JobRefs(t, s)
  BY <1>4, <1>11, <1>12, <1>13, <1>15, JobPrimes, JobBounds DEF JobRefs
<1>17. Connects(t, s)' <= Connects(t, s)
  BY <1>3, <1>11, <1>15, JobPrimes, JobBounds DEF Connects, IOType
<1>18. LoadsOf(t, s)' <= LoadsOf(t, s)
  BY <1>3, <1>11, <1>12, <1>13, JobPrimes, JobBounds DEF LoadsOf, IOType
<1>19. CountsAll' /\ ConnectOnce' /\ LoadOnce'
  BY <1>7, <1>8, <1>13, <1>14, <1>16, <1>17, <1>18, JobSums
<1>20. mRefCount[s] > 0 /\ s \notin Free
  <2>1. mRefCount[s] \in Nat /\ mRefCount[s] # 0
    BY <1>10, ZeroCount
  <2> QED
    BY <2>1 DEF JobLifeInv, PoolOK
<1>21. (\A u \in IOThread : JobThreadOK(u)') /\ ReturnsOnce'
  BY <1>7, <1>9, <1>20, JobFrame
<1>22. PoolOK'
  BY <1>3, <1>7, <1>9, <1>20, JobPool
<1>23. ResultsPosted'
  <2>1. results' = results /\ pending' = pending /\ results \subseteq Context /\ ResultsPosted
    BY <1>2, <1>3 DEF JobTypes, JobLifeInv
  <2>2. \A e \in results : e.mSessionObject \in Session \ {s}
    BY <1>12, <2>1 DEF Context
  <2>3. \A r \in Session \ {s} : Delivering(r)' = Delivering(r)
    BY <1>7, JobSets
  <2> QED
    BY <2>1, <2>2, <2>3 DEF ResultsPosted
<1>24. RowsAsked'
  <2>1. RowsAsked
    BY DEF JobLifeInv
  <2>2. mPlayerId'[s] = NoPlayer
    BY <1>3, <1>10, <2>1 DEF RowsAsked
  <2>3. ASSUME NEW r \in Session
        PROVE  /\ mPlayerId'[r] \in {NoPlayer, asked'[r]}
               /\ pending'[r]["IO_ACCEPT"] > 0 \/ Accepting(r)' # {} => mPlayerId'[r] = NoPlayer
    <3>1. CASE r = s
      BY <2>2, <3>1
    <3>2. CASE r # s
      BY <1>3, <1>5, <1>7, <3>2, RowsFrame
    <3> QED
      BY <3>1, <3>2
  <2>4. \A e \in requests \union results : e.mSessionObject \in Session \ {s}
    BY <1>2, <1>12 DEF Requests, JobTypes, Context
  <2>5. \A e \in requests' \union results' : e.mPlayerId = asked'[e.mSessionObject]
    BY <1>3, <1>5, <1>6, <2>1, <2>4 DEF RowsAsked
  <2>6. ASSUME NEW d \in DBThread, running'[d] # None
        PROVE  running'[d].mPlayerId = asked'[running'[d].mSessionObject]
    <3>1. running'[d] = running[d] /\ running[d] \in Context /\ d \notin Running(s)
      BY <1>2, <1>3, <1>12, <2>6 DEF JobTypes
    <3>2. running[d].mSessionObject \in Session \ {s}
      BY <2>6, <3>1 DEF Running, Context
    <3> QED
      BY <1>5, <2>1, <2>6, <3>1, <3>2 DEF RowsAsked
  <2> QED
    BY <2>3, <2>5, <2>6 DEF RowsAsked
<1>25. ~crashed'
  BY <1>3 DEF JobLifeInv
<1> QED
  BY <1>8, <1>19, <1>21, <1>22, <1>23, <1>24, <1>25 DEF JobLifeInv

\* OnResult: the row is the one that the connection has asked for.
LEMMA JobLoadResult ==
  ASSUME JobLifeInv, SendInv, SendInv', NEW t \in IOThread, OnLoadResult(t)
  PROVE  JobLifeInv'
<1>1. PICK s \in Session : ses[t] = s
  BY HasSession DEF OnLoadResult
<1>2. JobThreadOK(t) /\ SendThreadOK(t) /\ SendingTypeOK /\ JobTypes
  BY DEF JobLifeInv, SendInv
<1>3. PICK c \in results :
        /\ c.mSessionObject = s /\ results' = results \ {c}
        /\ mPlayerId' = IF c.mSuccess THEN [mPlayerId EXCEPT ![s] = c.mPlayerId] ELSE mPlayerId
  BY <1>1 DEF OnLoadResult
<1>4. /\ pc[t] = "send" /\ kind[t] = "CK_DB_RESULT" /\ pc' = [pc EXCEPT ![t] = "finish"]
      /\ UNCHANGED <<mConnected, mRefCount, mSendBufferLock, pending, fresh, crashed,
                     mFreeSessionList, ses, kind, back, packets, issued,
                     LSendRequestSessionList, requests, running, asked>>
  BY DEF OnLoadResult, Goto, Local, poolVars, sendVars, sessionVars
<1>5. /\ pc'[t] = "finish" /\ fresh[t] = "none" /\ \A u \in IOThread \ {t} : pc'[u] = pc[u]
  BY <1>2, <1>4 DEF SendingTypeOK, SendThreadOK, Creating
<1>6. /\ c \in Context /\ c.mPlayerId = asked[s] /\ mPlayerId[s] \in {NoPlayer, asked[s]}
  BY <1>2, <1>3 DEF JobLifeInv, JobTypes, RowsAsked
<1>7. /\ mPlayerId'[s] \in {NoPlayer, asked[s]} /\ mPlayerId' \in [Session -> Int]
      /\ \A r \in Session \ {s} : mPlayerId'[r] = mPlayerId[r]
  <2>1. c.mPlayerId \in Int
    BY <1>6, DatabaseAssumption DEF Context
  <2>2. CASE c.mSuccess
    BY <1>2, <1>3, <1>6, <2>1, <2>2 DEF JobTypes
  <2>3. CASE ~c.mSuccess
    BY <1>2, <1>3, <1>6, <2>3 DEF JobTypes
  <2> QED
    BY <2>2, <2>3
<1>8. StepOn(t, s)
  BY <1>1, <1>4, <1>5 DEF StepOn, StepOf
<1>9. JobTypes'
  <2>1. results' \subseteq Context
    BY <1>2, <1>3 DEF JobTypes
  <2> QED
    BY <1>2, <1>4, <1>7, <2>1 DEF JobTypes
<1>10. JobThreadOK(t)' /\ ~Returning(t)' /\ ~Returning(t)
  BY <1>2, <1>4, <1>5 DEF JobThreadOK, Returning, RecvTypes
<1>11. /\ t \in JobHandlers(s)' /\ t \in JobHandlers(s)
       /\ t \notin Creators(s)' /\ t \notin Creators(s)
       /\ t \notin Connectors(s)' /\ t \notin Connectors(s)
       /\ t \notin Accepting(s)' /\ t \notin Accepting(s)
       /\ t \notin Delivering(s)' /\ t \in Delivering(s)
  BY <1>1, <1>4, <1>5 DEF JobHandlers, Handlers, Creators, Connectors, Accepting, Delivering
<1>12. /\ Bit(t, JobHandlers(s)') = 1 /\ Bit(t, JobHandlers(s)) = 1
       /\ Bit(t, Creators(s)') = 0 /\ Bit(t, Creators(s)) = 0
       /\ Bit(t, Connectors(s)') = 0 /\ Bit(t, Connectors(s)) = 0
       /\ Bit(t, Accepting(s)') = 0 /\ Bit(t, Accepting(s)) = 0
       /\ Bit(t, Delivering(s)') = 0 /\ Bit(t, Delivering(s)) = 1
  BY <1>11 DEF Bit
<1>13. \A r \in Session : Loads(r)' = Loads(r)
  BY <1>4 DEF Loads, Requests, Running
<1>14. InFlight(s)' = InFlight(s) /\ IssueRef(s)' = IssueRef(s)
  BY <1>4 DEF InFlight, IssueRef
<1>15. mRefCount'[s] - JobRefs(t, s)' = mRefCount[s] - JobRefs(t, s)
  BY <1>4, <1>12, <1>13, <1>14, JobPrimes DEF JobRefs
<1>16. Connects(t, s)' <= Connects(t, s)
  BY <1>4, <1>12, <1>14, JobPrimes, JobBounds DEF Connects, IOType
<1>17. LoadsOf(t, s)' <= LoadsOf(t, s)
  BY <1>4, <1>12, <1>13, JobPrimes, JobBounds DEF LoadsOf, IOType
<1>18. CountsAll' /\ ConnectOnce' /\ LoadOnce'
  <2>1. Loads(s)' \in Nat
    BY <1>13, JobBounds
  <2> QED
    BY <1>8, <1>9, <1>13, <1>15, <1>16, <1>17, <2>1, JobSums
<1>19. mRefCount[s] > 0 /\ s \notin Free
  <2>1. mRefCount[s] \in Nat /\ mRefCount[s] # 0
    BY <1>11, ZeroCount
  <2> QED
    BY <2>1 DEF JobLifeInv, PoolOK
<1>20. (\A u \in IOThread : JobThreadOK(u)') /\ ReturnsOnce'
  BY <1>8, <1>10, <1>19, JobFrame
<1>21. PoolOK'
  BY <1>4, <1>7, <1>8, <1>10, <1>19, JobPool
<1>22. ResultsPosted'
  <2>1. pending' = pending /\ results' \subseteq results /\ results \subseteq Context /\ ResultsPosted
    BY <1>2, <1>3, <1>4 DEF JobTypes, JobLifeInv
  <2>2. \A e \in results' : e.mSessionObject \in Session \ {s}
    BY <1>3, <2>1 DEF Context, ResultsPosted
  <2>3. \A r \in Session \ {s} : Delivering(r)' = Delivering(r)
    BY <1>8, JobSets
  <2> QED
    BY <2>1, <2>2, <2>3 DEF ResultsPosted
<1>23. RowsAsked'
  <2>1. ASSUME NEW r \in Session
        PROVE  /\ mPlayerId'[r] \in {NoPlayer, asked'[r]}
               /\ pending'[r]["IO_ACCEPT"] > 0 \/ Accepting(r)' # {} => mPlayerId'[r] = NoPlayer
    <3>1. CASE r = s
      <4>1. pending'[s]["IO_ACCEPT"] = 0 /\ Accepting(s) = {}
        BY <1>4, <1>11, LoadAlone
      <4>2. Accepting(s)' = {}
        BY <1>8, <1>11, <4>1 DEF Accepting, StepOn, StepOf
      <4>3. ~(0 > 0)
        OBVIOUS
      <4> QED
        BY <1>4, <1>7, <3>1, <4>1, <4>2, <4>3
    <3>2. CASE r # s
      BY <1>4, <1>7, <1>8, <3>2, RowsFrame
    <3> QED
      BY <3>1, <3>2
  <2> QED
    BY <1>3, <1>4, <2>1 DEF RowsAsked, JobLifeInv
<1>24. ~crashed'
  BY <1>4 DEF JobLifeInv
<1> QED
  BY <1>9, <1>18, <1>20, <1>21, <1>22, <1>23, <1>24 DEF JobLifeInv

\* Nothing of the pipeline is left of a session that nobody refers to.
LEMMA NothingLeft ==
  ASSUME JobLifeInv, SendInv, NEW s \in Session, mRefCount[s] = 0
  PROVE  /\ Loads(s) = 0 /\ Requests(s) = {} /\ Running(s) = {}
         /\ Accepting(s) = {} /\ Delivering(s) = {} /\ Creators(s) = {}
         /\ \A c \in requests \union results : c.mSessionObject \in Session \ {s}
         /\ \A d \in DBThread : running[d] # None => running[d].mSessionObject \in Session \ {s}
<1>1. /\ Loads(s) = 0 /\ JobHandlers(s) = {} /\ Creators(s) = {}
      /\ pending[s]["CK_DB_RESULT"] = 0
  BY ZeroCount DEF IOType
<1>2. Accepting(s) = {} /\ Delivering(s) = {}
  BY <1>1 DEF JobHandlers, Handlers, Accepting, Delivering
<1>3. Requests(s) = {} /\ Running(s) = {}
  BY <1>1, LoadAlone
<1>4. /\ requests \subseteq Context /\ results \subseteq Context
      /\ running \in [DBThread -> Context \union {None}]
  BY DEF JobLifeInv, JobTypes
<1>5. \A c \in results : c.mSessionObject # s
  <2>1. ~(0 > 0)
    OBVIOUS
  <2> QED
    BY <1>1, <1>2, <2>1 DEF JobLifeInv, ResultsPosted
<1>6. \A c \in requests \union results : c.mSessionObject \in Session \ {s}
  BY <1>3, <1>4, <1>5 DEF Requests, Context
<1>7. \A d \in DBThread : running[d] # None => running[d].mSessionObject \in Session \ {s}
  BY <1>3, <1>4 DEF Running, Context
<1> QED
  BY <1>1, <1>2, <1>3, <1>6, <1>7

\* SessionReset: the session goes back to the pool, where it was not yet, with
\* nothing left of its connection.
LEMMA JobReset ==
  ASSUME JobLifeInv, SendInv, SendInv', NEW t \in IOThread, ResetWithPlayer(t)
  PROVE  JobLifeInv'
<1>1. PICK s \in Session : ses[t] = s
  BY HasSession DEF ResetWithPlayer, ResetSends, SessionReset
<1>2. JobThreadOK(t) /\ SendThreadOK(t) /\ SendingTypeOK /\ JobTypes
  BY DEF JobLifeInv, SendInv
<1>3. /\ pc[t] = "reset" /\ mSendBufferLock[s] = None
      /\ mFreeSessionList' = Append(mFreeSessionList, s)
      /\ mPlayerId' = [mPlayerId EXCEPT ![s] = NoPlayer]
      /\ asked' = [asked EXCEPT ![s] = NoPlayer]
      /\ back' = [back EXCEPT ![t] = "none"]
      /\ UNCHANGED <<mConnected, mRefCount, mSendBufferLock, pending, fresh, crashed, packets,
                     issued, LSendRequestSessionList, requests, running, results>>
  BY <1>1 DEF ResetWithPlayer, ResetSends, SessionReset, sessionVars
<1>4. Returning(t) /\ mRefCount[s] = 0
  BY <1>1, <1>3 DEF Returning, JobLifeInv, ReturnsOnce
<1>5. back[t] = "idle"
  BY <1>1, <1>2, <1>3, <1>4, ThreadAssumption DEF JobThreadOK
<1>6. /\ pc' = [pc EXCEPT ![t] = "idle"] /\ ses' = [ses EXCEPT ![t] = None]
      /\ kind' = [kind EXCEPT ![t] = "none"]
  BY <1>5 DEF ResetWithPlayer, ResetSends, SessionReset, Resume, Goto
<1>7. /\ pc'[t] = "idle" /\ ses'[t] = None /\ kind'[t] = "none" /\ fresh[t] = "none"
      /\ \A u \in IOThread \ {t} : /\ pc'[u] = pc[u] /\ ses'[u] = ses[u] /\ kind'[u] = kind[u]
                                   /\ back'[u] = back[u]
      /\ mPlayerId'[s] = NoPlayer /\ asked'[s] = NoPlayer
      /\ \A r \in Session \ {s} : mPlayerId'[r] = mPlayerId[r] /\ asked'[r] = asked[r]
  BY <1>2, <1>3, <1>6 DEF SendingTypeOK, SendThreadOK, JobTypes, Creating
<1>8. StepOn(t, s)
  BY <1>1, <1>3, <1>7 DEF StepOn, StepOf
<1>9. JobTypes'
  <2>1. NoPlayer \in Int
    BY DEF NoPlayer
  <2>2. mFreeSessionList' \in Seq(Session)
    BY <1>2, <1>3, AppendProperties DEF JobTypes
  <2>3. mPlayerId' \in [Session -> Int] /\ asked' \in [Session -> Int]
    BY <1>2, <1>3, <2>1 DEF JobTypes
  <2> QED
    BY <1>2, <1>3, <2>2, <2>3 DEF JobTypes
<1>10. JobThreadOK(t)' /\ ~Returning(t)'
  <2>1. ~(packets[t] > 0)
    BY <1>2, <1>3 DEF JobThreadOK
  <2> QED
    BY <1>3, <1>7, <2>1 DEF JobThreadOK, Returning, RecvTypes
<1>11. /\ t \notin JobHandlers(s)' /\ t \notin JobHandlers(s)
       /\ t \notin Creators(s)' /\ t \notin Creators(s)
       /\ t \notin Connectors(s)'
       /\ t \notin Accepting(s)' /\ t \notin Accepting(s)
       /\ t \notin Delivering(s)' /\ t \notin Delivering(s)
  BY <1>1, <1>3, <1>5, <1>7, SessionAssumption
  DEF JobHandlers, Handlers, Creators, Connectors, Accepting, Delivering
<1>12. /\ Bit(t, JobHandlers(s)') = 0 /\ Bit(t, JobHandlers(s)) = 0
       /\ Bit(t, Creators(s)') = 0 /\ Bit(t, Creators(s)) = 0
       /\ Bit(t, Connectors(s)') = 0 /\ Bit(t, Connectors(s)) \in {0, 1}
       /\ Bit(t, Accepting(s)') = 0 /\ Bit(t, Accepting(s)) = 0
       /\ Bit(t, Delivering(s)') = 0 /\ Bit(t, Delivering(s)) = 0
  BY <1>11 DEF Bit
<1>13. \A r \in Session : Loads(r)' = Loads(r)
  BY <1>3 DEF Loads, Requests, Running
<1>14. InFlight(s)' = InFlight(s) /\ IssueRef(s)' = IssueRef(s)
  BY <1>3 DEF InFlight, IssueRef
<1>15. mRefCount'[s] - JobRefs(t, s)' = mRefCount[s] - JobRefs(t, s)
  BY <1>3, <1>12, <1>13, <1>14, JobPrimes DEF JobRefs
<1>16. Connects(t, s)' <= Connects(t, s)
  <2>1. Connects(t, s)' = pending[s]["IO_ACCEPT"] + mConnected[s] + pending[s]["IO_DISCONNECT"]
                            - IssueRef(s)
    <3>1. /\ Connects(t, s)' = pending'[s]["IO_ACCEPT"] + mConnected'[s]
                                + pending'[s]["IO_DISCONNECT"] + Bit(t, Connectors(s)') - IssueRef(s)'
          /\ Bit(t, Connectors(s)') = 0
      BY <1>12, JobPrimes
    <3>2. /\ pending[s]["IO_ACCEPT"] \in Nat /\ pending[s]["IO_DISCONNECT"] \in Nat
          /\ mConnected[s] \in {0, 1} /\ IssueRef(s) \in {0, 1}
      BY JobBounds DEF IOType
    <3>3. pending' = pending /\ mConnected' = mConnected
      BY <1>3
    <3> QED
      BY <1>14, <3>1, <3>2, <3>3
  <2> QED
    BY <1>12, <2>1, JobBounds DEF Connects, IOType
<1>17. LoadsOf(t, s)' <= LoadsOf(t, s)
  BY <1>3, <1>12, <1>13, JobPrimes, JobBounds DEF LoadsOf, IOType
<1>18. CountsAll' /\ ConnectOnce' /\ LoadOnce'
  <2>1. Loads(s)' \in Nat
    BY <1>13, JobBounds
  <2> QED
    BY <1>8, <1>9, <1>13, <1>15, <1>16, <1>17, <2>1, JobSums
<1>19. (\A u \in IOThread : JobThreadOK(u)') /\ ReturnsOnce'
  BY <1>4, <1>8, <1>10, JobFrame
<1>20. /\ \A c \in requests \union results : c.mSessionObject \in Session \ {s}
       /\ \A d \in DBThread : running[d] # None => running[d].mSessionObject \in Session \ {s}
  BY <1>4, NothingLeft
<1>21. PoolOK'
  <2>1. PoolOK /\ mFreeSessionList \in Seq(Session) /\ s \notin Free
    BY <1>1, <1>2, <1>4 DEF JobLifeInv, JobTypes, PoolOK
  <2>2. /\ Len(mFreeSessionList') = Len(mFreeSessionList) + 1 /\ Len(mFreeSessionList) \in Nat
        /\ \A i \in 1 .. Len(mFreeSessionList) : mFreeSessionList'[i] = mFreeSessionList[i]
        /\ mFreeSessionList'[Len(mFreeSessionList) + 1] = s
    BY <1>3, <2>1, AppendProperties, LenProperties
  <2>3. \A i \in 1 .. Len(mFreeSessionList) : mFreeSessionList[i] # s
    BY <2>1 DEF Free
  <2>4. \A i \in 1 .. Len(mFreeSessionList') :
          i \in 1 .. Len(mFreeSessionList) \/ i = Len(mFreeSessionList) + 1
    BY <2>2
  <2>5. \A i, j \in 1 .. Len(mFreeSessionList') :
          mFreeSessionList'[i] = mFreeSessionList'[j] => i = j
    BY <2>1, <2>2, <2>3, <2>4 DEF PoolOK
  <2>6. Free' \subseteq Free \union {s}
    <3>1. ASSUME NEW r \in Free' PROVE r \in Free \union {s}
      <4>1. PICK i \in 1 .. Len(mFreeSessionList') : r = mFreeSessionList'[i]
        BY <3>1 DEF Free
      <4> QED
        BY <2>2, <2>4, <4>1 DEF Free
    <3> QED
      BY <3>1
  <2>7. ASSUME NEW r \in Free'
        PROVE  /\ mRefCount'[r] = 0 /\ mPlayerId'[r] = NoPlayer
               /\ \A u \in IOThread : Returning(u)' => ses'[u] # r
    <3>1. \A u \in IOThread : Returning(u)' => u # t /\ Returning(u) /\ ses'[u] = ses[u]
      BY <1>7, <1>10 DEF Returning
    <3>2. CASE r = s
      BY <1>1, <1>3, <1>4, <1>7, <3>1, <3>2 DEF JobLifeInv, ReturnsOnce
    <3>3. CASE r # s
      <4>1. r \in Free /\ r \in Session
        BY <2>1, <2>6, <3>3 DEF Free
      <4> QED
        BY <1>3, <1>7, <2>1, <3>1, <3>3, <4>1 DEF PoolOK
    <3> QED
      BY <3>2, <3>3
  <2> QED
    BY <2>5, <2>7 DEF PoolOK
<1>22. ResultsPosted'
  <2>1. results' = results /\ pending' = pending /\ ResultsPosted
    BY <1>3 DEF JobLifeInv
  <2>2. \A r \in Session \ {s} : Delivering(r)' = Delivering(r)
    BY <1>8, JobSets
  <2> QED
    BY <1>20, <2>1, <2>2 DEF ResultsPosted
<1>23. RowsAsked'
  <2>1. ASSUME NEW r \in Session
        PROVE  /\ mPlayerId'[r] \in {NoPlayer, asked'[r]}
               /\ pending'[r]["IO_ACCEPT"] > 0 \/ Accepting(r)' # {} => mPlayerId'[r] = NoPlayer
    <3>1. CASE r = s
      BY <1>7, <3>1
    <3>2. CASE r # s
      BY <1>7, <1>8, <3>2, RowsFrame
    <3> QED
      BY <3>1, <3>2
  <2>2. requests' = requests /\ results' = results /\ running' = running /\ RowsAsked
    BY <1>3 DEF JobLifeInv
  <2>3. \A c \in requests \union results : c.mPlayerId = asked'[c.mSessionObject]
    BY <1>7, <1>20, <2>2 DEF RowsAsked
  <2>4. \A d \in DBThread : running[d] # None =>
          running[d].mPlayerId = asked'[running[d].mSessionObject]
    BY <1>7, <1>20, <2>2 DEF RowsAsked
  <2> QED
    BY <2>1, <2>2, <2>3, <2>4 DEF RowsAsked
<1>24. ~crashed'
  BY <1>3 DEF JobLifeInv
<1> QED
  BY <1>9, <1>18, <1>19, <1>21, <1>22, <1>23, <1>24 DEF JobLifeInv

-----------------------------------------------------------------------------
(* Steps of the main thread and of the database threads.                   *)

\* A step on session s that no I/O thread takes.
StepOff(s) ==
  /\ UNCHANGED <<pc, ses, kind, fresh, back, packets, mSendBufferLock>>
  /\ mConnected' = mConnected
  /\ \A r \in Session \ {s} :
       /\ mRefCount'[r] = mRefCount[r] /\ pending'[r] = pending[r] /\ issued'[r] = issued[r]
       /\ Loads(r)' = Loads(r)

LEMMA OffSets ==
  ASSUME UNCHANGED <<pc, ses, kind, fresh, back>>, NEW r \in Session
  PROVE  /\ JobHandlers(r)' = JobHandlers(r) /\ Creators(r)' = Creators(r)
         /\ Connectors(r)' = Connectors(r) /\ Accepting(r)' = Accepting(r)
         /\ Delivering(r)' = Delivering(r)
         /\ \A u \in IOThread : Returning(u)' <=> Returning(u)
BY DEF JobHandlers, Handlers, Creators, Connectors, Accepting, Delivering, Returning

\* The threads stay where they are, and the counts follow from those of s.
LEMMA OffStep ==
  ASSUME JobLifeInv, NEW s \in Session, StepOff(s),
         mRefCount'[s] = InFlight(s)' + Loads(s)' + Cardinality(JobHandlers(s))
                           + Cardinality(Creators(s)) + IssueRef(s)',
         pending'[s]["IO_ACCEPT"] + mConnected[s] + pending'[s]["IO_DISCONNECT"]
           + Cardinality(Connectors(s)) <= IssueRef(s)',
         pending'[s]["IO_ACCEPT"] + Cardinality(Accepting(s)) + Loads(s)'
           + pending'[s]["CK_DB_RESULT"] + Cardinality(Delivering(s)) <= 1
  PROVE  /\ \A u \in IOThread : JobThreadOK(u)'
         /\ CountsAll' /\ ConnectOnce' /\ LoadOnce'
<1>1. ASSUME NEW u \in IOThread PROVE JobThreadOK(u)'
  BY DEF JobLifeInv, StepOff, JobThreadOK, Returning
<1>2. ASSUME NEW r \in Session
      PROVE  /\ JobHandlers(r)' = JobHandlers(r) /\ Creators(r)' = Creators(r)
             /\ Connectors(r)' = Connectors(r) /\ Accepting(r)' = Accepting(r)
             /\ Delivering(r)' = Delivering(r) /\ mConnected' = mConnected
             /\ r # s => /\ InFlight(r)' = InFlight(r) /\ IssueRef(r)' = IssueRef(r)
                         /\ Loads(r)' = Loads(r) /\ mRefCount'[r] = mRefCount[r]
                         /\ pending'[r] = pending[r]
  BY OffSets DEF StepOff, InFlight, IssueRef
<1>3. CountsAll'
  <2>1. ASSUME NEW r \in Session
        PROVE  mRefCount'[r] = InFlight(r)' + Loads(r)' + Cardinality(JobHandlers(r)')
                                 + Cardinality(Creators(r)') + IssueRef(r)'
    BY <1>2 DEF JobLifeInv, CountsAll
  <2> QED
    BY <2>1 DEF CountsAll
<1>4. ConnectOnce'
  <2>1. ASSUME NEW r \in Session
        PROVE  pending'[r]["IO_ACCEPT"] + mConnected'[r] + pending'[r]["IO_DISCONNECT"]
                 + Cardinality(Connectors(r)') <= IssueRef(r)'
    BY <1>2 DEF JobLifeInv, ConnectOnce
  <2> QED
    BY <2>1 DEF ConnectOnce
<1>5. LoadOnce'
  <2>1. ASSUME NEW r \in Session
        PROVE  pending'[r]["IO_ACCEPT"] + Cardinality(Accepting(r)') + Loads(r)'
                 + pending'[r]["CK_DB_RESULT"] + Cardinality(Delivering(r)') <= 1
    BY <1>2 DEF JobLifeInv, LoadOnce
  <2> QED
    BY <2>1 DEF LoadOnce
<1> QED
  BY <1>1, <1>3, <1>4, <1>5

\* A list without its last entry.
LEMMA AllButLast ==
  ASSUME NEW S, NEW l \in Seq(S), NEW n \in Nat, n = Len(l), n >= 1
  PROVE  /\ SubSeq(l, 1, n - 1) \in Seq(S) /\ Len(SubSeq(l, 1, n - 1)) = n - 1
         /\ \A i \in 1 .. n - 1 : SubSeq(l, 1, n - 1)[i] = l[i]
<1>1. PICK m \in Nat : m = n - 1
  OBVIOUS
<1>2. \A i \in 1 .. m : l[i] \in S
  BY <1>1, ElementOfSeq
<1>3. /\ SubSeq(l, 1, m) \in Seq(S)
      /\ Len(SubSeq(l, 1, m)) = IF 1 <= m THEN m - 1 + 1 ELSE 0
      /\ \A i \in 1 .. m - 1 + 1 : SubSeq(l, 1, m)[i] = l[1 + i - 1]
  BY <1>2, SubSeqProperties
<1>4. /\ SubSeq(l, 1, m) \in Seq(S) /\ Len(SubSeq(l, 1, m)) = m
      /\ \A i \in 1 .. m : SubSeq(l, 1, m)[i] = l[i]
  BY <1>3
<1> QED
  BY <1>1, <1>4

\* AcceptClientSessions issues the session at the back of the pool: nothing is
\* left of its last connection.
LEMMA JobAcceptOne ==
  ASSUME JobLifeInv, SendInv, SendInv', NEW ok \in BOOLEAN, AcceptOne(ok),
         UNCHANGED <<sendVars, jobVars>>
  PROVE  JobLifeInv'
<1>1. SendingTypeOK /\ JobTypes /\ PoolOK
  BY DEF JobLifeInv, SendInv
<1> DEFINE n == Len(mFreeSessionList)
<1>2. /\ mFreeSessionList \in Seq(Session) /\ mFreeSessionList # << >>
      /\ n \in Nat /\ n >= 1
  <2>1. mFreeSessionList \in Seq(Session) /\ mFreeSessionList # << >>
    BY <1>1 DEF AcceptOne, JobTypes
  <2> QED
    BY <2>1, EmptySeq, LenProperties
<1>3. PICK s \in Session : s = mFreeSessionList[n]
  BY <1>2, LenProperties, ElementOfSeq
<1>4. s \in Free
  BY <1>2, <1>3 DEF Free
<1>5. /\ mRefCount' = [mRefCount EXCEPT ![s] = @ + IF ok THEN 2 ELSE 1]
      /\ pending' = IF ok THEN [pending EXCEPT ![s]["IO_ACCEPT"] = @ + 1] ELSE pending
      /\ issued' = [issued EXCEPT ![s] = TRUE]
      /\ mFreeSessionList' = SubSeq(mFreeSessionList, 1, n - 1)
      /\ UNCHANGED <<mConnected, mSendBufferLock, crashed, pc, ses, kind, fresh, back, packets>>
  BY <1>3 DEF AcceptOne, threadVars
<1>6. mRefCount[s] = 0 /\ mPlayerId[s] = NoPlayer
  BY <1>1, <1>4 DEF PoolOK
<1>7. /\ InFlight(s) = 0 /\ JobHandlers(s) = {} /\ Creators(s) = {} /\ IssueRef(s) = 0
      /\ \A k \in IOType : pending[s][k] = 0
  BY <1>6, ZeroCount
<1>8. Loads(s) = 0 /\ Accepting(s) = {} /\ Delivering(s) = {}
  BY <1>6, NothingLeft
<1>9. mConnected[s] = 0 /\ Cardinality(Connectors(s)) = 0
  <2>1. Connectors(s) \subseteq IOThread
    BY DEF Connectors
  <2>2. Cardinality(Connectors(s)) \in Nat
    BY <2>1, NoThread
  <2>3. mConnected[s] \in {0, 1}
    BY <1>1 DEF JobTypes
  <2>4. pending[s]["IO_ACCEPT"] + mConnected[s] + pending[s]["IO_DISCONNECT"]
          + Cardinality(Connectors(s)) <= 0
    BY <1>7 DEF JobLifeInv, ConnectOnce
  <2>5. pending[s]["IO_ACCEPT"] = 0 /\ pending[s]["IO_DISCONNECT"] = 0
    BY <1>7 DEF IOType
  <2> QED
    BY <2>2, <2>3, <2>4, <2>5
<1>10. Cardinality(JobHandlers(s)) = 0 /\ Cardinality(Creators(s)) = 0
       /\ Cardinality(Accepting(s)) = 0 /\ Cardinality(Delivering(s)) = 0
  BY <1>7, <1>8, FS_EmptySet
<1>11. /\ mRefCount'[s] = (IF ok THEN 2 ELSE 1) /\ IssueRef(s)' = 1
       /\ \A r \in Session \ {s} :
            mRefCount'[r] = mRefCount[r] /\ pending'[r] = pending[r] /\ issued'[r] = issued[r]
       /\ mRefCount' \in [Session -> Int] /\ issued' \in [Session -> BOOLEAN]
  BY <1>1, <1>5, <1>6 DEF JobTypes, SendingTypeOK, IssueRef
<1>12. /\ pending'[s]["IO_ACCEPT"] = (IF ok THEN 1 ELSE 0)
       /\ \A k \in IOType \ {"IO_ACCEPT"} : pending'[s][k] = 0
  BY <1>1, <1>5, <1>7 DEF SendingTypeOK, IOType
<1>13. InFlight(s)' = IF ok THEN 1 ELSE 0
  BY <1>12 DEF InFlight, IOType
<1>14. \A r \in Session : Loads(r)' = Loads(r)
  BY DEF Loads, Requests, Running, jobVars
<1>15. StepOff(s)
  BY <1>5, <1>11, <1>14 DEF StepOff
<1>16. /\ pending'[s]["CK_DB_RESULT"] = 0 /\ pending'[s]["IO_DISCONNECT"] = 0
  BY <1>12 DEF IOType
<1>17. /\ \A u \in IOThread : JobThreadOK(u)'
       /\ CountsAll' /\ ConnectOnce' /\ LoadOnce'
  <2>1. mRefCount'[s] = InFlight(s)' + Loads(s)' + Cardinality(JobHandlers(s))
                          + Cardinality(Creators(s)) + IssueRef(s)'
    BY <1>8, <1>10, <1>11, <1>13, <1>14
  <2>2. pending'[s]["IO_ACCEPT"] + mConnected[s] + pending'[s]["IO_DISCONNECT"]
          + Cardinality(Connectors(s)) <= IssueRef(s)'
    BY <1>9, <1>11, <1>12, <1>16
  <2>3. pending'[s]["IO_ACCEPT"] + Cardinality(Accepting(s)) + Loads(s)'
          + pending'[s]["CK_DB_RESULT"] + Cardinality(Delivering(s)) <= 1
    BY <1>8, <1>10, <1>12, <1>14, <1>16
  <2> QED
    BY <1>15, <2>1, <2>2, <2>3, OffStep
<1>18. /\ n - 1 \in Nat /\ Len(mFreeSessionList') = n - 1 /\ mFreeSessionList' \in Seq(Session)
       /\ \A i \in 1 .. n - 1 : mFreeSessionList'[i] = mFreeSessionList[i]
  <2>1. /\ SubSeq(mFreeSessionList, 1, n - 1) \in Seq(Session)
        /\ Len(SubSeq(mFreeSessionList, 1, n - 1)) = n - 1
        /\ \A i \in 1 .. n - 1 : SubSeq(mFreeSessionList, 1, n - 1)[i] = mFreeSessionList[i]
    BY <1>2, AllButLast
  <2>2. n - 1 \in Nat
    BY <1>2
  <2>3. mFreeSessionList' = SubSeq(mFreeSessionList, 1, n - 1)
    BY <1>5
  <2> HIDE DEF n
  <2> QED
    BY <2>1, <2>2, <2>3
<1>19. JobTypes'
  BY <1>1, <1>5, <1>11, <1>18 DEF JobTypes, jobVars
<1>20. /\ \A u \in IOThread : Returning(u)' <=> Returning(u)
       /\ \A u \in IOThread : Returning(u) => ses[u] \in Session /\ ses[u] # s
  <2>1. \A u \in IOThread : Returning(u) => pc[u] # "idle"
    BY DEF Returning
  <2> QED
    BY <1>1, <1>4, <1>5, <2>1, HasSession DEF Returning, PoolOK
<1>21. ReturnsOnce'
  BY <1>5, <1>11, <1>20 DEF JobLifeInv, ReturnsOnce
<1>22. Free' \subseteq Free \ {s}
  <2>1. ASSUME NEW r \in Free' PROVE r \in Free \ {s}
    <3>1. PICK i \in 1 .. n - 1 : r = mFreeSessionList[i]
      BY <1>18, <2>1 DEF Free
    <3>2. i \in 1 .. n /\ n \in 1 .. n /\ i # n
      BY <1>2, <3>1
    <3>3. r \in Free
      BY <3>1, <3>2 DEF Free
    <3>4. mFreeSessionList[i] # mFreeSessionList[n]
      BY <1>1, <3>2 DEF PoolOK
    <3> QED
      BY <1>3, <3>1, <3>3, <3>4
  <2> QED
    BY <2>1
<1>23. PoolOK'
  <2>1. \A i, j \in 1 .. Len(mFreeSessionList') :
          mFreeSessionList'[i] = mFreeSessionList'[j] => i = j
    <3>1. \A i \in 1 .. n - 1 : i \in 1 .. n
      BY <1>2
    <3> QED
      BY <1>1, <1>18, <3>1 DEF PoolOK
  <2>2. Free \subseteq Session
    BY <1>2 DEF Free
  <2> QED
    BY <1>1, <1>5, <1>11, <1>20, <1>22, <2>1, <2>2 DEF PoolOK, jobVars
<1>24. /\ \A r \in Session : Accepting(r)' = Accepting(r) /\ Delivering(r)' = Delivering(r)
       /\ \A r \in Session : pending'[r]["CK_DB_RESULT"] = pending[r]["CK_DB_RESULT"]
  <2>1. \A r \in Session : Accepting(r)' = Accepting(r) /\ Delivering(r)' = Delivering(r)
    BY <1>5, OffSets
  <2>2. pending[s]["CK_DB_RESULT"] = 0
    BY <1>7 DEF IOType
  <2> QED
    BY <1>11, <1>16, <2>1, <2>2
<1>25. ResultsPosted'
  <2>1. results' = results /\ results \subseteq Context /\ ResultsPosted
    BY <1>1 DEF jobVars, JobLifeInv, JobTypes
  <2>2. \A c \in results : c.mSessionObject \in Session
    BY <2>1 DEF Context
  <2> QED
    BY <1>24, <2>1, <2>2 DEF ResultsPosted
<1>26. RowsAsked'
  <2>1. RowsAsked /\ UNCHANGED <<mPlayerId, asked, requests, results, running>>
    BY DEF JobLifeInv, jobVars
  <2>2. ASSUME NEW r \in Session
        PROVE  /\ mPlayerId'[r] \in {NoPlayer, asked'[r]}
               /\ pending'[r]["IO_ACCEPT"] > 0 \/ Accepting(r)' # {} => mPlayerId'[r] = NoPlayer
    <3>1. CASE r = s
      BY <1>6, <2>1, <3>1
    <3>2. CASE r # s
      BY <1>11, <1>24, <2>1, <3>2 DEF RowsAsked
    <3> QED
      BY <3>1, <3>2
  <2> QED
    BY <2>1, <2>2 DEF RowsAsked
<1>27. ~crashed'
  BY <1>5 DEF JobLifeInv
<1> QED
  BY <1>17, <1>19, <1>21, <1>23, <1>25, <1>26, <1>27 DEF JobLifeInv

\* A step after which the invariant speaks of the same state.
LEMMA JobSame ==
  ASSUME JobLifeInv,
         UNCHANGED <<mConnected, mRefCount, mSendBufferLock, pending, issued, crashed,
                     mFreeSessionList, pc, ses, kind, fresh, back, packets, jobVars>>
  PROVE  JobLifeInv'
<1>1. UNCHANGED <<mPlayerId, requests, running, results, asked>>
  BY DEF jobVars
<1>2. /\ \A r \in Session :
           /\ JobHandlers(r)' = JobHandlers(r) /\ Creators(r)' = Creators(r)
           /\ Connectors(r)' = Connectors(r) /\ Accepting(r)' = Accepting(r)
           /\ Delivering(r)' = Delivering(r)
           /\ InFlight(r)' = InFlight(r) /\ IssueRef(r)' = IssueRef(r) /\ Loads(r)' = Loads(r)
      /\ \A u \in IOThread : (Returning(u)' <=> Returning(u)) /\ (JobThreadOK(u)' <=> JobThreadOK(u))
      /\ Free' = Free
  BY <1>1 DEF JobHandlers, Handlers, Creators, Connectors, Accepting, Delivering, InFlight,
              IssueRef, Loads, Requests, Running, Returning, JobThreadOK, Free
<1>3. JobTypes' /\ (\A u \in IOThread : JobThreadOK(u)') /\ ~crashed'
  BY <1>1, <1>2 DEF JobLifeInv, JobTypes
<1>4. CountsAll' /\ ConnectOnce' /\ LoadOnce'
  BY <1>2 DEF JobLifeInv, CountsAll, ConnectOnce, LoadOnce
<1>5. ReturnsOnce' /\ PoolOK'
  BY <1>1, <1>2 DEF JobLifeInv, ReturnsOnce, PoolOK
<1>6. RowsAsked'
  BY <1>1, <1>2 DEF JobLifeInv, RowsAsked
<1>7. ResultsPosted'
  <2>1. ResultsPosted /\ results' = results /\ pending' = pending
    BY <1>1 DEF JobLifeInv
  <2>2. \A c \in results : c.mSessionObject \in Session
    BY DEF JobLifeInv, JobTypes, Context
  <2> QED
    BY <1>2, <2>1, <2>2 DEF ResultsPosted
<1> QED
  BY <1>3, <1>4, <1>5, <1>6, <1>7 DEF JobLifeInv

\* The main thread.
LEMMA JobAccept ==
  ASSUME JobLifeInv, SendInv, SendInv', AcceptClientSessions, UNCHANGED <<sendVars, jobVars>>
  PROVE  JobLifeInv'
<1>1. CASE AcceptEnter \/ AcceptLeave
  <2>1. UNCHANGED <<mConnected, mRefCount, mSendBufferLock, pending, issued, crashed,
                    mFreeSessionList, pc, ses, kind, fresh, back, packets, jobVars>>
    BY <1>1 DEF AcceptEnter, AcceptLeave, sessionVars, threadVars
  <2> QED
    BY <2>1, JobSame
<1>2. CASE \E ok \in BOOLEAN : AcceptOne(ok)
  BY <1>2, JobAcceptOne
<1> QED
  BY <1>1, <1>2 DEF AcceptClientSessions

\* The sums of a session do not see which thread is which.
LEMMA SumsNow ==
  ASSUME JobLifeInv, SendInv, NEW s \in Session
  PROVE  /\ Cardinality(JobHandlers(s)) \in Nat /\ Cardinality(Creators(s)) \in Nat
         /\ Cardinality(Connectors(s)) \in Nat /\ Cardinality(Accepting(s)) \in Nat
         /\ Cardinality(Delivering(s)) \in Nat
         /\ mRefCount[s] = InFlight(s) + Loads(s) + Cardinality(JobHandlers(s))
                             + Cardinality(Creators(s)) + IssueRef(s)
         /\ pending[s]["IO_ACCEPT"] + mConnected[s] + pending[s]["IO_DISCONNECT"]
              + Cardinality(Connectors(s)) <= IssueRef(s)
         /\ pending[s]["IO_ACCEPT"] + Cardinality(Accepting(s)) + Loads(s)
              + pending[s]["CK_DB_RESULT"] + Cardinality(Delivering(s)) <= 1
         /\ InFlight(s) \in Nat /\ Loads(s) \in Nat /\ IssueRef(s) \in {0, 1}
         /\ \A k \in IOType : pending[s][k] \in Nat
<1>1. /\ JobHandlers(s) \subseteq IOThread /\ Creators(s) \subseteq IOThread
      /\ Connectors(s) \subseteq IOThread /\ Accepting(s) \subseteq IOThread
      /\ Delivering(s) \subseteq IOThread
  BY DEF JobHandlers, Handlers, Creators, Connectors, Accepting, Delivering
<1> QED
  BY <1>1, NoThread, JobCounts DEF JobLifeInv, CountsAll, ConnectOnce, LoadOnce

\* DoDatabaseJob: the context is with the thread instead of in the queue.
LEMMA JobStarts ==
  ASSUME JobLifeInv, SendInv, NEW d \in DBThread, DoDatabaseJob(d)
  PROVE  JobLifeInv'
<1>1. JobTypes /\ RowsAsked /\ ResultsPosted
  BY DEF JobLifeInv
<1>2. PICK c \in requests : running' = [running EXCEPT ![d] = c] /\ requests' = requests \ {c}
  BY DEF DoDatabaseJob
<1>3. /\ running[d] = None
      /\ UNCHANGED <<mConnected, mRefCount, mSendBufferLock, pending, issued, crashed,
                     mFreeSessionList, pc, ses, kind, fresh, back, packets,
                     mPlayerId, results, asked>>
  BY DEF DoDatabaseJob, allVars, vars, sessionVars, poolVars, threadVars
<1>4. c \in Context /\ c # None
  BY <1>1, ContextAssumption DEF JobTypes
<1>5. PICK s \in Session : s = c.mSessionObject
  BY <1>4 DEF Context
<1>6. running'[d] = c /\ \A e \in DBThread \ {d} : running'[e] = running[e]
  BY <1>1, <1>2 DEF JobTypes
<1>7. JobTypes'
  <2>1. requests' \subseteq Context /\ IsFiniteSet(requests')
    BY <1>1, <1>2, FS_Subset DEF JobTypes
  <2>2. running' \in [DBThread -> Context \union {None}]
    BY <1>1, <1>2, <1>4 DEF JobTypes
  <2> QED
    BY <1>1, <1>3, <2>1, <2>2 DEF JobTypes
<1>8. Loads(s)' = Loads(s)
  <2>1. IsFiniteSet(Requests(s)) /\ IsFiniteSet(Running(s))
    BY <1>1, JobCounts
  <2>2. Requests(s)' = Requests(s) \ {c} /\ c \in Requests(s)
    BY <1>2, <1>5 DEF Requests
  <2>3. Running(s)' = Running(s) \union {d} /\ d \notin Running(s)
    BY <1>3, <1>4, <1>5, <1>6 DEF Running
  <2>4. Cardinality(Requests(s)') = Cardinality(Requests(s)) - 1
    BY <2>1, <2>2, FS_RemoveElement
  <2>5. Cardinality(Running(s)') = Cardinality(Running(s)) + 1
    BY <2>1, <2>3, FS_AddElement
  <2>6. Cardinality(Requests(s)) \in Nat /\ Cardinality(Running(s)) \in Nat
    BY <2>1, FS_CardinalityType
  <2>7. Loads(s)' = Cardinality(Requests(s)') + Cardinality(Running(s)')
    BY DEF Loads
  <2> QED
    BY <2>4, <2>5, <2>6, <2>7 DEF Loads
<1>9. ASSUME NEW r \in Session \ {s} PROVE Loads(r)' = Loads(r)
  <2>1. Requests(r)' = Requests(r)
    BY <1>2, <1>5 DEF Requests
  <2>2. Running(r)' = Running(r)
    BY <1>3, <1>5, <1>6 DEF Running
  <2> QED
    BY <2>1, <2>2 DEF Loads
<1>10. StepOff(s)
  BY <1>3, <1>9 DEF StepOff
<1>11. InFlight(s)' = InFlight(s) /\ IssueRef(s)' = IssueRef(s)
  BY <1>3 DEF InFlight, IssueRef
<1>12. /\ \A u \in IOThread : JobThreadOK(u)'
       /\ CountsAll' /\ ConnectOnce' /\ LoadOnce'
  BY <1>3, <1>8, <1>10, <1>11, SumsNow, OffStep
<1>13. /\ \A r \in Session : Accepting(r)' = Accepting(r) /\ Delivering(r)' = Delivering(r)
       /\ \A u \in IOThread : Returning(u)' <=> Returning(u)
       /\ Free' = Free
  <2>1. UNCHANGED <<pc, ses, kind, fresh, back, mFreeSessionList>>
    BY <1>3
  <2> QED
    BY <2>1, OffSets DEF Free, Returning
<1>14. ReturnsOnce' /\ PoolOK'
  BY <1>3, <1>13 DEF JobLifeInv, ReturnsOnce, PoolOK
<1>15. ResultsPosted'
  <2>1. \A e \in results : e.mSessionObject \in Session
    BY <1>1 DEF JobTypes, Context
  <2> QED
    BY <1>1, <1>3, <1>13, <2>1 DEF ResultsPosted
<1>16. RowsAsked'
  <2>1. \A e \in requests' \union results' : e.mPlayerId = asked'[e.mSessionObject]
    BY <1>1, <1>2, <1>3 DEF RowsAsked
  <2>2. ASSUME NEW e \in DBThread, running'[e] # None
        PROVE  running'[e].mPlayerId = asked'[running'[e].mSessionObject]
    BY <1>1, <1>2, <1>3, <1>6, <2>2 DEF RowsAsked
  <2> QED
    BY <1>1, <1>3, <1>13, <2>1, <2>2 DEF RowsAsked
<1>17. ~crashed'
  BY <1>3 DEF JobLifeInv
<1> QED
  BY <1>7, <1>12, <1>14, <1>15, <1>16, <1>17 DEF JobLifeInv

\* PostDatabaseResult: the context is posted back, with its completion.
LEMMA JobEnds ==
  ASSUME JobLifeInv, SendInv, NEW d \in DBThread, NEW ok \in BOOLEAN, PostDatabaseResult(d, ok)
  PROVE  JobLifeInv'
<1>1. JobTypes /\ RowsAsked /\ ResultsPosted /\ SendingTypeOK
  BY DEF JobLifeInv, SendInv
<1>2. PICK c \in Context : c = running[d]
  BY <1>1 DEF PostDatabaseResult, JobTypes
<1>3. PICK s \in Session : s = c.mSessionObject
  BY <1>2 DEF Context
<1> DEFINE e == [c EXCEPT !.mSuccess = ok]
<1>4. e \in Context /\ e.mSessionObject = s /\ e.mPlayerId = c.mPlayerId
  BY <1>3 DEF Context
<1>5. /\ running[d] # None /\ results' = results \union {e}
      /\ pending' = [pending EXCEPT ![s]["CK_DB_RESULT"] = @ + 1]
      /\ running' = [running EXCEPT ![d] = None]
      /\ UNCHANGED <<mConnected, mRefCount, mSendBufferLock, issued, crashed,
                     mFreeSessionList, pc, ses, kind, fresh, back, packets,
                     mPlayerId, requests, asked>>
  BY <1>2, <1>3 DEF PostDatabaseResult, poolVars, threadVars
<1> HIDE DEF e
<1>6. running'[d] = None /\ \A x \in DBThread \ {d} : running'[x] = running[x]
  BY <1>1, <1>5 DEF JobTypes
<1>7. JobTypes'
  <2>1. running' \in [DBThread -> Context \union {None}]
    BY <1>1, <1>5 DEF JobTypes
  <2> QED
    BY <1>1, <1>4, <1>5, <2>1 DEF JobTypes
<1>8. /\ pending'[s]["CK_DB_RESULT"] = pending[s]["CK_DB_RESULT"] + 1
      /\ \A k \in IOType \ {"CK_DB_RESULT"} : pending'[s][k] = pending[s][k]
      /\ \A r \in Session \ {s} : pending'[r] = pending[r]
  BY <1>1, <1>5 DEF SendingTypeOK, IOType
<1>9. Loads(s)' = Loads(s) - 1 /\ Loads(s) > 0
  <2>1. IsFiniteSet(Requests(s)) /\ IsFiniteSet(Running(s))
    BY <1>1, JobCounts
  <2>2. Requests(s)' = Requests(s)
    BY <1>5 DEF Requests
  <2>3. Running(s)' = Running(s) \ {d} /\ d \in Running(s)
    BY <1>2, <1>3, <1>5, <1>6 DEF Running
  <2>4. Cardinality(Running(s)') = Cardinality(Running(s)) - 1
    BY <2>1, <2>3, FS_RemoveElement
  <2>5. /\ Cardinality(Requests(s)) \in Nat /\ Cardinality(Running(s)) \in Nat
        /\ Cardinality(Running(s)') \in Nat
    BY <2>1, <2>3, FS_CardinalityType, FS_RemoveElement
  <2>6. Loads(s)' = Cardinality(Requests(s)') + Cardinality(Running(s)')
    BY DEF Loads
  <2> QED
    BY <2>2, <2>4, <2>5, <2>6 DEF Loads
<1>10. ASSUME NEW r \in Session \ {s} PROVE Loads(r)' = Loads(r)
  <2>1. Requests(r)' = Requests(r)
    BY <1>5 DEF Requests
  <2>2. Running(r)' = Running(r)
    BY <1>2, <1>3, <1>6 DEF Running
  <2> QED
    BY <2>1, <2>2 DEF Loads
<1>11. /\ \A x \in results : x.mSessionObject # s
       /\ pending[s]["IO_ACCEPT"] = 0 /\ Accepting(s) = {}
  BY <1>9, LoadAlone
<1>12. StepOff(s)
  BY <1>5, <1>8, <1>10 DEF StepOff
<1>13. InFlight(s)' = InFlight(s) + 1 /\ IssueRef(s)' = IssueRef(s)
  <2>1. \A k \in IOType : pending[s][k] \in Nat
    BY SumsNow
  <2> QED
    BY <1>5, <1>8, <2>1 DEF InFlight, IssueRef, IOType
<1>14. /\ \A u \in IOThread : JobThreadOK(u)'
       /\ CountsAll' /\ ConnectOnce' /\ LoadOnce'
  <2>1. mRefCount'[s] = InFlight(s)' + Loads(s)' + Cardinality(JobHandlers(s))
                          + Cardinality(Creators(s)) + IssueRef(s)'
    BY <1>5, <1>9, <1>13, SumsNow
  <2>2. /\ pending'[s]["IO_ACCEPT"] = pending[s]["IO_ACCEPT"]
        /\ pending'[s]["IO_DISCONNECT"] = pending[s]["IO_DISCONNECT"]
    BY <1>8 DEF IOType
  <2>3. pending'[s]["IO_ACCEPT"] + mConnected[s] + pending'[s]["IO_DISCONNECT"]
          + Cardinality(Connectors(s)) <= IssueRef(s)'
    BY <1>13, <2>2, SumsNow
  <2>4. pending'[s]["IO_ACCEPT"] + Cardinality(Accepting(s)) + Loads(s)'
          + pending'[s]["CK_DB_RESULT"] + Cardinality(Delivering(s)) <= 1
    <3>1. pending[s]["IO_ACCEPT"] \in Nat /\ pending[s]["CK_DB_RESULT"] \in Nat
      BY SumsNow DEF IOType
    <3> QED
      BY <1>8, <1>9, <2>2, <3>1, SumsNow
  <2> QED
    BY <1>12, <2>1, <2>3, <2>4, OffStep
<1>15. /\ \A r \in Session : Accepting(r)' = Accepting(r) /\ Delivering(r)' = Delivering(r)
       /\ \A u \in IOThread : Returning(u)' <=> Returning(u)
       /\ Free' = Free
  <2>1. UNCHANGED <<pc, ses, kind, fresh, back, mFreeSessionList>>
    BY <1>5
  <2> QED
    BY <2>1, OffSets DEF Free, Returning
<1>16. ReturnsOnce' /\ PoolOK'
  BY <1>5, <1>15 DEF JobLifeInv, ReturnsOnce, PoolOK
<1>17. ResultsPosted'
  <2>1. \A x \in results : x.mSessionObject \in Session \ {s}
    BY <1>1, <1>11 DEF JobTypes, Context
  <2>2. pending'[s]["CK_DB_RESULT"] > 0
    BY <1>8, SumsNow DEF IOType
  <2>3. ASSUME NEW x \in results'
        PROVE  /\ pending'[x.mSessionObject]["CK_DB_RESULT"] > 0 \/ Delivering(x.mSessionObject)' # {}
               /\ \A y \in results' : x.mSessionObject = y.mSessionObject => x = y
    <3>1. CASE x = e
      BY <1>4, <1>5, <2>1, <2>2, <3>1
    <3>2. CASE x \in results
      BY <1>1, <1>4, <1>5, <1>8, <1>15, <2>1, <3>2 DEF ResultsPosted
    <3> QED
      BY <1>5, <3>1, <3>2
  <2> QED
    BY <2>3 DEF ResultsPosted
<1>18. RowsAsked'
  <2>1. c.mPlayerId = asked[s]
    BY <1>1, <1>2, <1>3, <1>5 DEF RowsAsked
  <2>2. \A x \in requests' \union results' : x.mPlayerId = asked'[x.mSessionObject]
    BY <1>1, <1>4, <1>5, <2>1 DEF RowsAsked
  <2>3. \A x \in DBThread : running'[x] # None =>
          running'[x].mPlayerId = asked'[running'[x].mSessionObject]
    BY <1>1, <1>5, <1>6 DEF RowsAsked
  <2>4. ASSUME NEW r \in Session
        PROVE  /\ mPlayerId'[r] \in {NoPlayer, asked'[r]}
               /\ pending'[r]["IO_ACCEPT"] > 0 \/ Accepting(r)' # {} => mPlayerId'[r] = NoPlayer
    <3>1. pending'[r]["IO_ACCEPT"] = pending[r]["IO_ACCEPT"]
      BY <1>8 DEF IOType
    <3> QED
      BY <1>1, <1>5, <1>15, <3>1 DEF RowsAsked
  <2> QED
    BY <2>2, <2>3, <2>4 DEF RowsAsked
<1>19. ~crashed'
  BY <1>5 DEF JobLifeInv
<1> QED
  BY <1>7, <1>14, <1>16, <1>17, <1>18, <1>19 DEF JobLifeInv

-----------------------------------------------------------------------------
(* The invariant.                                                          *)

\* ReleaseRef, called from the three places it is called from.
LEMMA JobRelease ==
  ASSUME JobLifeInv, SendInv, SendInv', NEW t \in IOThread, UNCHANGED <<sendVars, jobVars>>,
         ~(pc[t] = "finish" /\ kind[t] = "flush"), ReleaseRef(t)
  PROVE  JobLifeInv'
<1>1. CASE pc[t] = "undo"
  BY <1>1, JobReleaseFailed
<1>2. CASE pc[t] = "disconnected"
  BY <1>2, JobReleaseIssue
<1>3. CASE pc[t] = "finish"
  BY <1>3, JobReleaseLast
<1> QED
  BY <1>1, <1>2, <1>3 DEF ReleaseRef

\* The handlers, which share their steps with Homework7.
LEMMA JobHomework7 ==
  ASSUME JobLifeInv, SendInv, SendInv', NEW t \in IOThread, UNCHANGED <<sendVars, jobVars>>,
         SameAsHomework7(t), Revives(t) => pc'[t] = pc[t]
  PROVE  JobLifeInv'
<1>1. CASE NewContext(t)
  <2>1. pc[t] = "create" /\ pc' = [pc EXCEPT ![t] = "issue"] /\ pc \in [IOThread -> Label]
    BY <1>1 DEF NewContext, Goto, SendInv, SendingTypeOK
  <2>2. pc'[t] # pc[t]
    BY <2>1
  <2> QED
    BY <1>1, <2>2, JobNewContext
<1>2. CASE fresh[t] # "IO_SEND" /\ IssueOk(t)
  <2>1. LSendRequestSessionList' = LSendRequestSessionList
    BY DEF sendVars
  <2> QED
    BY <1>2, <2>1, JobIssueOk
<1>3. CASE ~(pc[t] = "finish" /\ kind[t] = "flush") /\ ReleaseRef(t)
  BY <1>3, JobRelease
<1> QED
  BY <1>1, <1>2, <1>3, JobAcceptCompletion, JobHandlerMoves, JobDisconnectRequest, JobReturn
  DEF SameAsHomework7

\* The send path.
LEMMA JobDoSends ==
  ASSUME JobLifeInv, SendInv, SendInv', NEW t \in IOThread, UNCHANGED jobVars, DoSends(t)
  PROVE  JobLifeInv'
<1>1. CASE FlushIssueOk(t)
  <2>1. LSendRequestSessionList' = LSendRequestSessionList /\ IssueOk(t)
    BY <1>1 DEF FlushIssueOk
  <2> QED
    BY <2>1, JobIssueOk
<1>2. CASE FlushEnd(t)
  <2>1. kind[t] = "flush"
    BY <1>2 DEF FlushEnd
  <2> QED
    BY <1>2, <2>1, JobFlushTurns
<1> QED
  BY <1>1, <1>2, JobSendMoves, JobFlushTurns DEF DoSends, DoSendJob

LEMMA JobInitInv == JobInit => JobLifeInv
<1> SUFFICES ASSUME JobInit PROVE JobLifeInv
  OBVIOUS
<1>1. /\ Init /\ requests = {} /\ results = {}
      /\ mPlayerId = [s \in Session |-> NoPlayer] /\ asked = [s \in Session |-> NoPlayer]
      /\ running = [d \in DBThread |-> None]
  BY DEF JobInit, SendInit
<1>2. MAX_CONNECTION \in Nat
  BY SessionAssumption, FS_CardinalityType DEF MAX_CONNECTION
<1>3. /\ mFreeSessionList \in Seq(Session) /\ Len(mFreeSessionList) = MAX_CONNECTION
      /\ \A i, j \in 1 .. MAX_CONNECTION : mFreeSessionList[i] = mFreeSessionList[j] => i = j
  BY <1>1, <1>2 DEF Init
<1>4. JobTypes
  <2>1. /\ mConnected \in [Session -> {0, 1}] /\ mRefCount \in [Session -> Int]
        /\ issued \in [Session -> BOOLEAN]
    BY <1>1 DEF Init
  <2>2. 0 \in 0 .. MaxPlayerId - 1 /\ NoPlayer \in Int
    BY DatabaseAssumption DEF NoPlayer
  <2>3. mPlayerId \in [Session -> Int] /\ asked \in [Session -> Int]
    BY <1>1, <2>2
  <2>4. IsFiniteSet({})
    BY FS_EmptySet
  <2> QED
    BY <1>1, <1>3, <2>1, <2>2, <2>3, <2>4 DEF JobTypes
<1>5. \A t \in IOThread :
        /\ pc[t] = "idle" /\ ses[t] = None /\ kind[t] = "none" /\ fresh[t] = "none"
        /\ packets[t] = 0
  BY <1>1 DEF Init
<1>6. \A t \in IOThread : JobThreadOK(t) /\ ~Returning(t)
  <2>1. ~(0 > 0)
    OBVIOUS
  <2> QED
    BY <1>5, <2>1 DEF JobThreadOK, Returning, RecvTypes
<1>7. ASSUME NEW s \in Session
      PROVE  /\ JobHandlers(s) = {} /\ Creators(s) = {} /\ Connectors(s) = {}
             /\ Accepting(s) = {} /\ Delivering(s) = {}
             /\ Requests(s) = {} /\ Running(s) = {}
             /\ mRefCount[s] = 0 /\ mConnected[s] = 0 /\ IssueRef(s) = 0
             /\ \A k \in IOType : pending[s][k] = 0
  <2>1. \A t \in IOThread : ses[t] # s
    BY <1>5, SessionAssumption
  <2>2. /\ JobHandlers(s) = {} /\ Creators(s) = {} /\ Connectors(s) = {}
        /\ Accepting(s) = {} /\ Delivering(s) = {}
    BY <2>1 DEF JobHandlers, Handlers, Creators, Connectors, Accepting, Delivering
  <2>3. Requests(s) = {} /\ Running(s) = {}
    BY <1>1 DEF Requests, Running
  <2>4. mRefCount[s] = 0 /\ mConnected[s] = 0 /\ ~issued[s] /\ \A k \in IOType : pending[s][k] = 0
    BY <1>1 DEF Init
  <2> QED
    BY <2>2, <2>3, <2>4 DEF IssueRef
<1>8. Cardinality({}) = 0
  BY FS_EmptySet
<1>9. ASSUME NEW s \in Session PROVE InFlight(s) = 0 /\ Loads(s) = 0
  BY <1>7, <1>8 DEF InFlight, IOType, Loads
<1>10. CountsAll /\ ConnectOnce /\ LoadOnce
  <2>1. ASSUME NEW s \in Session
        PROVE  /\ Cardinality(JobHandlers(s)) = 0 /\ Cardinality(Creators(s)) = 0
               /\ Cardinality(Connectors(s)) = 0 /\ Cardinality(Accepting(s)) = 0
               /\ Cardinality(Delivering(s)) = 0
               /\ pending[s]["IO_ACCEPT"] = 0 /\ pending[s]["IO_DISCONNECT"] = 0
               /\ pending[s]["CK_DB_RESULT"] = 0
    BY <1>7, <1>8 DEF IOType
  <2>2. CountsAll
    BY <1>7, <1>9, <2>1 DEF CountsAll
  <2>3. ConnectOnce
    BY <1>7, <2>1 DEF ConnectOnce
  <2>4. LoadOnce
    BY <1>9, <2>1 DEF LoadOnce
  <2> QED
    BY <2>2, <2>3, <2>4
<1>11. ReturnsOnce /\ ~crashed
  BY <1>1, <1>6 DEF ReturnsOnce, Init
<1>12. RowsAsked
  <2>1. ~(0 > 0)
    OBVIOUS
  <2> QED
    BY <1>1, <1>7, <2>1 DEF RowsAsked, IOType
<1>13. ResultsPosted
  BY <1>1 DEF ResultsPosted
<1>14. PoolOK
  <2>1. Free \subseteq Session
    BY <1>3 DEF Free
  <2> QED
    BY <1>1, <1>3, <1>6, <1>7, <2>1 DEF PoolOK
<1> QED
  BY <1>4, <1>6, <1>10, <1>11, <1>12, <1>13, <1>14 DEF JobLifeInv

\* The part of JobInv that does not need the bytes.
JobLives == revived \/ JobLifeInv

LEMMA NextJobLives == SendInv /\ JobLives /\ [JobNext]_h6Vars => JobLives'
<1> SUFFICES ASSUME SendInv, JobLives, [JobNext]_h6Vars, ~revived' PROVE JobLifeInv'
  BY DEF JobLives
<1>1. SendInv'
  BY NextSendInv
<1>2. CASE UNCHANGED h6Vars
  <2>1. JobLifeInv
    BY <1>2 DEF JobLives, h6Vars
  <2>2. UNCHANGED <<mConnected, mRefCount, mSendBufferLock, pending, issued, crashed,
                    mFreeSessionList, pc, ses, kind, fresh, back, packets, jobVars>>
    BY <1>2 DEF h6Vars, allVars, vars, sessionVars, poolVars, threadVars
  <2> QED
    BY <2>1, <2>2, JobSame
<1>3. CASE JobNext
  <2>1. JobLifeInv /\ \A t \in IOThread : Revives(t) => pc'[t] = pc[t]
    BY <1>3 DEF JobLives, JobNext
  <2>2. CASE AcceptClientSessions /\ UNCHANGED <<sendVars, jobVars>>
    BY <1>1, <2>1, <2>2, JobAccept
  <2>3. ASSUME NEW t \in IOThread, SameAsHomework7(t), UNCHANGED <<sendVars, jobVars>>
        PROVE  JobLifeInv'
    BY <1>1, <2>1, <2>3, JobHomework7
  <2>4. ASSUME NEW t \in IOThread, DoSends(t), UNCHANGED jobVars PROVE JobLifeInv'
    BY <1>1, <2>1, <2>4, JobDoSends
  <2>5. ASSUME NEW t \in IOThread, NextCompletion(t), UNCHANGED jobVars PROVE JobLifeInv'
    BY <1>1, <2>1, <2>5, JobCompletion
  <2>6. ASSUME NEW t \in IOThread, NEW n \in 0 .. MaxPlayerId - 1, NEW ok, PostRequest(t, n, ok)
        PROVE  JobLifeInv'
    BY <1>1, <2>1, <2>6, JobPostRequest
  <2>7. ASSUME NEW t \in IOThread, OnLoadResult(t) PROVE JobLifeInv'
    BY <1>1, <2>1, <2>7, JobLoadResult
  <2>8. ASSUME NEW t \in IOThread, ResetWithPlayer(t) PROVE JobLifeInv'
    BY <1>1, <2>1, <2>8, JobReset
  <2>9. ASSUME NEW d \in DBThread, DoDatabaseJob(d) PROVE JobLifeInv'
    BY <2>1, <2>9, JobStarts
  <2>10. ASSUME NEW d \in DBThread, NEW ok \in BOOLEAN, PostDatabaseResult(d, ok)
         PROVE  JobLifeInv'
    BY <2>1, <2>10, JobEnds
  <2>11. ASSUME NEW d \in DBThread, PostDatabaseResultFails(d) PROVE JobLifeInv'
    <3>1. UNCHANGED <<mConnected, mRefCount, mSendBufferLock, pending, issued, crashed,
                      mFreeSessionList, pc, ses, kind, fresh, back, packets, jobVars>>
      BY <2>11 DEF PostDatabaseResultFails, allVars, vars, sessionVars, poolVars, threadVars
    <3> QED
      BY <2>1, <3>1, JobSame
  <2> QED
    BY <1>3, <2>2, <2>3, <2>4, <2>5, <2>6, <2>7, <2>8, <2>9, <2>10, <2>11 DEF JobNext
<1> QED
  BY <1>2, <1>3

LEMMA JobAlwaysLives == JobSpec => []JobLives
<1>1. JobInit => JobLives
  BY JobInitInv DEF JobLives
<1>2. SendInv /\ JobLives /\ [JobNext]_h6Vars => JobLives'
  BY NextJobLives
<1> QED
  BY <1>1, <1>2, SendInvariant, PTL DEF JobSpec

\* Until FlushSend revives a session: no CRASH_ASSERT fails but that of
\* PostDatabaseResult, whose post may fail, and mRefCount is the number of
\* overlapped contexts, load contexts (one that PostDatabsaseRequest could not
\* post never goes away) and handlers of the session plus one while it is
\* issued, whatever Winsock calls, posts, sends and SQL statements fail.
THEOREM JobContextsCounted == JobSpec => []ContextsCounted
<1>1. JobLives => ContextsCounted
  BY DEF JobLives, JobLifeInv, ContextsCounted
<1> QED
  BY <1>1, JobAlwaysLives, PTL

\* Until FlushSend revives a session: the row that a client sees is the one its
\* own connection has asked for, although the answer of the database finds the
\* player by the session alone and sessions are issued again.
THEOREM JobAnswerFits == JobSpec => []AnswerFitsConnection
<1>1. JobLives => AnswerFitsConnection
  BY DEF JobLives, JobLifeInv, RowsAsked, AnswerFitsConnection
<1> QED
  BY <1>1, JobAlwaysLives, PTL

\* Homework6 takes a count from 0 at two places only: AcceptClientSessions does,
\* for a session of the free list, and FlushSend, which this makes the one way in
\* which a session is revived.
THEOREM JobNoResurrection ==
  JobSpec => [][\A s \in Session :
                  mRefCount[s] = 0 /\ mRefCount'[s] > 0 => s \in Free \/ revived']_h6Vars
<1> DEFINE A == \A s \in Session :
                  mRefCount[s] = 0 /\ mRefCount'[s] > 0 => s \in Free \/ revived'
<1>1. SendInv /\ JobLives /\ [JobNext]_h6Vars => [A]_h6Vars
  <2> SUFFICES ASSUME SendInv, JobLives, JobNext, NEW s \in Session,
                      mRefCount[s] = 0, mRefCount'[s] > 0, ~revived'
               PROVE  s \in Free
    OBVIOUS
  <2>1. JobLifeInv /\ \A t \in IOThread : Revives(t) => pc'[t] = pc[t]
    BY DEF JobLives, JobNext
  <2>2. mRefCount \in [Session -> Int] /\ mFreeSessionList \in Seq(Session)
    BY <2>1 DEF JobLifeInv, JobTypes
  <2>3. mRefCount' # mRefCount
    OBVIOUS
  <2>4. \A t \in IOThread : t \notin JobHandlers(s)
    BY <2>1, ZeroCount
  <2>5. CASE AcceptClientSessions
    <3>1. PICK ok \in BOOLEAN : AcceptOne(ok)
      BY <2>3, <2>5 DEF AcceptClientSessions, AcceptEnter, AcceptLeave, sessionVars
    <3>2. mFreeSessionList # << >>
      BY <3>1 DEF AcceptOne
    <3>3. s = mFreeSessionList[Len(mFreeSessionList)]
      BY <2>2, <3>1 DEF AcceptOne
    <3> QED
      BY <2>2, <3>2, <3>3 DEF Free
  <2>6. ASSUME NEW t \in IOThread, NewContext(t) PROVE FALSE
    <3>1. ses[t] \in Session /\ pc[t] = "create" /\ pc'[t] = "issue"
      BY <2>6, HasSession DEF NewContext, Goto, SendInv, SendingTypeOK
    <3>2. ses[t] = s
      BY <2>2, <2>6, <3>1 DEF NewContext
    <3>3. kind[t] = "flush"
      BY <2>4, <3>1, <3>2 DEF JobHandlers, Handlers
    <3> QED
      BY <2>1, <3>1, <3>2, <3>3 DEF Revives
  <2>7. ASSUME NEW t \in IOThread, NEW n, NEW ok, PostRequest(t, n, ok) PROVE FALSE
    <3>1. ses[t] \in Session /\ pc[t] = "subscribe"
      BY <2>7, HasSession DEF PostRequest
    <3>2. ses[t] = s
      BY <2>2, <2>7, <3>1 DEF PostRequest
    <3>3. kind[t] # "flush"
      BY <2>1, <3>1 DEF JobLifeInv, JobThreadOK
    <3> QED
      BY <2>4, <3>1, <3>2, <3>3 DEF JobHandlers, Handlers
  <2>8. ASSUME NEW t \in IOThread, ReleaseRef(t) PROVE FALSE
    <3>1. ses[t] \in Session
      BY <2>8, HasSession DEF ReleaseRef
    <3> QED
      BY <2>2, <2>8, <3>1 DEF ReleaseRef
  <2>9. ASSUME NEW t \in IOThread, ReturnClientSession(t) PROVE FALSE
    <3>1. ses[t] \in Session
      BY <2>9, HasSession DEF ReturnClientSession
    <3> QED
      BY <2>2, <2>9, <3>1 DEF ReturnClientSession
  <2>10. ASSUME NEW t \in IOThread, SameAsHomework7(t) PROVE FALSE
    <3>1. NewContext(t) \/ ReleaseRef(t) \/ ReturnClientSession(t)
      BY <2>3, <2>10 DEF SameAsHomework7, AcceptCompletion, AcceptSetup, PreRecv, PostRecv,
         IssueOk, IssueFails, ParseEnd, BeginSend, DisconnectRequest, sessionVars
    <3> QED
      BY <2>6, <2>8, <2>9, <2>10, <3>1
  <2>11. ASSUME NEW t \in IOThread, DoSends(t) PROVE FALSE
    BY <2>3, <2>11 DEF DoSends, PostSend, FlushedSendCompletion, DoSendJob, FlushBegin,
       FlushWaits, FlushPosts, FlushIssueOk, IssueOk, FlushEnd, sessionVars
  <2>12. ASSUME NEW t \in IOThread, NextCompletion(t) PROVE FALSE
    BY <2>3, <2>12 DEF NextCompletion, Completion, GetQueuedCompletionStatus, SendCompletion, sessionVars
  <2>13. ASSUME NEW t \in IOThread, OnLoadResult(t) \/ ResetWithPlayer(t) PROVE FALSE
    BY <2>3, <2>13 DEF OnLoadResult, ResetWithPlayer, ResetSends, SessionReset, sessionVars
  <2>14. ASSUME NEW d \in DBThread,
                DoDatabaseJob(d) \/ \E ok \in BOOLEAN : PostDatabaseResult(d, ok)
         PROVE  FALSE
    BY <2>3, <2>14 DEF DoDatabaseJob, PostDatabaseResult, allVars, vars, sessionVars
  <2>15. ASSUME NEW d \in DBThread, PostDatabaseResultFails(d) PROVE FALSE
    BY <2>3, <2>15 DEF PostDatabaseResultFails, allVars, vars, sessionVars
  <2> QED
    BY <2>5, <2>7, <2>10, <2>11, <2>12, <2>13, <2>14, <2>15 DEF JobNext
<1> QED
  BY <1>1, SendInvariant, JobAlwaysLives, PTL DEF JobSpec

-----------------------------------------------------------------------------
(* The types.                                                              *)

Regions == UNION {[1 .. n -> 1 .. MaxStored] : n \in 0 .. 2}

\* A buffer has no region, one or two.
LEMMA RegionsCases ==
  ASSUME NEW b
  PROVE  b \in Regions <=> \/ b = << >>
                           \/ \E x \in 1 .. MaxStored : b = <<x>>
                           \/ \E x, y \in 1 .. MaxStored : b = <<x, y>>
<1>1. b \in Regions <=> \E n \in 0 .. 2 : b \in [1 .. n -> 1 .. MaxStored]
  BY DEF Regions
<1>2. \A n \in 0 .. 2 : n = 0 \/ n = 1 \/ n = 2
  OBVIOUS
<1>3. b \in [1 .. 0 -> 1 .. MaxStored] <=> b = << >>
  <2>1. ASSUME b \in [1 .. 0 -> 1 .. MaxStored] PROVE b = << >>
    <3>1. b \in Seq(1 .. MaxStored) /\ Len(b) = 0
      BY <2>1
    <3> QED
      BY <3>1, EmptySeq
  <2>2. << >> \in [1 .. 0 -> 1 .. MaxStored]
    OBVIOUS
  <2> QED
    BY <2>1, <2>2
<1>4. b \in [1 .. 1 -> 1 .. MaxStored] <=> \E x \in 1 .. MaxStored : b = <<x>>
  OBVIOUS
<1>5. b \in [1 .. 2 -> 1 .. MaxStored] <=> \E x, y \in 1 .. MaxStored : b = <<x, y>>
  OBVIOUS
<1> QED
  BY <1>1, <1>2, <1>3, <1>4, <1>5

LEMMA Sizes ==
  /\ SizeOf(<< >>) = 0
  /\ \A x \in Nat : SizeOf(<<x>>) = x
  /\ \A x, y \in Nat : SizeOf(<<x, y>>) = x + y
BY DEF SizeOf

LEMMA CommittedType ==
  ASSUME NEW b \in Regions, SizeOf(b) < MaxStored, NEW c \in Committed(b)
  PROVE  c \in Regions /\ SizeOf(c) <= MaxStored
<1> USE MaxStoredAssumption
<1>1. CASE b = << >>
  <2>1. c = <<1>> /\ 1 \in 1 .. MaxStored
    BY <1>1 DEF Committed
  <2> QED
    BY <2>1, RegionsCases, Sizes
<1>2. ASSUME NEW x \in 1 .. MaxStored, b = <<x>> PROVE c \in Regions /\ SizeOf(c) <= MaxStored
  <2>1. x < MaxStored
    BY <1>2, Sizes
  <2>2. /\ b # << >> /\ Len(b) = 1 /\ [b EXCEPT ![1] = @ + 1] = <<x + 1>>
        /\ Append(b, 1) = <<x, 1>>
    <3>1. b # << >> /\ Len(b) = 1 /\ [b EXCEPT ![1] = @ + 1] = <<x + 1>>
      BY <1>2
    <3>2. Append(<<x>>, 1) = <<x, 1>>
      <4>1. <<x>> \in Seq(Int) /\ <<x, 1>> \in Seq(Int)
        OBVIOUS
      <4>2. /\ Append(<<x>>, 1) \in Seq(Int) /\ Len(Append(<<x>>, 1)) = 2
            /\ \A i \in 1 .. 2 : Append(<<x>>, 1)[i] = <<x, 1>>[i]
        BY <4>1, AppendProperties
      <4> QED
        BY <4>1, <4>2, SeqEqual
    <3> QED
      BY <1>2, <3>1, <3>2
  <2>3. c = <<x + 1>> \/ c = <<x, 1>>
    BY <2>2 DEF Committed
  <2>4. x + 1 \in 1 .. MaxStored /\ 1 \in 1 .. MaxStored /\ x \in Nat /\ x + 1 \in Nat
    BY <2>1
  <2> QED
    BY <2>3, <2>4, RegionsCases, Sizes
<1>3. ASSUME NEW x \in 1 .. MaxStored, NEW y \in 1 .. MaxStored, b = <<x, y>>
      PROVE  c \in Regions /\ SizeOf(c) <= MaxStored
  <2>1. x + y < MaxStored
    BY <1>3, Sizes
  <2>2. b # << >> /\ Len(b) = 2 /\ [b EXCEPT ![2] = @ + 1] = <<x, y + 1>>
    BY <1>3
  <2>3. c = <<x, y + 1>>
    BY <2>2 DEF Committed
  <2>4. y + 1 \in 1 .. MaxStored /\ x \in Nat /\ y + 1 \in Nat
    BY <2>1
  <2> QED
    BY <2>1, <2>3, <2>4, RegionsCases, Sizes
<1> QED
  BY <1>1, <1>2, <1>3, RegionsCases

LEMMA RemovedType ==
  ASSUME NEW b \in Regions, SizeOf(b) <= MaxStored, NEW len \in 1 .. MaxStored
  PROVE  Removed(b, len) \in Regions /\ SizeOf(Removed(b, len)) <= MaxStored
<1> USE MaxStoredAssumption
<1>1. CASE len >= SizeOf(b)
  BY <1>1, RegionsCases, Sizes DEF Removed
<1>2. ASSUME NEW x \in 1 .. MaxStored, b = <<x>>, ~(len >= SizeOf(b))
      PROVE  Removed(b, len) \in Regions /\ SizeOf(Removed(b, len)) <= MaxStored
  <2>1. b[1] = x /\ SizeOf(b) = x
    BY <1>2, Sizes
  <2>2. Removed(b, len) = [b EXCEPT ![1] = @ - len]
    BY <1>2, <2>1 DEF Removed
  <2>3. Removed(b, len) = <<x - len>>
    BY <1>2, <2>2
  <2>4. x - len \in 1 .. MaxStored /\ x - len \in Nat
    BY <1>2, <2>1
  <2> QED
    BY <2>3, <2>4, RegionsCases, Sizes
<1>3. ASSUME NEW x \in 1 .. MaxStored, NEW y \in 1 .. MaxStored, b = <<x, y>>,
             ~(len >= SizeOf(b))
      PROVE  Removed(b, len) \in Regions /\ SizeOf(Removed(b, len)) <= MaxStored
  <2>1. b[1] = x /\ SizeOf(b) = x + y /\ x + y <= MaxStored /\ len < x + y
    BY <1>3, Sizes
  <2>2. CASE len >= x
    <3>1. Removed(b, len) = <<x + y - len>>
      BY <1>3, <2>1, <2>2 DEF Removed
    <3>2. x + y - len \in 1 .. MaxStored /\ x + y - len \in Nat
      BY <2>1
    <3> QED
      BY <3>1, <3>2, RegionsCases, Sizes
  <2>3. CASE ~(len >= x)
    <3>1. Removed(b, len) = [b EXCEPT ![1] = @ - len]
      BY <1>3, <2>1, <2>3 DEF Removed
    <3>2. Removed(b, len) = <<x - len, y>>
      BY <1>3, <3>1
    <3>3. x - len \in 1 .. MaxStored /\ x - len \in Nat /\ y \in Nat /\ x - len + y <= MaxStored
      BY <2>1, <2>3
    <3> QED
      BY <3>2, <3>3, RegionsCases, Sizes
  <2> QED
    BY <2>2, <2>3
<1>4. CASE ~(len >= SizeOf(b))
  <2>1. b # << >>
    BY <1>4, Sizes
  <2> QED
    BY <1>2, <1>3, <1>4, <2>1, RegionsCases
<1> QED
  BY <1>1, <1>4

\* What SendInv leaves to show of the types.
DataOK ==
  /\ mSendBuffer \in [Session -> Regions]
  /\ \A s \in Session : SizeOf(mSendBuffer[s]) <= MaxStored
  /\ sending \in [Session -> 0 .. MaxStored]
  /\ mPlayerId \in [Session -> {NoPlayer} \union (0 .. MaxPlayerId - 1)]
  /\ requests \subseteq Context /\ unposted \subseteq requests /\ results \subseteq Context
  /\ running \in [DBThread -> Context \union {None}]
  /\ revived \in BOOLEAN /\ aborted \in BOOLEAN

LEMMA TypesFromData == SendInv /\ DataOK => JobTypeOK
<1> SUFFICES ASSUME SendInv, DataOK PROVE JobTypeOK
  OBVIOUS
<1>1. mSendPendingCount \in [Session -> {0, 1}]
  <2>1. mSendPendingCount \in [Session -> Nat]
    BY DEF SendInv, SendingTypeOK
  <2>2. \A s \in Session : mSendPendingCount[s] \in {0, 1}
    BY <2>1 DEF SendInv
  <2> QED
    BY <2>1, <2>2
<1>2. /\ kind \in [IOThread -> IOType \union {"none", "flush"}]
      /\ LSendRequestSessionList \in [IOThread -> Seq(Session)]
  BY DEF SendInv, SendingTypeOK
<1> QED
  BY <1>1, <1>2 DEF JobTypeOK, SendTypeOK, DataOK, Regions

\* The send buffers.
BuffersOK ==
  /\ mSendBuffer \in [Session -> Regions]
  /\ \A s \in Session : SizeOf(mSendBuffer[s]) <= MaxStored
  /\ sending \in [Session -> 0 .. MaxStored]

LEMMA DoSendsTypes ==
  ASSUME SendInv, BuffersOK, NEW t \in IOThread, DoSends(t)
  PROVE  BuffersOK'
<1> USE MaxStoredAssumption
<1>1. ASSUME NEW s \in Session, NEW b \in Regions, SizeOf(b) <= MaxStored,
             mSendBuffer' = [mSendBuffer EXCEPT ![s] = b], sending' = sending
      PROVE  BuffersOK'
  <2>1. /\ mSendBuffer' \in [Session -> Regions]
        /\ \A r \in Session : mSendBuffer'[r] = IF r = s THEN b ELSE mSendBuffer[r]
    BY <1>1 DEF BuffersOK
  <2> QED
    BY <1>1, <2>1 DEF BuffersOK
<1>2. ASSUME UNCHANGED <<mSendBuffer, sending>> PROVE BuffersOK'
  BY <1>2 DEF BuffersOK
<1>3. ASSUME NEW full \in BOOLEAN, PostSend(t, full) PROVE BuffersOK'
  <2>1. PICK s \in Session : ses[t] = s
    BY <1>3, HasSession DEF PostSend
  <2>2. sending' = sending
    BY <1>3 DEF PostSend
  <2>3. CASE full
    BY <1>2, <1>3, <2>2, <2>3 DEF PostSend
  <2>4. CASE ~full
    <3>1. SizeOf(mSendBuffer[s]) < MaxStored /\ mSendBuffer[s] \in Regions
      BY <1>3, <2>1, <2>4 DEF PostSend, BuffersOK
    <3>2. PICK b \in Committed(mSendBuffer[s]) : mSendBuffer' = [mSendBuffer EXCEPT ![s] = b]
      BY <1>3, <2>1, <2>4 DEF PostSend
    <3>3. b \in Regions /\ SizeOf(b) <= MaxStored
      BY <3>1, <3>2, CommittedType
    <3> QED
      BY <1>1, <2>2, <3>2, <3>3
  <2> QED
    BY <2>3, <2>4
<1>4. ASSUME NEW len \in 1 .. MaxStored, FlushedSendCompletion(t, len) PROVE BuffersOK'
  <2>1. PICK s \in Session : ses[t] = s
    BY <1>4, HasSession DEF FlushedSendCompletion
  <2>2. /\ mSendBuffer' = [mSendBuffer EXCEPT ![s] = Removed(mSendBuffer[s], len)]
        /\ sending' = sending
    BY <1>4, <2>1 DEF FlushedSendCompletion
  <2>3. /\ Removed(mSendBuffer[s], len) \in Regions
        /\ SizeOf(Removed(mSendBuffer[s], len)) <= MaxStored
    BY RemovedType DEF BuffersOK
  <2> QED
    BY <1>1, <2>2, <2>3
<1>5. CASE FlushPosts(t)
  <2>1. PICK s \in Session : ses[t] = s
    BY <1>5, HasSession DEF FlushPosts
  <2>2. /\ mSendBuffer' = mSendBuffer /\ mSendBuffer[s] # << >>
        /\ sending' = [sending EXCEPT ![s] = mSendBuffer[s][1]]
    BY <1>5, <2>1 DEF FlushPosts
  <2>3. mSendBuffer[s][1] \in 0 .. MaxStored
    <3>1. mSendBuffer[s] \in Regions
      BY DEF BuffersOK
    <3>2. \/ \E x \in 1 .. MaxStored : mSendBuffer[s] = <<x>>
          \/ \E x, y \in 1 .. MaxStored : mSendBuffer[s] = <<x, y>>
      BY <2>2, <3>1, RegionsCases
    <3> QED
      BY <3>2
  <2> QED
    BY <2>2, <2>3 DEF BuffersOK
<1>6. CASE FlushBegin(t) \/ FlushWaits(t) \/ FlushIssueOk(t) \/ FlushEnd(t)
  BY <1>2, <1>6 DEF FlushBegin, FlushWaits, FlushIssueOk, FlushEnd, sendVars
<1> QED
  BY <1>3, <1>4, <1>5, <1>6 DEF DoSends, DoSendJob

LEMMA NextDataOK == SendInv /\ DataOK /\ [JobNext]_h6Vars => DataOK'
<1> SUFFICES ASSUME SendInv, DataOK, [JobNext]_h6Vars PROVE DataOK'
  OBVIOUS
<1> DEFINE JobsOK == /\ mPlayerId \in [Session -> {NoPlayer} \union (0 .. MaxPlayerId - 1)]
                     /\ requests \subseteq Context /\ unposted \subseteq requests
                     /\ results \subseteq Context
                     /\ running \in [DBThread -> Context \union {None}]
<1>1. BuffersOK /\ JobsOK
  BY DEF DataOK, BuffersOK
<1>2. revived' \in BOOLEAN /\ aborted' \in BOOLEAN
  BY DEF DataOK, JobNext, h6Vars, PostDatabaseResultFails
<1>3. UNCHANGED <<mSendBuffer, sending>> => BuffersOK'
  BY <1>1 DEF BuffersOK
<1>4. UNCHANGED jobVars => JobsOK'
  BY <1>1 DEF jobVars
<1>5. UNCHANGED sendVars => UNCHANGED <<mSendBuffer, sending>>
  BY DEF sendVars
<1>6. CASE AcceptClientSessions /\ UNCHANGED <<sendVars, jobVars>>
  BY <1>2, <1>3, <1>4, <1>5, <1>6 DEF DataOK, BuffersOK
<1>7. ASSUME NEW t \in IOThread, SameAsHomework7(t) /\ UNCHANGED <<sendVars, jobVars>> PROVE DataOK'
  BY <1>2, <1>3, <1>4, <1>5, <1>7 DEF DataOK, BuffersOK
<1>8. ASSUME NEW t \in IOThread, DoSends(t) /\ UNCHANGED jobVars PROVE DataOK'
  <2>1. BuffersOK'
    BY <1>1, <1>8, DoSendsTypes
  <2> QED
    BY <1>2, <1>4, <1>8, <2>1 DEF DataOK, BuffersOK
<1>9. ASSUME NEW t \in IOThread, NextCompletion(t) /\ UNCHANGED jobVars PROVE DataOK'
  <2>1. BuffersOK'
    BY <1>3, <1>5, <1>9 DEF NextCompletion
  <2> QED
    BY <1>2, <1>4, <1>9, <2>1 DEF DataOK, BuffersOK
<1>10. ASSUME NEW t \in IOThread, NEW n \in 0 .. MaxPlayerId - 1, NEW ok, PostRequest(t, n, ok)
       PROVE  DataOK'
  <2>1. PICK s \in Session : ses[t] = s
    BY <1>10, HasSession DEF PostRequest
  <2> DEFINE c == [mSessionObject |-> s, mPlayerId |-> n, mSuccess |-> FALSE]
  <2>2. /\ requests' = requests \union {c} /\ unposted' \in {unposted, unposted \union {c}}
        /\ UNCHANGED <<sendVars, mPlayerId, running, results>>
    BY <1>10, <2>1 DEF PostRequest
  <2>3. unposted' \subseteq requests'
    BY <1>1, <2>2
  <2>4. requests' \subseteq Context
    <3>1. c \in Context
      BY DEF Context
    <3> QED
      BY <1>1, <2>2, <3>1
  <2>5. BuffersOK'
    BY <1>3, <1>5, <2>2
  <2> QED
    BY <1>1, <1>2, <2>2, <2>3, <2>4, <2>5 DEF DataOK, BuffersOK
<1>11. ASSUME NEW t \in IOThread, OnLoadResult(t) PROVE DataOK'
  <2>1. PICK s \in Session : ses[t] = s
    BY <1>11, HasSession DEF OnLoadResult
  <2>2. PICK c \in results :
          /\ results' = results \ {c}
          /\ mPlayerId' = IF c.mSuccess THEN [mPlayerId EXCEPT ![s] = c.mPlayerId] ELSE mPlayerId
    BY <1>11, <2>1 DEF OnLoadResult
  <2>3. UNCHANGED <<sendVars, requests, unposted, running>>
    BY <1>11 DEF OnLoadResult
  <2>4. c.mPlayerId \in 0 .. MaxPlayerId - 1
    BY <1>1, <2>2 DEF Context
  <2>5. mPlayerId' \in [Session -> {NoPlayer} \union (0 .. MaxPlayerId - 1)]
    BY <1>1, <2>2, <2>4
  <2>6. BuffersOK'
    BY <1>3, <1>5, <2>3
  <2>7. results' \subseteq Context
    BY <1>1, <2>2
  <2> QED
    BY <1>1, <1>2, <2>3, <2>5, <2>6, <2>7 DEF DataOK, BuffersOK
<1>12. ASSUME NEW t \in IOThread, ResetWithPlayer(t) PROVE DataOK'
  <2>1. /\ mSendBuffer' = [mSendBuffer EXCEPT ![ses[t]] = << >>] /\ sending' = sending
        /\ mPlayerId' = [mPlayerId EXCEPT ![ses[t]] = NoPlayer]
        /\ UNCHANGED <<requests, unposted, running, results>>
    BY <1>12 DEF ResetWithPlayer, ResetSends
  <2>2. << >> \in Regions /\ SizeOf(<< >>) = 0
    BY RegionsCases, Sizes
  <2>3. /\ mSendBuffer' \in [Session -> Regions]
        /\ \A r \in Session : mSendBuffer'[r] = << >> \/ mSendBuffer'[r] = mSendBuffer[r]
    BY <1>1, <2>1, <2>2 DEF BuffersOK
  <2>4. \A r \in Session : SizeOf(mSendBuffer'[r]) <= MaxStored
    BY <1>1, <2>2, <2>3, MaxStoredAssumption DEF BuffersOK
  <2>5. mPlayerId' \in [Session -> {NoPlayer} \union (0 .. MaxPlayerId - 1)]
    BY <1>1, <2>1
  <2> QED
    BY <1>1, <1>2, <2>1, <2>3, <2>4, <2>5 DEF DataOK, BuffersOK
<1>13. ASSUME NEW d \in DBThread, DoDatabaseJob(d) PROVE DataOK'
  <2>1. PICK c \in requests \ unposted :
          running' = [running EXCEPT ![d] = c] /\ requests' = requests \ {c}
    BY <1>13 DEF DoDatabaseJob
  <2>2. UNCHANGED <<mSendBuffer, sending, mPlayerId, unposted, results>>
    BY <1>13 DEF DoDatabaseJob, allVars, sendVars
  <2>3. /\ running' \in [DBThread -> Context \union {None}] /\ requests' \subseteq Context
        /\ unposted' \subseteq requests'
    BY <1>1, <2>1, <2>2
  <2> QED
    BY <1>1, <1>2, <1>3, <2>2, <2>3 DEF DataOK, BuffersOK
<1>14. ASSUME NEW d \in DBThread, NEW ok \in BOOLEAN, PostDatabaseResult(d, ok) PROVE DataOK'
  <2>1. /\ running[d] # None /\ results' = results \union {[running[d] EXCEPT !.mSuccess = ok]}
        /\ running' = [running EXCEPT ![d] = None]
        /\ UNCHANGED <<sendVars, mPlayerId, requests, unposted>>
    BY <1>14 DEF PostDatabaseResult
  <2>2. [running[d] EXCEPT !.mSuccess = ok] \in Context
    BY <1>1, <2>1 DEF Context
  <2>3. running' \in [DBThread -> Context \union {None}] /\ results' \subseteq Context
    BY <1>1, <2>1, <2>2
  <2>4. BuffersOK'
    BY <1>3, <1>5, <2>1
  <2> QED
    BY <1>1, <1>2, <2>1, <2>3, <2>4 DEF DataOK, BuffersOK
<1>15. CASE UNCHANGED h6Vars
  BY <1>1, <1>2, <1>3, <1>4, <1>5, <1>15 DEF h6Vars, allVars, DataOK, BuffersOK
<1>16. ASSUME NEW d \in DBThread, PostDatabaseResultFails(d) PROVE DataOK'
  BY <1>1, <1>2, <1>3, <1>4, <1>5, <1>16 DEF PostDatabaseResultFails, allVars, DataOK, BuffersOK
<1> QED
  BY <1>6, <1>7, <1>8, <1>9, <1>10, <1>11, <1>12, <1>13, <1>14, <1>15, <1>16 DEF JobNext

LEMMA DataKept == JobSpec => []DataOK
<1>1. JobInit => DataOK
  <2> SUFFICES ASSUME JobInit PROVE DataOK
    OBVIOUS
  <2>1. 0 \in 0 .. MaxPlayerId - 1 /\ 0 \in 0 .. MaxStored /\ 0 <= MaxStored
    BY DatabaseAssumption, MaxStoredAssumption
  <2>2. << >> \in Regions /\ SizeOf(<< >>) = 0
    BY RegionsCases, Sizes
  <2> QED
    BY <2>1, <2>2 DEF JobInit, SendInit, DataOK
<1>2. SendInv /\ DataOK /\ [JobNext]_h6Vars => DataOK'
  BY NextDataOK
<1> QED
  BY <1>1, <1>2, SendInvariant, PTL DEF JobSpec

\* Every variable of Homework6 keeps its type, also after a session has been
\* revived: no count of sends is negative, and no buffer takes more bytes than
\* it has.
THEOREM JobTypesKept == JobSpec => []JobTypeOK
BY DataKept, TypesFromData, SendInvariant, PTL

LEMMA BuffersKept == JobSpec => []BuffersOK
<1>1. DataOK => BuffersOK
  BY DEF DataOK, BuffersOK
<1> QED
  BY <1>1, DataKept, PTL

-----------------------------------------------------------------------------
(* What waits in the lists, and what is left in the buffers.               *)

LEMMA WaitingMember ==
  ASSUME NEW s \in Session
  PROVE  /\ \A t \in IOThread : \A i : <<t, i>> \in Waiting(s) <=> WaitsAt(t, i, s)
         /\ \A p \in Waiting(s) : \E t \in IOThread, i \in Nat : p = <<t, i>> /\ WaitsAt(t, i, s)
<1>1. \A p : p \in Waiting(s) <=>
        \E t \in IOThread : \E i \in 1 .. Len(LSendRequestSessionList[t]) :
          p = <<t, i>> /\ WaitsAt(t, i, s)
  BY DEF Waiting
<1>2. \A t \in IOThread : \A i :
        WaitsAt(t, i, s) => i \in 1 .. Len(LSendRequestSessionList[t])
  BY DEF WaitsAt
<1> QED
  BY <1>1, <1>2

\* Remove takes what a send took: region A, or a part of it.
LEMMA RemovedLen ==
  ASSUME NEW b \in Regions, NEW n \in Nat
  PROVE  /\ Len(b) \in 0 .. 2 /\ Len(Removed(b, n)) \in 0 .. 2
         /\ b = << >> <=> Len(b) = 0
         /\ b = << >> => Len(Removed(b, n)) = 0
         /\ b # << >> => Len(Removed(b, b[1])) = Len(b) - 1
         /\ b # << >> => b[1] \in 1 .. MaxStored
<1> USE MaxStoredAssumption
<1>1. CASE b = << >>
  BY <1>1, Sizes DEF Removed
<1>2. ASSUME NEW x \in 1 .. MaxStored, b = <<x>>
      PROVE  /\ Len(b) = 1 /\ b[1] = x
             /\ Len(Removed(b, n)) = IF n >= x THEN 0 ELSE 1
             /\ Len(Removed(b, x)) = 0
  <2>1. SizeOf(b) = x /\ b[1] = x /\ Len(b) = 1
    BY <1>2, Sizes
  <2> QED
    BY <1>2, <2>1 DEF Removed
<1>3. ASSUME NEW x \in 1 .. MaxStored, NEW y \in 1 .. MaxStored, b = <<x, y>>
      PROVE  /\ Len(b) = 2 /\ b[1] = x
             /\ Len(Removed(b, n)) = IF n >= x + y THEN 0 ELSE IF n >= x THEN 1 ELSE 2
             /\ Len(Removed(b, x)) = 1
  <2>1. SizeOf(b) = x + y /\ b[1] = x /\ Len(b) = 2
    BY <1>3, Sizes
  <2> QED
    BY <1>3, <2>1 DEF Removed
<1>4. CASE b = << >>
  BY <1>1, <1>4
<1>5. ASSUME NEW x \in 1 .. MaxStored, b = <<x>>
      PROVE  /\ Len(b) = 1 /\ Len(Removed(b, n)) \in 0 .. 2
             /\ Len(Removed(b, b[1])) = 0 /\ b[1] \in 1 .. MaxStored
  BY <1>2, <1>5
<1>6. ASSUME NEW x \in 1 .. MaxStored, NEW y \in 1 .. MaxStored, b = <<x, y>>
      PROVE  /\ Len(b) = 2 /\ Len(Removed(b, n)) \in 0 .. 2
             /\ Len(Removed(b, b[1])) = 1 /\ b[1] \in 1 .. MaxStored
  <2>1. /\ Len(b) = 2 /\ b[1] = x /\ Len(Removed(b, x)) = 1
        /\ Len(Removed(b, n)) = IF n >= x + y THEN 0 ELSE IF n >= x THEN 1 ELSE 2
    BY <1>3, <1>6
  <2> QED
    BY <2>1
<1>7. CASE \E x \in 1 .. MaxStored : b = <<x>>
  BY <1>5, <1>7
<1>8. CASE \E x, y \in 1 .. MaxStored : b = <<x, y>>
  <2>1. PICK x, y \in 1 .. MaxStored : b = <<x, y>>
    BY <1>8
  <2>2. /\ Len(b) = 2 /\ Len(Removed(b, n)) \in 0 .. 2
        /\ Len(Removed(b, b[1])) = 1 /\ b[1] \in 1 .. MaxStored
    BY <1>6, <2>1
  <2>3. b # << >>
    BY <2>1
  <2> QED
    BY <2>2, <2>3
<1> QED
  BY <1>4, <1>7, <1>8, RegionsCases

\* PostSend leaves at most one region more to send than before.
LEMMA CommittedLen ==
  ASSUME NEW b \in Regions, NEW c \in Committed(b), NEW n \in Nat
  PROVE  /\ Len(c) <= Len(b) + 1
         /\ Len(Removed(c, n)) <= Len(Removed(b, n)) + 1
<1> USE MaxStoredAssumption
<1>1. CASE b = << >>
  <2>1. c = <<1>>
    BY <1>1 DEF Committed
  <2>2. SizeOf(c) = 1 /\ c[1] = 1 /\ Len(c) = 1 /\ SizeOf(b) = 0
    BY <1>1, <2>1, Sizes
  <2> QED
    BY <1>1, <2>1, <2>2 DEF Removed
<1>2. ASSUME NEW x \in 1 .. MaxStored, b = <<x>>
      PROVE  /\ Len(c) <= Len(b) + 1
             /\ Len(Removed(c, n)) <= Len(Removed(b, n)) + 1
  <2>1. c = <<x + 1>> \/ c = <<x, 1>>
    BY <1>2 DEF Committed
  <2>2. SizeOf(b) = x /\ SizeOf(<<x + 1>>) = x + 1 /\ SizeOf(<<x, 1>>) = x + 1
    BY <1>2, Sizes
  <2>3. Len(Removed(b, n)) = IF n >= x THEN 0 ELSE 1
    BY <1>2, <2>2 DEF Removed
  <2>4. Len(Removed(<<x + 1>>, n)) = IF n >= x + 1 THEN 0 ELSE 1
    BY <1>2, <2>2 DEF Removed
  <2>5. Len(Removed(<<x, 1>>, n)) = IF n >= x + 1 THEN 0 ELSE IF n >= x THEN 1 ELSE 2
    BY <1>2, <2>2 DEF Removed
  <2>6. Len(b) = 1 /\ Len(<<x + 1>>) = 1 /\ Len(<<x, 1>>) = 2
    BY <1>2
  <2>7. CASE c = <<x + 1>>
    <3>1. Len(Removed(c, n)) = IF n >= x + 1 THEN 0 ELSE 1
      BY <2>4, <2>7
    <3>2. Len(c) = 1
      BY <2>6, <2>7
    <3> QED
      BY <2>3, <2>6, <3>1, <3>2
  <2>8. CASE c = <<x, 1>>
    <3>1. Len(Removed(c, n)) = IF n >= x + 1 THEN 0 ELSE IF n >= x THEN 1 ELSE 2
      BY <2>5, <2>8
    <3>2. Len(c) = 2
      BY <2>6, <2>8
    <3> QED
      BY <2>3, <2>6, <3>1, <3>2
  <2> QED
    BY <2>1, <2>7, <2>8
<1>3. ASSUME NEW x \in 1 .. MaxStored, NEW y \in 1 .. MaxStored, b = <<x, y>>
      PROVE  /\ Len(c) <= Len(b) + 1
             /\ Len(Removed(c, n)) <= Len(Removed(b, n)) + 1
  <2>1. c = <<x, y + 1>>
    BY <1>3 DEF Committed
  <2>2. SizeOf(b) = x + y /\ SizeOf(c) = x + y + 1
    BY <1>3, <2>1, Sizes
  <2>3. Len(Removed(b, n)) = IF n >= x + y THEN 0 ELSE IF n >= x THEN 1 ELSE 2
    BY <1>3, <2>2 DEF Removed
  <2>4. Len(Removed(c, n)) = IF n >= x + y + 1 THEN 0 ELSE IF n >= x THEN 1 ELSE 2
    BY <2>1, <2>2 DEF Removed
  <2> QED
    BY <1>3, <2>1, <2>3, <2>4
<1> QED
  BY <1>1, <1>2, <1>3, RegionsCases

LEMMA LeftType ==
  ASSUME BuffersOK, NEW s \in Session
  PROVE  Left(s) \in 0 .. 2 /\ (mSendBuffer[s] = << >> => Left(s) = 0)
<1>1. mSendBuffer[s] \in Regions /\ sending[s] \in Nat
  BY MaxStoredAssumption DEF BuffersOK
<1> QED
  BY <1>1, RemovedLen DEF Left

\* Nothing is taken out of the lists, and no more is left to send.
LEMMA EnoughGrows ==
  ASSUME BuffersOK, BuffersOK', NEW s \in Session, Enough(s),
         Waiting(s) \subseteq Waiting(s)', Left(s)' <= Left(s)
  PROVE  Enough(s)'
<1>1. Left(s) \in Nat /\ Left(s)' \in Nat
  <2>1. Left(s) \in 0 .. 2
    BY LeftType
  <2>2. (Left(s) \in 0 .. 2)'
    BY LeftType, PTL
  <2> QED
    BY <2>1, <2>2
<1> QED
  BY <1>1 DEF Enough

LEMMA WaitingMemberNext ==
  ASSUME NEW s \in Session
  PROVE  /\ \A t \in IOThread : \A i : <<t, i>> \in Waiting(s)' <=> WaitsAt(t, i, s)'
         /\ \A p \in Waiting(s)' : \E t \in IOThread, i \in Nat : p = <<t, i>> /\ WaitsAt(t, i, s)'
<1>1. \A p : p \in Waiting(s)' <=>
        \E t \in IOThread : \E i \in 1 .. Len(LSendRequestSessionList'[t]) :
          p = <<t, i>> /\ WaitsAt(t, i, s)'
  BY DEF Waiting
<1>2. \A t \in IOThread : \A i :
        WaitsAt(t, i, s)' => i \in 1 .. Len(LSendRequestSessionList'[t])
  BY DEF WaitsAt
<1> QED
  BY <1>1, <1>2

LEMMA WaitsElsewhere ==
  ASSUME NEW t \in IOThread, StepOf(t), NEW u \in IOThread \ {t}, NEW s \in Session, NEW i
  PROVE  WaitsAt(u, i, s)' <=> WaitsAt(u, i, s)
BY DEF WaitsAt, Consumed, StepOf

LEMMA WaitingGrows ==
  ASSUME NEW t \in IOThread, StepOf(t), NEW s \in Session,
         \A i \in Nat : WaitsAt(t, i, s) => WaitsAt(t, i, s)'
  PROVE  Waiting(s) \subseteq Waiting(s)'
<1> SUFFICES ASSUME NEW p \in Waiting(s) PROVE p \in Waiting(s)'
  OBVIOUS
<1>1. PICK u \in IOThread, i \in Nat : p = <<u, i>> /\ WaitsAt(u, i, s)
  BY WaitingMember
<1>2. WaitsAt(u, i, s)'
  BY <1>1, WaitsElsewhere
<1> QED
  BY <1>1, <1>2, WaitingMemberNext

\* The first entry of a list, which has been used or is of another session, is
\* taken out: the others move up.
LEMMA EnoughShifts ==
  ASSUME SendInv, BuffersOK, BuffersOK', NEW t \in IOThread, StepOf(t), NEW s \in Session,
         Enough(s), Left(s)' <= Left(s),
         LSendRequestSessionList[t] # << >>,
         LSendRequestSessionList'[t] = Tail(LSendRequestSessionList[t]),
         Consumed(t) \/ Head(LSendRequestSessionList[t]) # s, ~Consumed(t)'
  PROVE  Enough(s)'
<1> DEFINE F(p) == IF p[1] = t THEN <<t, p[2] - 1>> ELSE p
           l == LSendRequestSessionList[t]
<1>1. l \in Seq(Session) /\ Len(Tail(l)) = Len(l) - 1 /\ Len(l) \in Nat /\ Len(l) > 0
      /\ \A i \in 1 .. Len(Tail(l)) : Tail(l)[i] = l[i + 1]
  <2>1. l \in Seq(Session)
    BY DEF SendInv, SendingTypeOK
  <2> QED
    BY <2>1
<1>2. ASSUME NEW i \in Nat, WaitsAt(t, i, s)
      PROVE  i >= 2 /\ i - 1 \in Nat /\ WaitsAt(t, i - 1, s)'
  <2>1. i \in 1 .. Len(l) /\ l[i] = s
    BY <1>2 DEF WaitsAt
  <2>2. i # 1
    <3>1. Head(l) = l[1]
      BY <1>1
    <3> QED
      BY <1>2, <2>1, <3>1 DEF WaitsAt
  <2>3. i - 1 \in 1 .. Len(Tail(l)) /\ i >= 2
    BY <1>1, <2>1, <2>2
  <2>4. Tail(l)[i - 1] = s
    BY <1>1, <2>1, <2>3
  <2> QED
    BY <2>3, <2>4 DEF WaitsAt
<1>3. ASSUME NEW p \in Waiting(s)
      PROVE  /\ F(p) \in Waiting(s)'
             /\ \E u \in IOThread, i \in Nat : p = <<u, i>> /\ (u = t => i >= 2)
  <2>1. PICK u \in IOThread, i \in Nat : p = <<u, i>> /\ WaitsAt(u, i, s)
    BY WaitingMember
  <2>2. CASE u = t
    <3>1. F(p) = <<t, i - 1>>
      BY <2>1, <2>2
    <3> QED
      BY <1>2, <2>1, <2>2, <3>1, WaitingMemberNext
  <2>3. CASE u # t
    <3>1. F(p) = <<u, i>> /\ WaitsAt(u, i, s)'
      BY <2>1, <2>3, WaitsElsewhere
    <3> QED
      BY <2>1, <2>3, <3>1, WaitingMemberNext
  <2> QED
    BY <2>2, <2>3
<1>4. ASSUME NEW p \in Waiting(s), NEW q \in Waiting(s), p # q PROVE F(p) # F(q)
  <2>1. PICK u \in IOThread, i \in Nat : p = <<u, i>> /\ (u = t => i >= 2)
    BY <1>3
  <2>2. PICK v \in IOThread, j \in Nat : q = <<v, j>> /\ (v = t => j >= 2)
    BY <1>3
  <2>3. /\ F(p) = IF u = t THEN <<t, i - 1>> ELSE <<u, i>>
        /\ F(q) = IF v = t THEN <<t, j - 1>> ELSE <<v, j>>
    BY <2>1, <2>2
  <2>4. u # v \/ i # j
    BY <1>4, <2>1, <2>2
  <2> QED
    BY <2>3, <2>4
<1>5. Left(s) \in Nat /\ Left(s)' \in Nat
  <2>1. Left(s) \in 0 .. 2
    BY LeftType
  <2>2. (Left(s) \in 0 .. 2)'
    BY LeftType, PTL
  <2> QED
    BY <2>1, <2>2
<1>6. Left(s)' > 0 => Waiting(s)' # {}
  <2> SUFFICES ASSUME Left(s)' > 0 PROVE Waiting(s)' # {}
    OBVIOUS
  <2>1. Left(s) > 0
    BY <1>5
  <2>2. PICK p \in Waiting(s) : TRUE
    BY <2>1 DEF Enough
  <2> QED
    BY <1>3, <2>2
<1>7. Left(s)' > 1 => \E p, q \in Waiting(s)' : p # q
  <2> SUFFICES ASSUME Left(s)' > 1 PROVE \E p, q \in Waiting(s)' : p # q
    OBVIOUS
  <2>1. Left(s) > 1
    BY <1>5
  <2>2. PICK p, q \in Waiting(s) : p # q
    BY <2>1 DEF Enough
  <2>3. F(p) \in Waiting(s)' /\ F(q) \in Waiting(s)'
    BY <1>3
  <2>4. F(p) # F(q)
    BY <1>4, <2>2
  <2> HIDE DEF F
  <2> QED
    BY <2>3, <2>4
<1> QED
  BY <1>6, <1>7 DEF Enough

-----------------------------------------------------------------------------
(* The frame of a step of t on s.                                          *)

ListStep(t, s) ==
  \/ /\ LSendRequestSessionList'[t] = LSendRequestSessionList[t]
     /\ \/ Consumed(t)' => Consumed(t)
        \/ LSendRequestSessionList[t] # << >> /\ Head(LSendRequestSessionList[t]) = s
  \/ /\ LSendRequestSessionList'[t] = Append(LSendRequestSessionList[t], s)
     /\ ~Consumed(t)'
  \/ /\ LSendRequestSessionList[t] # << >>
     /\ LSendRequestSessionList'[t] = Tail(LSendRequestSessionList[t])
     /\ Head(LSendRequestSessionList[t]) = s /\ ~Consumed(t)'

LEMMA FlushFrame ==
  ASSUME SendInv, BuffersOK, BuffersOK', FlushesOK, NEW t \in IOThread, NEW s \in Session,
         StepOn(t, s), ListStep(t, s),
         \A r \in Session \ {s} : /\ mSendBuffer'[r] = mSendBuffer[r] /\ sending'[r] = sending[r]
                                  /\ r \in Free' => r \in Free,
         FlushOK(t)',
         \A u \in IOThread \ {t} : ses[u] = s /\ fresh[u] = "IO_SEND" =>
            mSendBuffer'[s] = mSendBuffer[s] /\ sending'[s] = sending[s],
         NothingYet(s)', Flushed(s)'
  PROVE  FlushesOK'
<1>1. StepOf(t) /\ SendingTypeOK /\ \A u \in IOThread : SendThreadOK(u)
  BY DEF StepOn, SendInv
<1>2. ASSUME NEW u \in IOThread PROVE FlushOK(u)'
  <2>1. CASE u = t
    BY <2>1
  <2>2. CASE u # t
    <3>1. /\ kind'[u] = kind[u] /\ fresh'[u] = fresh[u] /\ ses'[u] = ses[u]
          /\ LSendRequestSessionList'[u] = LSendRequestSessionList[u]
      BY <1>1, <2>2 DEF StepOf
    <3>2. FlushOK(u)
      BY DEF FlushesOK
    <3>3. fresh[u] = "IO_SEND" => ses[u] \in Session
      BY <1>1, HasSession DEF SendThreadOK, Creating
    <3> QED
      BY <2>2, <3>1, <3>2, <3>3 DEF FlushOK
  <2> QED
    BY <2>1, <2>2
<1>3. ASSUME NEW r \in Session, r # s
      PROVE  /\ Uncompleted(r)' = Uncompleted(r) /\ Left(r)' = Left(r)
             /\ BeforeConnect(r)' => BeforeConnect(r)
             /\ mConnected'[r] = mConnected[r] /\ JobHandlers(r)' = JobHandlers(r)
             /\ \A u \in IOThread : ses'[u] = r <=> ses[u] = r
             /\ \A u \in IOThread : ses[u] = r => pc'[u] = pc[u]
  <2>1. /\ pending'[r] = pending[r] /\ mConnected'[r] = mConnected[r]
        /\ ses[t] # r /\ ses'[t] # r
    BY <1>3, SessionAssumption DEF StepOn
  <2>2. \A u \in IOThread \ {t} : pc'[u] = pc[u] /\ ses'[u] = ses[u] /\ kind'[u] = kind[u]
    BY <1>1 DEF StepOf
  <2>3. Sent(r)' = Sent(r)
    BY <2>1, <2>2 DEF Sent
  <2>4. Uncompleted(r)' = Uncompleted(r)
    BY <2>1, <2>3 DEF Uncompleted
  <2>5. Left(r)' = Left(r)
    <3>1. mSendBuffer'[r] = mSendBuffer[r] /\ sending'[r] = sending[r]
      BY <1>3
    <3> QED
      BY <2>4, <3>1 DEF Left, Removed, SizeOf
  <2>6. \A u \in IOThread : (ses'[u] = r <=> ses[u] = r) /\ (ses[u] = r => pc'[u] = pc[u])
    BY <2>1, <2>2
  <2>7. BeforeConnect(r)' => BeforeConnect(r)
    BY <1>3, <2>1, <2>6 DEF BeforeConnect
  <2>8. JobHandlers(r)' = JobHandlers(r)
    BY <1>3, JobSets
  <2> QED
    BY <2>1, <2>4, <2>5, <2>6, <2>7, <2>8
<1>4. ASSUME NEW r \in Session, r # s PROVE NothingYet(r)'
  <2> SUFFICES ASSUME BeforeConnect(r)'
               PROVE  /\ mSendBuffer'[r] = << >>
                      /\ \A k \in IOType \ {"IO_ACCEPT"} : pending'[r][k] = 0
                      /\ \A u \in JobHandlers(r)' : pc'[u] = "accept"
    BY DEF NothingYet
  <2>1. NothingYet(r) /\ BeforeConnect(r)
    BY <1>3, <1>4 DEF FlushesOK
  <2>2. mSendBuffer'[r] = mSendBuffer[r] /\ pending'[r] = pending[r]
    BY <1>4 DEF StepOn
  <2>3. \A u \in JobHandlers(r) : u \in IOThread /\ ses[u] = r
    BY DEF JobHandlers, Handlers
  <2> QED
    BY <1>3, <1>4, <2>1, <2>2, <2>3 DEF NothingYet
<1>5. ASSUME NEW r \in Session, r # s, Enough(r) PROVE Enough(r)'
  <2> DEFINE l == LSendRequestSessionList[t]
  <2>1. l \in Seq(Session) /\ Left(r)' = Left(r) /\ Left(r) \in Nat
    <3>1. Left(r) \in 0 .. 2
      BY LeftType
    <3>2. l \in Seq(Session)
      BY <1>1 DEF SendingTypeOK
    <3> QED
      BY <1>3, <1>5, <3>1, <3>2
  <2>2. CASE /\ LSendRequestSessionList'[t] = l
             /\ (Consumed(t)' => Consumed(t)) \/ (l # << >> /\ Head(l) = s)
    <3>1. ASSUME NEW i \in Nat, WaitsAt(t, i, r) PROVE WaitsAt(t, i, r)'
      <4>1. i = 1 => ~Consumed(t)'
        BY <1>5, <2>1, <2>2, <3>1 DEF WaitsAt
      <4> QED
        BY <2>2, <3>1, <4>1 DEF WaitsAt
    <3> QED
      BY <1>1, <1>5, <2>1, <3>1, WaitingGrows, EnoughGrows
  <2>3. CASE LSendRequestSessionList'[t] = Append(l, s) /\ ~Consumed(t)'
    <3>1. ASSUME NEW i \in Nat, WaitsAt(t, i, r) PROVE WaitsAt(t, i, r)'
      <4>1. i \in 1 .. Len(Append(l, s)) /\ Append(l, s)[i] = r
        BY <2>1, <3>1 DEF WaitsAt
      <4> QED
        BY <2>3, <4>1 DEF WaitsAt
    <3> QED
      BY <1>1, <1>5, <2>1, <3>1, WaitingGrows, EnoughGrows
  <2>4. CASE l # << >> /\ LSendRequestSessionList'[t] = Tail(l) /\ Head(l) = s /\ ~Consumed(t)'
    BY <1>1, <1>5, <2>1, <2>4, EnoughShifts
  <2> QED
    BY <2>2, <2>3, <2>4 DEF ListStep
<1>6. ASSUME NEW r \in Session, r # s PROVE Flushed(r)'
  <2>1. Flushed(r) /\ mConnected'[r] = mConnected[r]
    BY <1>3, <1>6 DEF FlushesOK
  <2> QED
    BY <1>3, <1>5, <1>6, <2>1 DEF Flushed
<1> QED
  BY <1>2, <1>4, <1>6 DEF FlushesOK

\* A session that is connected, or being disconnected, is not in the pool and
\* does not wait for its accept.
LEMMA Begun ==
  ASSUME JobLifeInv, SendInv, NEW s \in Session,
         mConnected[s] = 1 \/ \E t \in Connectors(s) : pc[t] # "accept"
  PROVE  ~BeforeConnect(s)
<1>1. Connectors(s) \subseteq IOThread
  BY DEF Connectors
<1>2. /\ pending[s]["IO_ACCEPT"] + mConnected[s] + pending[s]["IO_DISCONNECT"]
           + Cardinality(Connectors(s)) <= IssueRef(s)
      /\ IssueRef(s) \in {0, 1} /\ pending[s]["IO_ACCEPT"] \in Nat /\ pending[s]["IO_DISCONNECT"] \in Nat
      /\ mConnected[s] \in {0, 1} /\ Cardinality(Connectors(s)) \in Nat
  BY SumsNow DEF IOType, JobLifeInv, JobTypes
<1>3. /\ \A t \in Connectors(s) : Cardinality(Connectors(s)) >= 1
      /\ \A t, u \in Connectors(s) : t # u => Cardinality(Connectors(s)) >= 2
  BY <1>1, CountMember
<1>4. mConnected[s] + Cardinality(Connectors(s)) >= 1
  BY <1>2, <1>3
<1>5. s \notin Free
  <2>1. IssueRef(s) = 1
    BY <1>2, <1>4
  <2>2. mRefCount[s] # 0
    BY <2>1, ZeroCount
  <2> QED
    BY <2>2 DEF JobLifeInv, PoolOK
<1>6. ~(pending[s]["IO_ACCEPT"] > 0)
  BY <1>2, <1>4
<1>7. ASSUME NEW t \in IOThread, ses[t] = s, pc[t] = "accept" PROVE FALSE
  <2>1. t \in Connectors(s)
    BY <1>7 DEF Connectors
  <2>2. mConnected[s] = 0 /\ Cardinality(Connectors(s)) = 1
    BY <1>2, <1>3, <2>1
  <2>3. PICK u \in Connectors(s) : pc[u] # "accept"
    BY <2>2
  <2> QED
    BY <1>3, <1>7, <2>1, <2>2, <2>3
<1> QED
  BY <1>5, <1>6, <1>7 DEF BeforeConnect

LEMMA BegunNext ==
  ASSUME NEW s \in Session
  PROVE  JobLifeInv' /\ SendInv' /\ mConnected'[s] = 1 => ~BeforeConnect(s)'
<1>1. JobLifeInv /\ SendInv /\ mConnected[s] = 1 => ~BeforeConnect(s)
  BY Begun
<1>2. (mConnected[s] = 1)' <=> mConnected'[s] = 1
  OBVIOUS
<1> QED
  BY <1>1, <1>2, PTL

\* So is one of which a thread handles anything but its accept.
LEMMA Handled ==
  ASSUME FlushesOK, NEW s \in Session, NEW t \in JobHandlers(s), pc[t] # "accept"
  PROVE  ~BeforeConnect(s)
BY DEF FlushesOK, NothingYet

\* A step of t on s that leaves the buffer, the lists and what is in flight alone.
LEMMA FlushQuiet ==
  ASSUME SendInv, JobLifeInv, BuffersOK, BuffersOK', FlushesOK,
         NEW t \in IOThread, NEW s \in Session, StepOn(t, s),
         UNCHANGED <<mSendBuffer, sending, mFreeSessionList>>,
         LSendRequestSessionList'[t] = LSendRequestSessionList[t],
         pending'[s] = pending[s],
         {pc[t], pc'[t]} \cap {"accept", "sent"} = {},
         t \in JobHandlers(s)' => t \in JobHandlers(s),
         FlushOK(t)',
         Consumed(t)' =>
           \/ Consumed(t)
           \/ /\ LSendRequestSessionList[t] # << >> /\ Head(LSendRequestSessionList[t]) = s
              /\ mConnected'[s] = 0 \/ (ses'[t] = s /\ pc'[t] = "disconnect"),
         mConnected'[s] = 1 =>
           /\ mConnected[s] = 1
           /\ ses[t] = s /\ pc[t] = "disconnect" => ses'[t] = s /\ pc'[t] = "disconnect"
  PROVE  FlushesOK'
<1>1. StepOf(t)
  BY DEF StepOn
<1>2. \A u \in IOThread \ {t} : pc'[u] = pc[u] /\ ses'[u] = ses[u] /\ kind'[u] = kind[u]
  BY <1>1 DEF StepOf
<1>3. Left(s)' = Left(s)
  <2>1. Sent(s)' = Sent(s)
    BY <1>2 DEF Sent
  <2>2. Uncompleted(s)' = Uncompleted(s)
    BY <2>1 DEF Uncompleted
  <2> QED
    BY <2>2 DEF Left, Removed, SizeOf
<1>4. NothingYet(s)'
  <2> SUFFICES ASSUME BeforeConnect(s)'
               PROVE  /\ mSendBuffer'[s] = << >>
                      /\ \A k \in IOType \ {"IO_ACCEPT"} : pending'[s][k] = 0
                      /\ \A u \in JobHandlers(s)' : pc'[u] = "accept"
    BY DEF NothingYet
  <2>1. BeforeConnect(s)
    BY <1>2 DEF BeforeConnect, Free
  <2>2. NothingYet(s) /\ t \notin JobHandlers(s)'
    BY <2>1, Handled DEF FlushesOK
  <2>3. ASSUME NEW u \in JobHandlers(s)' PROVE u # t /\ u \in JobHandlers(s)
    <3>1. u \in IOThread /\ u # t
      BY <2>2 DEF JobHandlers, Handlers
    <3> QED
      BY <1>1, <3>1 DEF JobHandlers, Handlers, StepOf
  <2>4. \A u \in JobHandlers(s)' : u \in IOThread
    BY DEF JobHandlers, Handlers
  <2> QED
    BY <1>2, <2>1, <2>2, <2>3, <2>4 DEF NothingYet
<1>5. Flushed(s)'
  <2> SUFFICES ASSUME mConnected'[s] = 1,
                      ~ \E u \in IOThread : ses'[u] = s /\ pc'[u] = "disconnect"
               PROVE  Enough(s)'
    BY DEF Flushed
  <2>1. ~ \E u \in IOThread : ses[u] = s /\ pc[u] = "disconnect"
    BY <1>2
  <2>2. Enough(s)
    BY <2>1 DEF FlushesOK, Flushed
  <2>3. Consumed(t)' => Consumed(t)
    OBVIOUS
  <2>4. ASSUME NEW i \in Nat, WaitsAt(t, i, s) PROVE WaitsAt(t, i, s)'
    BY <2>3, <2>4 DEF WaitsAt
  <2>5. Left(s) \in 0 .. 2
    BY LeftType
  <2> QED
    BY <1>1, <1>3, <2>2, <2>4, <2>5, WaitingGrows, EnoughGrows
<1>6. ListStep(t, s)
  BY DEF ListStep
<1> QED
  BY <1>4, <1>5, <1>6, FlushFrame DEF Free

-----------------------------------------------------------------------------
(* The steps.                                                              *)

\* Thread t goes to another label and leaves its context, the locks, the lists
\* and what is in flight alone.
LEMMA FlushMoves ==
  ASSUME SendInv, JobLifeInv, BuffersOK, BuffersOK', FlushesOK,
         NEW t \in IOThread, NEW s \in Session, ses[t] = s,
         UNCHANGED <<ses, kind, back, pending, mSendBufferLock, issued, mFreeSessionList,
                     sendVars>>,
         pc[t] \notin {"idle", "accept", "sent"}, pc'[t] \notin {"idle", "accept", "sent"},
         Returning(t)' <=> Returning(t),
         kind[t] = "flush" => pc[t] # "lock",
         fresh[t] = "IO_SEND" <=> fresh'[t] = "IO_SEND",
         pc[t] = "disconnect" => mConnected'[s] = 0,
         mConnected'[s] = 1 => mConnected[s] = 1,
         \A u \in IOThread \ {t} : /\ pc'[u] = pc[u] /\ fresh'[u] = fresh[u]
                                   /\ packets'[u] = packets[u],
         \A r \in Session \ {s} : mConnected'[r] = mConnected[r] /\ mRefCount'[r] = mRefCount[r]
  PROVE  FlushesOK'
<1>1. StepOn(t, s)
  BY DEF StepOn, StepOf, sendVars
<1>2. t \in JobHandlers(s)' => t \in JobHandlers(s)
  BY DEF JobHandlers, Handlers, Returning
<1>3. FlushOK(t)'
  BY DEF FlushesOK, FlushOK, sendVars
<1>4. Consumed(t)' => Consumed(t)
  BY DEF Consumed
<1>5. {pc[t], pc'[t]} \cap {"accept", "sent"} = {}
  OBVIOUS
<1>6. /\ UNCHANGED <<mSendBuffer, sending, mFreeSessionList>>
      /\ LSendRequestSessionList'[t] = LSendRequestSessionList[t]
  BY DEF sendVars
<1> QED
  BY <1>1, <1>2, <1>3, <1>4, <1>5, <1>6, FlushQuiet

LEMMA FlushConnects ==
  ASSUME SendInv, SendInv', JobLifeInv, JobLifeInv', BuffersOK, BuffersOK', FlushesOK,
         NEW t \in IOThread, AcceptCompletion(t), UNCHANGED sendVars
  PROVE  FlushesOK'
<1>1. PICK s \in Session : ses[t] = s
  BY HasSession DEF AcceptCompletion
<1>2. SendingTypeOK /\ JobTypes /\ JobThreadOK(t) /\ SendThreadOK(t)
  BY DEF SendInv, JobLifeInv
<1>3. /\ pc[t] = "accept" /\ pc' = [pc EXCEPT ![t] = "setup"]
      /\ mConnected' = [mConnected EXCEPT ![s] = 1]
      /\ UNCHANGED <<mRefCount, mSendBufferLock, pending, fresh, ses, kind, back, packets, issued,
                     mFreeSessionList, mSendBuffer, sending, LSendRequestSessionList>>
  BY <1>1 DEF AcceptCompletion, Goto, Local, poolVars, sendVars
<1>4. /\ pc'[t] = "setup" /\ \A u \in IOThread \ {t} : pc'[u] = pc[u]
      /\ mConnected'[s] = 1 /\ \A r \in Session \ {s} : mConnected'[r] = mConnected[r]
  BY <1>2, <1>3 DEF SendingTypeOK, JobTypes
<1>5. StepOn(t, s)
  BY <1>1, <1>3, <1>4 DEF StepOn, StepOf
<1>6. NothingYet(s)'
  <2>1. ~BeforeConnect(s)'
    BY <1>4, BegunNext
  <2> QED
    BY <2>1 DEF NothingYet
<1>7. Flushed(s)'
  <2>1. mSendBuffer[s] = << >>
    BY <1>1, <1>3 DEF FlushesOK, NothingYet, BeforeConnect
  <2>2. (mSendBuffer[s] = << >> => Left(s) = 0)'
    BY LeftType, PTL
  <2>3. Left(s)' = 0
    BY <1>3, <2>1, <2>2
  <2> QED
    BY <2>3 DEF Flushed, Enough
<1>8. kind[t] = "IO_ACCEPT"
  BY <1>2, <1>3 DEF JobThreadOK
<1>9. FlushOK(t)' /\ ListStep(t, s)
  BY <1>1, <1>3, <1>4, <1>8 DEF FlushesOK, FlushOK, ListStep, Consumed
<1> QED
  BY <1>3, <1>5, <1>6, <1>7, <1>9, FlushFrame DEF Free

LEMMA FlushIssues ==
  ASSUME SendInv, SendInv', JobLifeInv, JobLifeInv', BuffersOK, BuffersOK', FlushesOK,
         NEW t \in IOThread, IssueOk(t), fresh[t] # "IO_SEND", UNCHANGED sendVars
  PROVE  FlushesOK'
<1>1. PICK s \in Session : ses[t] = s
  BY HasSession DEF IssueOk
<1>2. SendingTypeOK /\ JobTypes /\ JobThreadOK(t) /\ SendThreadOK(t)
  BY DEF SendInv, JobLifeInv
<1>3. /\ pc[t] = "issue" /\ pc' = [pc EXCEPT ![t] = AfterPost(t)]
      /\ pending' = [pending EXCEPT ![s][fresh[t]] = @ + 1]
      /\ fresh' = [fresh EXCEPT ![t] = "none"]
      /\ UNCHANGED <<mConnected, mRefCount, mSendBufferLock, ses, kind, back, packets, issued,
                     mFreeSessionList, mSendBuffer, sending, LSendRequestSessionList>>
  BY <1>1 DEF IssueOk, Goto, Local, poolVars, sendVars
<1>4. fresh[t] \in {"IO_RECV_ZERO", "IO_RECV", "IO_DISCONNECT"}
  BY <1>2, <1>3 DEF SendingTypeOK, SendThreadOK, Creating, RecvTypes
<1>5. AfterPost(t) \in {"finish", "subscribe", "unlock", "parse"}
  <2>1. packets[t] \in Nat
    BY <1>2 DEF SendingTypeOK
  <2>2. AfterDisconnect(t) \in {"finish", "unlock", "parse"}
    <3>1. packets[t] = 0 \/ packets[t] > 0
      BY <2>1
    <3> QED
      BY <3>1 DEF AfterDisconnect
  <2> QED
    BY <1>4, <2>2 DEF AfterPost
<1>6. /\ pc'[t] = AfterPost(t) /\ \A u \in IOThread \ {t} : pc'[u] = pc[u]
      /\ fresh'[t] = "none" /\ \A u \in IOThread \ {t} : fresh'[u] = fresh[u]
      /\ \A r \in Session \ {s} : pending'[r] = pending[r]
      /\ \A k \in IOType \ {fresh[t]} : pending'[s][k] = pending[s][k]
  BY <1>2, <1>3, <1>4 DEF SendingTypeOK, IOType
<1>7. StepOn(t, s)
  BY <1>1, <1>3, <1>6 DEF StepOn, StepOf
<1>8. ~BeforeConnect(s)
  <2>1. CASE kind[t] # "flush"
    <3>1. t \in JobHandlers(s)
      BY <1>1, <1>3, <2>1 DEF JobHandlers, Handlers
    <3> QED
      BY <1>3, <3>1, Handled
  <2>2. CASE kind[t] = "flush"
    <3>1. fresh[t] = "IO_DISCONNECT"
      BY <1>2, <1>4, <2>2 DEF JobThreadOK, RecvTypes
    <3>2. t \in Connectors(s)
      BY <1>1, <3>1 DEF Connectors
    <3> QED
      BY <1>3, <3>2, Begun
  <2> QED
    BY <2>1, <2>2
<1>9. NothingYet(s)'
  <2>1. \A u \in IOThread : pc'[u] = "accept" => pc[u] = "accept"
    BY <1>5, <1>6
  <2>2. pending'[s]["IO_ACCEPT"] = pending[s]["IO_ACCEPT"]
    BY <1>4, <1>6 DEF IOType
  <2> QED
    BY <1>3, <1>8, <2>1, <2>2 DEF NothingYet, BeforeConnect, Free
<1>10. Flushed(s)'
  <2> SUFFICES ASSUME mConnected'[s] = 1,
                      ~ \E u \in IOThread : ses'[u] = s /\ pc'[u] = "disconnect"
               PROVE  Enough(s)'
    BY DEF Flushed
  <2>1. ~ \E u \in IOThread : ses[u] = s /\ pc[u] = "disconnect"
    BY <1>3, <1>6
  <2>2. Enough(s)
    BY <1>3, <2>1 DEF FlushesOK, Flushed
  <2>3. Left(s)' = Left(s)
    <3>1. Sent(s)' = Sent(s)
      BY <1>3, <1>5, <1>6 DEF Sent
    <3>2. Uncompleted(s)' = Uncompleted(s)
      BY <1>4, <1>6, <3>1 DEF Uncompleted, IOType
    <3> QED
      BY <1>3, <3>2 DEF Left, Removed, SizeOf
  <2>4. ASSUME NEW i \in Nat, WaitsAt(t, i, s) PROVE WaitsAt(t, i, s)'
    BY <1>3, <1>4, <2>4 DEF WaitsAt, Consumed
  <2>5. Left(s) \in 0 .. 2
    BY LeftType
  <2> QED
    BY <1>7, <2>2, <2>3, <2>4, <2>5, WaitingGrows, EnoughGrows DEF StepOn
<1>11. FlushOK(t)' /\ ListStep(t, s)
  <2>1. Consumed(t)' => Consumed(t)
    BY <1>3, <1>4 DEF Consumed
  <2> QED
    BY <1>3, <1>6, <2>1 DEF FlushesOK, FlushOK, ListStep
<1> QED
  BY <1>3, <1>7, <1>9, <1>10, <1>11, FlushFrame DEF Free

\* A connected session has the reference of its issue.
LEMMA ConnectedRef ==
  ASSUME JobLifeInv, SendInv, NEW s \in Session, mConnected[s] = 1
  PROVE  mRefCount[s] # 0
<1>1. /\ pending[s]["IO_ACCEPT"] + mConnected[s] + pending[s]["IO_DISCONNECT"]
           + Cardinality(Connectors(s)) <= IssueRef(s)
      /\ IssueRef(s) \in {0, 1} /\ pending[s]["IO_ACCEPT"] \in Nat /\ pending[s]["IO_DISCONNECT"] \in Nat
      /\ Cardinality(Connectors(s)) \in Nat
  BY SumsNow DEF IOType
<1>2. IssueRef(s) = 1
  BY <1>1
<1> QED
  BY <1>2, ZeroCount

LEMMA ConnectedRefNext ==
  ASSUME NEW s \in Session
  PROVE  JobLifeInv' /\ SendInv' /\ mConnected'[s] = 1 => mRefCount'[s] # 0
<1>1. JobLifeInv /\ SendInv /\ mConnected[s] = 1 => mRefCount[s] # 0
  BY ConnectedRef
<1>2. /\ (mConnected[s] = 1)' <=> mConnected'[s] = 1
      /\ (mRefCount[s] # 0)' <=> mRefCount'[s] # 0
  OBVIOUS
<1> QED
  BY <1>1, <1>2, PTL

LEMMA FlushReleases ==
  ASSUME SendInv, SendInv', JobLifeInv, JobLifeInv', BuffersOK, BuffersOK', FlushesOK,
         NEW t \in IOThread, ReleaseRef(t), UNCHANGED sendVars
  PROVE  FlushesOK'
<1>1. PICK s \in Session : ses[t] = s
  BY HasSession DEF ReleaseRef
<1>2. SendingTypeOK /\ JobTypes /\ JobThreadOK(t) /\ SendThreadOK(t)
  BY DEF SendInv, JobLifeInv
<1>3. /\ pc[t] \in {"undo", "disconnected", "finish"}
      /\ mRefCount' = [mRefCount EXCEPT ![s] = @ - 1]
      /\ fresh' = [fresh EXCEPT ![t] = "none"]
      /\ \A r \in Session \ {s} : issued'[r] = issued[r]
      /\ UNCHANGED <<mConnected, mSendBufferLock, pending, packets, mFreeSessionList,
                     mSendBuffer, sending, LSendRequestSessionList>>
  BY <1>1, <1>2 DEF ReleaseRef, poolVars, sendVars, JobTypes
<1>4. \/ /\ mRefCount[s] - 1 = 0 /\ pc' = [pc EXCEPT ![t] = "return"]
         /\ back' = [back EXCEPT ![t] = AfterRelease(t)] /\ UNCHANGED <<ses, kind>>
      \/ /\ AfterRelease(t) = "idle" /\ pc' = [pc EXCEPT ![t] = "idle"] /\ UNCHANGED back
         /\ ses' = [ses EXCEPT ![t] = None] /\ kind' = [kind EXCEPT ![t] = "none"]
      \/ /\ AfterRelease(t) # "idle" /\ pc' = [pc EXCEPT ![t] = AfterRelease(t)]
         /\ UNCHANGED <<back, ses, kind>>
  BY <1>1 DEF ReleaseRef, Resume, Goto
<1>5. /\ AfterRelease(t) \in {"finish", "idle", "subscribe", "disconnect", "unlock", "parse"}
      /\ fresh[t] = "IO_SEND" => AfterRelease(t) = "disconnect"
  <2>1. pc[t] = "undo" => fresh[t] \in {"IO_RECV_ZERO", "IO_RECV", "IO_SEND", "IO_DISCONNECT"}
    BY <1>2 DEF SendingTypeOK, SendThreadOK, Creating, RecvTypes
  <2>2. pc[t] # "undo" => fresh[t] = "none"
    BY <1>2, <1>3 DEF SendThreadOK, Creating
  <2>3. AfterDisconnect(t) \in {"finish", "unlock", "parse"}
    <3>1. packets[t] = 0 \/ packets[t] > 0
      BY <1>2 DEF SendingTypeOK
    <3> QED
      BY <3>1 DEF AfterDisconnect
  <2> QED
    BY <1>3, <2>1, <2>2, <2>3 DEF AfterRelease, AfterFailedPost, AfterRefusedRecv
<1>6. /\ \A u \in IOThread \ {t} : /\ pc'[u] = pc[u] /\ fresh'[u] = fresh[u] /\ ses'[u] = ses[u]
                                   /\ kind'[u] = kind[u] /\ back'[u] = back[u]
      /\ fresh'[t] = "none" /\ ses'[t] \in {s, None}
      /\ \A r \in Session \ {s} : mRefCount'[r] = mRefCount[r]
  BY <1>1, <1>2, <1>3, <1>4 DEF SendingTypeOK, JobTypes
<1>7. StepOn(t, s)
  BY <1>1, <1>3, <1>6 DEF StepOn, StepOf
<1>8. \/ pc'[t] = "return" /\ mRefCount'[s] = 0 /\ ses'[t] = s /\ kind'[t] = kind[t]
      \/ pc'[t] = "idle" /\ kind'[t] = "none" /\ ses'[t] = None
      \/ pc'[t] = AfterRelease(t) /\ AfterRelease(t) # "idle" /\ ses'[t] = s /\ kind'[t] = kind[t]
  BY <1>1, <1>2, <1>3, <1>4 DEF SendingTypeOK, JobTypes
<1>9. t \in JobHandlers(s)' => t \in JobHandlers(s)
  <2>1. None # s
    BY SessionAssumption
  <2> QED
    BY <1>1, <1>3, <1>8, <2>1 DEF JobHandlers, Handlers
<1>10. FlushOK(t)'
  BY <1>1, <1>3, <1>6, <1>8 DEF FlushesOK, FlushOK
<1>11. ASSUME Consumed(t)', ~Consumed(t)
       PROVE  /\ LSendRequestSessionList[t] # << >> /\ Head(LSendRequestSessionList[t]) = s
              /\ mConnected'[s] = 0 \/ (ses'[t] = s /\ pc'[t] = "disconnect")
  <2>1. kind[t] = "flush" /\ fresh[t] = "IO_SEND"
    BY <1>3, <1>8, <1>11 DEF Consumed
  <2>2. LSendRequestSessionList[t] # << >> /\ Head(LSendRequestSessionList[t]) = s
    BY <1>1, <1>2, <2>1 DEF SendThreadOK, FlushesOK, FlushOK
  <2>3. mRefCount'[s] = 0 => mConnected'[s] = 0
    <3>1. mConnected'[s] \in {0, 1}
      BY <1>2, <1>3 DEF JobTypes
    <3> QED
      BY <3>1, ConnectedRefNext
  <2> QED
    BY <1>5, <1>8, <1>11, <2>1, <2>2, <2>3 DEF Consumed
<1>12. {pc[t], pc'[t]} \cap {"accept", "sent"} = {} /\ pc[t] # "disconnect"
  BY <1>3, <1>5, <1>8
<1> QED
  BY <1>3, <1>7, <1>9, <1>10, <1>11, <1>12, FlushQuiet

LEMMA FlushSame ==
  ASSUME SendInv, SendInv', JobLifeInv, JobLifeInv', BuffersOK, BuffersOK', FlushesOK,
         NEW t \in IOThread, SameAsHomework7(t), UNCHANGED sendVars
  PROVE  FlushesOK'
<1>1. SendingTypeOK /\ JobTypes /\ JobThreadOK(t) /\ SendThreadOK(t)
  BY DEF SendInv, JobLifeInv
<1>2. pc[t] # "idle"
  BY DEF SameAsHomework7, AcceptCompletion, AcceptSetup, PreRecv, PostRecv, NewContext,
     IssueOk, IssueFails, ParseEnd, BeginSend, DisconnectRequest, ReleaseRef, ReturnClientSession
<1>3. PICK s \in Session : ses[t] = s
  BY <1>2, HasSession
<1>4. packets[t] \in Nat
  BY <1>1 DEF SendingTypeOK
<1>5. ASSUME \/ \E ok \in BOOLEAN : AcceptSetup(t, ok)
             \/ PreRecv(t)
             \/ \E full \in BOOLEAN : PostRecv(t, full)
             \/ NewContext(t) \/ IssueFails(t) \/ ParseEnd(t)
             \/ kind[t] = "IO_RECV" /\ BeginSend(t, FALSE)
             \/ DisconnectRequest(t) \/ ReturnClientSession(t)
      PROVE  /\ UNCHANGED <<ses, kind, back, pending, mSendBufferLock, issued, mFreeSessionList>>
             /\ \A u \in IOThread \ {t} : /\ pc'[u] = pc[u] /\ fresh'[u] = fresh[u]
                                          /\ packets'[u] = packets[u]
             /\ \A r \in Session \ {s} : mConnected'[r] = mConnected[r] /\ mRefCount'[r] = mRefCount[r]
             /\ pc[t] = "disconnect" => mConnected'[s] = 0
             /\ mConnected'[s] = 1 => mConnected[s] = 1
             /\ fresh[t] = "IO_SEND" <=> fresh'[t] = "IO_SEND"
             /\ pc[t] \notin {"idle", "accept", "sent", "lock"}
             /\ pc'[t] \notin {"idle", "accept", "sent"}
             /\ Returning(t)' <=> Returning(t)
  <2>1. fresh[t] = "IO_SEND" => pc[t] \in {"create", "issue", "undo"}
    BY <1>1 DEF SendThreadOK, Creating
  <2>2. ASSUME NEW ok \in BOOLEAN, AcceptSetup(t, ok)
        PROVE  /\ pc[t] = "setup" /\ pc'[t] \in {"prerecv", "disconnect"}
               /\ \A u \in IOThread \ {t} : pc'[u] = pc[u]
               /\ UNCHANGED <<sessionVars, fresh, ses, kind, back, packets, issued, mFreeSessionList>>
    BY <1>1, <2>2 DEF AcceptSetup, Goto, Local, poolVars, SendingTypeOK
  <2>3. ASSUME \/ PreRecv(t) \/ \E full \in BOOLEAN : PostRecv(t, full)
        PROVE  /\ pc[t] \in {"prerecv", "postrecv"} /\ pc'[t] \in {"create", "subscribe", "disconnect"}
               /\ \A u \in IOThread \ {t} : pc'[u] = pc[u] /\ fresh'[u] = fresh[u]
               /\ fresh'[t] \in {fresh[t], "IO_RECV", "IO_RECV_ZERO"}
               /\ UNCHANGED <<sessionVars, ses, kind, back, packets, issued, mFreeSessionList>>
    BY <1>1, <2>3 DEF PreRecv, PostRecv, CreateIf, AfterRefusedRecv, Goto, Local, poolVars, SendingTypeOK
  <2>4. ASSUME NewContext(t)
        PROVE  /\ pc[t] = "create" /\ pc'[t] = "issue"
               /\ \A u \in IOThread \ {t} : pc'[u] = pc[u]
               /\ \A r \in Session \ {s} : mRefCount'[r] = mRefCount[r]
               /\ UNCHANGED <<mConnected, mSendBufferLock, pending, fresh, ses, kind, back, packets,
                              issued, mFreeSessionList>>
    BY <1>1, <1>3, <2>4 DEF NewContext, Goto, Local, poolVars, SendingTypeOK, JobTypes
  <2>5. ASSUME IssueFails(t)
        PROVE  /\ pc[t] = "issue" /\ pc'[t] = "undo"
               /\ \A u \in IOThread \ {t} : pc'[u] = pc[u]
               /\ UNCHANGED <<sessionVars, fresh, ses, kind, back, packets, issued, mFreeSessionList>>
    BY <1>1, <2>5 DEF IssueFails, Goto, Local, poolVars, SendingTypeOK
  <2>6. ASSUME ParseEnd(t)
        PROVE  /\ pc[t] = "parse" /\ pc'[t] = "send"
               /\ \A u \in IOThread \ {t} : pc'[u] = pc[u] /\ packets'[u] = packets[u]
               /\ UNCHANGED <<sessionVars, fresh, ses, kind, back, issued, mFreeSessionList>>
    BY <1>1, <2>6 DEF ParseEnd, Goto, poolVars, SendingTypeOK
  <2>7. ASSUME kind[t] = "IO_RECV", BeginSend(t, FALSE)
        PROVE  /\ pc[t] = "send" /\ pc'[t] \in {"lock", "prerecv", "parse"}
               /\ \A u \in IOThread \ {t} : pc'[u] = pc[u]
               /\ UNCHANGED <<sessionVars, fresh, ses, kind, back, packets, issued, mFreeSessionList>>
    <3>1. AfterSend(t) \in {"prerecv", "parse"}
      BY <1>4, <2>7 DEF AfterSend
    <3> QED
      BY <1>1, <2>7, <3>1 DEF BeginSend, Goto, Local, poolVars, SendingTypeOK
  <2>8. ASSUME DisconnectRequest(t)
        PROVE  /\ pc[t] = "disconnect" /\ pc'[t] \in {"create", "finish", "unlock", "parse"}
               /\ \A u \in IOThread \ {t} : pc'[u] = pc[u] /\ fresh'[u] = fresh[u]
               /\ fresh'[t] \in {fresh[t], "IO_DISCONNECT"}
               /\ mConnected'[s] = 0 /\ \A r \in Session \ {s} : mConnected'[r] = mConnected[r]
               /\ UNCHANGED <<mRefCount, mSendBufferLock, pending, ses, kind, back, packets, issued,
                              mFreeSessionList>>
    <3>1. AfterDisconnect(t) \in {"finish", "unlock", "parse"}
      BY <1>4 DEF AfterDisconnect
    <3> QED
      BY <1>1, <1>3, <2>8, <3>1 DEF DisconnectRequest, CreateIf, Goto, Local, poolVars, SendingTypeOK, JobTypes
  <2>9. ASSUME ReturnClientSession(t)
        PROVE  /\ pc[t] = "return" /\ pc'[t] = "reset"
               /\ \A u \in IOThread \ {t} : pc'[u] = pc[u]
               /\ mConnected'[s] = 0 /\ \A r \in Session \ {s} : mConnected'[r] = mConnected[r]
               /\ \A r \in Session \ {s} : mRefCount'[r] = mRefCount[r]
               /\ UNCHANGED <<mSendBufferLock, pending, fresh, ses, kind, back, packets, issued,
                              mFreeSessionList>>
    BY <1>1, <1>3, <2>9 DEF ReturnClientSession, Goto, SendingTypeOK, JobTypes
  <2> DEFINE Calm ==
             /\ UNCHANGED <<ses, kind, back, pending, mSendBufferLock, issued, mFreeSessionList>>
             /\ \A u \in IOThread \ {t} : /\ pc'[u] = pc[u] /\ fresh'[u] = fresh[u]
                                          /\ packets'[u] = packets[u]
             /\ \A r \in Session \ {s} : mConnected'[r] = mConnected[r] /\ mRefCount'[r] = mRefCount[r]
             /\ pc[t] = "disconnect" => mConnected'[s] = 0
             /\ mConnected'[s] = 1 => mConnected[s] = 1
             /\ fresh[t] = "IO_SEND" <=> fresh'[t] = "IO_SEND"
             /\ pc[t] \notin {"idle", "accept", "sent", "lock"}
             /\ pc'[t] \notin {"idle", "accept", "sent"}
             /\ Returning(t)' <=> Returning(t)
  <2>11. CASE \E ok \in BOOLEAN : AcceptSetup(t, ok)
    <3>1. Calm
      BY <2>1, <2>2, <2>11 DEF sessionVars, Returning
    <3> QED
      BY <3>1
  <2>12. CASE PreRecv(t) \/ \E full \in BOOLEAN : PostRecv(t, full)
    <3>1. Calm
      BY <2>1, <2>3, <2>12 DEF sessionVars, Returning
    <3> QED
      BY <3>1
  <2>13. CASE NewContext(t)
    <3>1. Calm
      BY <2>1, <2>4, <2>13 DEF sessionVars, Returning
    <3> QED
      BY <3>1
  <2>14. CASE IssueFails(t)
    <3>1. Calm
      BY <2>1, <2>5, <2>14 DEF sessionVars, Returning
    <3> QED
      BY <3>1
  <2>15. CASE ParseEnd(t)
    <3>1. Calm
      BY <2>1, <2>6, <2>15 DEF sessionVars, Returning
    <3> QED
      BY <3>1
  <2>16. CASE kind[t] = "IO_RECV" /\ BeginSend(t, FALSE)
    <3>1. Calm
      BY <2>1, <2>7, <2>16 DEF sessionVars, Returning
    <3> QED
      BY <3>1
  <2>17. CASE DisconnectRequest(t)
    <3>1. Calm
      BY <2>1, <2>8, <2>17 DEF sessionVars, Returning
    <3> QED
      BY <3>1
  <2>18. CASE ReturnClientSession(t)
    <3>1. Calm
      BY <2>1, <2>9, <2>18 DEF sessionVars, Returning
    <3> QED
      BY <3>1
  <2> QED
    BY <1>5, <2>11, <2>12, <2>13, <2>14, <2>15, <2>16, <2>17, <2>18
<1>6. CASE \/ \E ok \in BOOLEAN : AcceptSetup(t, ok)
           \/ PreRecv(t)
           \/ \E full \in BOOLEAN : PostRecv(t, full)
           \/ NewContext(t) \/ IssueFails(t) \/ ParseEnd(t)
           \/ kind[t] = "IO_RECV" /\ BeginSend(t, FALSE)
           \/ DisconnectRequest(t) \/ ReturnClientSession(t)
  BY <1>3, <1>5, <1>6, FlushMoves
<1> QED
  BY <1>6, FlushConnects, FlushIssues, FlushReleases DEF SameAsHomework7

\* PostSend commits to the buffer and leaves an entry in the list.
LEMMA FlushAppends ==
  ASSUME SendInv, JobLifeInv, BuffersOK, BuffersOK', FlushesOK,
         NEW t \in IOThread, NEW full \in BOOLEAN, kind[t] = "IO_RECV", PostSend(t, full)
  PROVE  FlushesOK'
<1>1. PICK s \in Session : ses[t] = s
  BY HasSession DEF PostSend
<1>2. SendingTypeOK /\ JobTypes /\ JobThreadOK(t) /\ SendThreadOK(t)
  BY DEF SendInv, JobLifeInv
<1>3. /\ pc[t] = "lock" /\ pc' = [pc EXCEPT ![t] = AfterSend(t)] /\ mSendBufferLock[s] = None
      /\ UNCHANGED <<mConnected, mRefCount, pending, mSendBufferLock, fresh, ses, kind, back,
                     packets, issued, mFreeSessionList, sending, mSendPendingCount>>
  BY <1>1 DEF PostSend, Goto, Local, sessionVars, poolVars
<1>4. AfterSend(t) \in {"prerecv", "parse"}
  <2>1. packets[t] \in Nat
    BY <1>2 DEF SendingTypeOK
  <2> QED
    BY <2>1 DEF AfterSend
<1>5. pc'[t] = AfterSend(t) /\ \A u \in IOThread \ {t} : pc'[u] = pc[u]
  BY <1>2, <1>3 DEF SendingTypeOK
<1>6. CASE full
  <2>1. UNCHANGED sendVars
    BY <1>3, <1>6 DEF PostSend, sendVars
  <2> QED
    BY <1>1, <1>3, <1>4, <1>5, <2>1, FlushMoves DEF Returning
<1>7. CASE ~full
  <2>1. PICK b \in Committed(mSendBuffer[s]) : mSendBuffer' = [mSendBuffer EXCEPT ![s] = b]
    BY <1>1, <1>7 DEF PostSend
  <2>2. LSendRequestSessionList' = [LSendRequestSessionList EXCEPT ![t] = Append(@, s)]
    BY <1>1, <1>7 DEF PostSend
  <2>3. /\ mSendBuffer \in [Session -> Regions] /\ mSendBuffer'[s] = b
        /\ \A r \in Session \ {s} : mSendBuffer'[r] = mSendBuffer[r]
    BY <2>1 DEF BuffersOK
  <2>4. /\ LSendRequestSessionList[t] \in Seq(Session)
        /\ LSendRequestSessionList'[t] = Append(LSendRequestSessionList[t], s)
        /\ \A u \in IOThread \ {t} : LSendRequestSessionList'[u] = LSendRequestSessionList[u]
    BY <1>2, <2>2 DEF SendingTypeOK
  <2>5. StepOn(t, s)
    BY <1>1, <1>3, <1>5, <2>4 DEF StepOn, StepOf
  <2>6. ~Consumed(t) /\ ~Consumed(t)'
    BY <1>3 DEF Consumed
  <2>7. ~BeforeConnect(s)
    <3>1. t \in JobHandlers(s)
      BY <1>1, <1>3 DEF JobHandlers, Handlers
    <3> QED
      BY <1>3, <3>1, Handled
  <2>8. NothingYet(s)'
    <3>1. \A u \in IOThread : pc'[u] = "accept" => pc[u] = "accept"
      BY <1>4, <1>5
    <3> QED
      BY <1>3, <2>7, <3>1 DEF NothingYet, BeforeConnect, Free
  <2>9. Left(s)' <= Left(s) + 1
    <3>1. Uncompleted(s)' = Uncompleted(s)
      <4>1. Sent(s)' = Sent(s)
        BY <1>3, <1>4, <1>5 DEF Sent
      <4> QED
        BY <1>3, <4>1 DEF Uncompleted
    <3>2. mSendBuffer[s] \in Regions /\ sending[s] \in Nat
      BY MaxStoredAssumption DEF BuffersOK
    <3>3. Left(s)' = Len(IF Uncompleted(s) > 0 THEN Removed(b, sending[s]) ELSE b)
      BY <1>3, <2>3, <3>1 DEF Left, Removed, SizeOf
    <3> QED
      BY <3>2, <3>3, CommittedLen DEF Left
  <2>10. Waiting(s) \subseteq Waiting(s)'
    <3>1. ASSUME NEW i \in Nat, WaitsAt(t, i, s) PROVE WaitsAt(t, i, s)'
      <4>1. i \in 1 .. Len(LSendRequestSessionList'[t]) /\ LSendRequestSessionList'[t][i] = s
        BY <2>4, <3>1 DEF WaitsAt
      <4> QED
        BY <2>6, <4>1 DEF WaitsAt
    <3> QED
      BY <2>5, <3>1, WaitingGrows DEF StepOn
  <2>11. \E p \in Waiting(s)' : p \notin Waiting(s)
    <3>1. PICK n \in Nat : n = Len(LSendRequestSessionList[t]) + 1
      BY <2>4
    <3>2. n \in 1 .. Len(LSendRequestSessionList'[t]) /\ LSendRequestSessionList'[t][n] = s
          /\ n \notin 1 .. Len(LSendRequestSessionList[t])
      BY <2>4, <3>1
    <3>3. WaitsAt(t, n, s)'
      BY <2>6, <3>2 DEF WaitsAt
    <3>4. ~WaitsAt(t, n, s)
      BY <3>2 DEF WaitsAt
    <3> QED
      BY <3>3, <3>4, WaitingMember, WaitingMemberNext
  <2>12. Flushed(s)'
    <3> SUFFICES ASSUME mConnected'[s] = 1,
                        ~ \E u \in IOThread : ses'[u] = s /\ pc'[u] = "disconnect"
                 PROVE  Enough(s)'
      BY DEF Flushed
    <3>1. ~ \E u \in IOThread : ses[u] = s /\ pc[u] = "disconnect"
      BY <1>3, <1>5
    <3>2. Enough(s)
      BY <1>3, <3>1 DEF FlushesOK, Flushed
    <3>3. Left(s) \in 0 .. 2
      BY LeftType
    <3>4. (Left(s) \in 0 .. 2)'
      BY LeftType, PTL
    <3>5. ASSUME Left(s)' > 1 PROVE \E x, y \in Waiting(s)' : x # y
      <4>1. Left(s) > 0
        BY <2>9, <3>3, <3>4, <3>5
      <4>2. PICK q \in Waiting(s) : TRUE
        BY <3>2, <4>1 DEF Enough
      <4> QED
        BY <2>10, <2>11, <4>2
    <3> QED
      BY <2>11, <3>5 DEF Enough
  <2>13. FlushOK(t)'
    <3>1. fresh[t] # "IO_SEND"
      BY <1>2, <1>3 DEF SendThreadOK, Creating
    <3> QED
      BY <1>3, <3>1 DEF FlushOK
  <2>14. \A u \in IOThread \ {t} : ~(ses[u] = s /\ fresh[u] = "IO_SEND")
    BY <1>3, ThreadAssumption DEF SendInv, SendThreadOK
  <2>15. ListStep(t, s)
    BY <2>4, <2>6 DEF ListStep
  <2> QED
    BY <1>3, <2>3, <2>5, <2>8, <2>12, <2>13, <2>14, <2>15, FlushFrame DEF Free
<1> QED
  BY <1>6, <1>7

\* SendCompletion removes what was sent, all of it or the thread disconnects.
LEMMA FlushCompletes ==
  ASSUME SendInv, SendInv', JobLifeInv, BuffersOK, BuffersOK', FlushesOK,
         NEW t \in IOThread, NEW len \in 1 .. MaxStored, FlushedSendCompletion(t, len)
  PROVE  FlushesOK'
<1>1. PICK s \in Session : ses[t] = s
  BY HasSession DEF FlushedSendCompletion
<1>2. SendingTypeOK /\ JobTypes /\ JobThreadOK(t) /\ SendThreadOK(t)
  BY DEF SendInv, JobLifeInv
<1>3. /\ pc[t] = "sent" /\ mSendBufferLock[s] = None
      /\ pc' = [pc EXCEPT ![t] = IF len # sending[s] THEN "disconnect" ELSE "finish"]
      /\ mSendBuffer' = [mSendBuffer EXCEPT ![s] = Removed(@, len)]
      /\ UNCHANGED <<mConnected, mRefCount, pending, mSendBufferLock, fresh, ses, kind, back,
                     packets, issued, mFreeSessionList, sending, LSendRequestSessionList>>
  BY <1>1 DEF FlushedSendCompletion, Goto, Local, sessionVars, poolVars
<1>4. kind[t] = "IO_SEND" /\ fresh[t] # "IO_SEND"
  BY <1>2, <1>3 DEF SendThreadOK, Creating
<1>5. /\ pc'[t] = IF len # sending[s] THEN "disconnect" ELSE "finish"
      /\ \A u \in IOThread \ {t} : pc'[u] = pc[u]
      /\ mSendBuffer'[s] = Removed(mSendBuffer[s], len)
      /\ \A r \in Session \ {s} : mSendBuffer'[r] = mSendBuffer[r]
  BY <1>2, <1>3 DEF SendingTypeOK, BuffersOK
<1>6. StepOn(t, s)
  BY <1>1, <1>3, <1>5 DEF StepOn, StepOf
<1>7. ~BeforeConnect(s)
  <2>1. t \in JobHandlers(s)
    BY <1>1, <1>3, <1>4 DEF JobHandlers, Handlers
  <2> QED
    BY <1>3, <2>1, Handled
<1>8. NothingYet(s)'
  <2>1. \A u \in IOThread : pc'[u] = "accept" => pc[u] = "accept"
    BY <1>5
  <2> QED
    BY <1>3, <1>7, <2>1 DEF NothingYet, BeforeConnect, Free
<1>9. Uncompleted(s) = 1 /\ Uncompleted(s)' = 0
  <2>1. SameBut(t, Sent(s), Sent(s)')
    BY <1>6, SentStep DEF StepOn
  <2>2. t \in Sent(s) /\ t \notin Sent(s)'
    BY <1>1, <1>3, <1>4, <1>5 DEF Sent
  <2>3. pending[s]["IO_SEND"] \in Nat /\ pending'[s]["IO_SEND"] = pending[s]["IO_SEND"]
    BY <1>2, <1>3 DEF SendingTypeOK, IOType
  <2>4. Sent(s) \subseteq IOThread
    BY DEF Sent
  <2>5. Cardinality(Sent(s)) >= 1
    BY <2>2, <2>4, CountMember
  <2>6. Uncompleted(s) <= 1
    <3>1. Uncompleted(s) <= mSendPendingCount[s] /\ mSendPendingCount[s] <= 1
      BY DEF SendInv
    <3>2. mSendPendingCount[s] \in Nat /\ Uncompleted(s) \in Int
      BY <1>2, <2>1, <2>3 DEF SendingTypeOK, Uncompleted, SameBut
    <3> QED
      BY <3>1, <3>2
  <2> QED
    BY <2>1, <2>2, <2>3, <2>5, <2>6 DEF Uncompleted, SameBut, Bit
<1>10. Flushed(s)'
  <2>1. CASE len # sending[s]
    BY <1>1, <1>3, <1>5, <2>1 DEF Flushed
  <2>2. CASE len = sending[s]
    <3> SUFFICES ASSUME mConnected'[s] = 1,
                        ~ \E u \in IOThread : ses'[u] = s /\ pc'[u] = "disconnect"
                 PROVE  Enough(s)'
      BY DEF Flushed
    <3>1. ~ \E u \in IOThread : ses[u] = s /\ pc[u] = "disconnect"
      BY <1>3, <1>5
    <3>2. Enough(s)
      BY <1>3, <3>1 DEF FlushesOK, Flushed
    <3>3. Left(s)' = Left(s)
      <4>1. Left(s) = Len(Removed(mSendBuffer[s], len))
        BY <1>9, <2>2 DEF Left
      <4>2. Left(s)' = Len(mSendBuffer'[s])
        BY <1>9 DEF Left
      <4> QED
        BY <1>5, <4>1, <4>2
    <3>4. ASSUME NEW i \in Nat, WaitsAt(t, i, s) PROVE WaitsAt(t, i, s)'
      BY <1>3, <1>4, <3>4 DEF WaitsAt, Consumed
    <3>5. Left(s) \in 0 .. 2
      BY LeftType
    <3> QED
      BY <1>6, <3>2, <3>3, <3>4, <3>5, WaitingGrows, EnoughGrows DEF StepOn
  <2> QED
    BY <2>1, <2>2
<1>11. FlushOK(t)' /\ ListStep(t, s)
  BY <1>3, <1>4 DEF FlushOK, ListStep, Consumed
<1>12. \A u \in IOThread \ {t} : ~(ses[u] = s /\ fresh[u] = "IO_SEND")
  BY <1>3, ThreadAssumption DEF SendInv, SendThreadOK
<1> QED
  BY <1>3, <1>5, <1>6, <1>8, <1>10, <1>11, <1>12, FlushFrame DEF Free

LEMMA UncompletedType ==
  ASSUME SendInv, NEW s \in Session
  PROVE  /\ Uncompleted(s) \in Nat /\ pending[s]["IO_SEND"] \in Nat
         /\ mSendPendingCount[s] = 0 => Uncompleted(s) = 0
<1>1. pending[s]["IO_SEND"] \in Nat /\ mSendPendingCount[s] \in Nat
  BY DEF SendInv, SendingTypeOK, IOType
<1>2. Cardinality(Sent(s)) \in Nat
  <2>1. Sent(s) \subseteq IOThread
    BY DEF Sent
  <2> QED
    BY <2>1, CountMember
<1>3. Uncompleted(s) \in Nat /\ Uncompleted(s) <= mSendPendingCount[s]
  BY <1>1, <1>2 DEF Uncompleted, SendInv
<1> QED
  BY <1>1, <1>3

\* A session that waits for its accept goes on waiting, while no thread starts
\* to handle it.
LEMMA NothingKept ==
  ASSUME FlushesOK, NEW t \in IOThread, NEW s \in Session, StepOn(t, s),
         UNCHANGED mFreeSessionList, mSendBuffer'[s] = mSendBuffer[s], pending'[s] = pending[s],
         t \notin JobHandlers(s)', pc'[t] # "accept"
  PROVE  NothingYet(s)'
<1>1. \A u \in IOThread \ {t} : pc'[u] = pc[u] /\ ses'[u] = ses[u] /\ kind'[u] = kind[u]
                                /\ fresh'[u] = fresh[u] /\ back'[u] = back[u]
  BY DEF StepOn, StepOf
<1> SUFFICES ASSUME BeforeConnect(s)'
             PROVE  /\ mSendBuffer'[s] = << >>
                    /\ \A k \in IOType \ {"IO_ACCEPT"} : pending'[s][k] = 0
                    /\ \A u \in JobHandlers(s)' : pc'[u] = "accept"
  BY DEF NothingYet
<1>2. BeforeConnect(s)
  BY <1>1 DEF BeforeConnect, Free
<1>3. NothingYet(s)
  BY DEF FlushesOK
<1>4. ASSUME NEW u \in JobHandlers(s)' PROVE u \in IOThread \ {t} /\ u \in JobHandlers(s)
  <2>1. u \in IOThread /\ u # t
    BY <1>4 DEF JobHandlers, Handlers
  <2> QED
    BY <1>1, <1>4, <2>1 DEF JobHandlers, Handlers
<1> QED
  BY <1>1, <1>2, <1>3, <1>4 DEF NothingYet

\* FlushSend starts with the session at the front of the list.
LEMMA FlushBegins ==
  ASSUME SendInv, JobLifeInv, BuffersOK, BuffersOK', FlushesOK,
         NEW t \in IOThread, FlushBegin(t)
  PROVE  FlushesOK'
<1>1. SendingTypeOK /\ SendThreadOK(t) /\ JobTypes
  BY DEF SendInv, JobLifeInv
<1>2. /\ pc[t] = "idle" /\ LSendRequestSessionList[t] # << >>
      /\ UNCHANGED <<mConnected, mRefCount, mSendBufferLock, pending, mFreeSessionList, fresh, back,
                     packets, issued, mSendBuffer, sending, LSendRequestSessionList>>
  BY DEF FlushBegin, sessionVars, poolVars, sendVars
<1>3. PICK s \in Session : s = Head(LSendRequestSessionList[t])
  BY <1>1, <1>2, HeadTailProperties DEF SendingTypeOK
<1>4. /\ ses' = [ses EXCEPT ![t] = s] /\ kind' = [kind EXCEPT ![t] = "flush"]
      /\ pc' = [pc EXCEPT ![t] = IF mConnected[s] = 1 THEN "lock" ELSE "disconnect"]
  BY <1>3 DEF FlushBegin, Goto
<1>5. /\ pc'[t] = (IF mConnected[s] = 1 THEN "lock" ELSE "disconnect")
      /\ ses'[t] = s /\ kind'[t] = "flush"
      /\ \A u \in IOThread \ {t} : pc'[u] = pc[u] /\ ses'[u] = ses[u] /\ kind'[u] = kind[u]
  BY <1>1, <1>4 DEF SendingTypeOK
<1>6. ses[t] = None /\ fresh[t] = "none" /\ None # s
  BY <1>1, <1>2, SessionAssumption DEF SendThreadOK, Creating
<1>7. StepOn(t, s)
  BY <1>2, <1>5, <1>6 DEF StepOn, StepOf
<1>8. t \notin JobHandlers(s)'
  BY <1>5 DEF JobHandlers
<1>9. FlushOK(t)'
  BY <1>2, <1>3, <1>5, <1>6 DEF FlushOK
<1>10. Consumed(t)' =>
         /\ LSendRequestSessionList[t] # << >> /\ Head(LSendRequestSessionList[t]) = s
         /\ mConnected'[s] = 0 \/ (ses'[t] = s /\ pc'[t] = "disconnect")
  BY <1>2, <1>3, <1>5 DEF Consumed
<1>11. {pc[t], pc'[t]} \cap {"accept", "sent"} = {}
  BY <1>2, <1>5
<1> QED
  BY <1>2, <1>6, <1>7, <1>8, <1>9, <1>10, <1>11, FlushQuiet

\* What FlushSend's return leaves.
LEMMA FlushReturned ==
  ASSUME SendInv, NEW t \in IOThread, kind[t] = "flush", NEW s \in Session, ses[t] = s,
         NEW result \in BOOLEAN, FlushReturns(t, result),
         pc[t] \in {"lock", "unlock", "finish"},
         UNCHANGED <<mConnected, mRefCount, pending, fresh, back, packets, issued>>,
         \/ mSendBufferLock' = mSendBufferLock
         \/ /\ mSendBufferLock[s] = t
            /\ mSendBufferLock' = [mSendBufferLock EXCEPT ![s] = None]
  PROVE  /\ StepOn(t, s) /\ FlushOK(t)' /\ ~Consumed(t)' /\ t \notin JobHandlers(s)'
         /\ pc'[t] = "idle" /\ \A u \in IOThread \ {t} : pc'[u] = pc[u] /\ ses'[u] = ses[u]
         /\ LSendRequestSessionList[t] # << >>
         /\ LSendRequestSessionList'[t] =
              IF result THEN Tail(LSendRequestSessionList[t]) ELSE LSendRequestSessionList[t]
<1>1. SendingTypeOK /\ SendThreadOK(t)
  BY DEF SendInv
<1>2. /\ pc' = [pc EXCEPT ![t] = "idle"] /\ ses' = [ses EXCEPT ![t] = None]
      /\ kind' = [kind EXCEPT ![t] = "none"]
      /\ LSendRequestSessionList' =
           IF result THEN [LSendRequestSessionList EXCEPT ![t] = Tail(@)] ELSE LSendRequestSessionList
  BY DEF FlushReturns, Goto
<1>3. /\ pc'[t] = "idle" /\ ses'[t] = None /\ kind'[t] = "none"
      /\ \A u \in IOThread \ {t} : pc'[u] = pc[u] /\ ses'[u] = ses[u] /\ kind'[u] = kind[u]
  BY <1>1, <1>2 DEF SendingTypeOK
<1>4. /\ \A u \in IOThread \ {t} : LSendRequestSessionList'[u] = LSendRequestSessionList[u]
      /\ LSendRequestSessionList'[t] =
           IF result THEN Tail(LSendRequestSessionList[t]) ELSE LSendRequestSessionList[t]
  BY <1>1, <1>2 DEF SendingTypeOK
<1>5. \A u \in IOThread \ {t}, r \in Session : mSendBufferLock'[r] = u <=> mSendBufferLock[r] = u
  BY <1>1, ThreadAssumption DEF SendingTypeOK
<1>6. fresh'[t] = "none" /\ None # s
  BY <1>1, SessionAssumption DEF SendThreadOK, Creating
<1>7. StepOn(t, s)
  BY <1>3, <1>4, <1>5 DEF StepOn, StepOf
<1>8. FlushOK(t)' /\ ~Consumed(t)'
  BY <1>3, <1>6 DEF FlushOK, Consumed
<1>9. t \notin JobHandlers(s)'
  BY <1>3, <1>6 DEF JobHandlers, Handlers
<1> QED
  BY <1>1, <1>3, <1>4, <1>7, <1>8, <1>9 DEF SendThreadOK

\* FlushSend finds nothing to send, or that it has to wait.
LEMMA FlushPutsOff ==
  ASSUME SendInv, JobLifeInv, BuffersOK, BuffersOK', FlushesOK,
         NEW t \in IOThread, kind[t] = "flush", FlushWaits(t)
  PROVE  FlushesOK'
<1>1. PICK s \in Session : ses[t] = s
  BY HasSession DEF FlushWaits
<1>2. PICK result \in BOOLEAN : result = (mSendBuffer[s] = << >> /\ mSendPendingCount[s] = 0)
  OBVIOUS
<1>3. /\ pc[t] = "lock" /\ FlushReturns(t, result)
      /\ UNCHANGED <<mConnected, mRefCount, mSendBufferLock, pending, mFreeSessionList, fresh, back,
                     packets, issued, mSendBuffer, sending, mSendPendingCount>>
  BY <1>1, <1>2 DEF FlushWaits, sessionVars, poolVars
<1>4. /\ StepOn(t, s) /\ FlushOK(t)' /\ ~Consumed(t)' /\ t \notin JobHandlers(s)'
      /\ pc'[t] = "idle" /\ LSendRequestSessionList[t] # << >>
      /\ LSendRequestSessionList'[t] =
           IF result THEN Tail(LSendRequestSessionList[t]) ELSE LSendRequestSessionList[t]
  BY <1>1, <1>3, FlushReturned
<1>5. CASE ~result
  <2>1. {pc[t], pc'[t]} \cap {"accept", "sent"} = {} /\ pc[t] # "disconnect"
    BY <1>3, <1>4
  <2>2. LSendRequestSessionList'[t] = LSendRequestSessionList[t]
    BY <1>4, <1>5
  <2> QED
    BY <1>3, <1>4, <2>1, <2>2, FlushQuiet
<1>6. CASE result
  <2>1. NothingYet(s)'
    BY <1>3, <1>4, NothingKept
  <2>2. Flushed(s)'
    <3>1. mSendBuffer'[s] = << >>
      BY <1>2, <1>3, <1>6
    <3>2. (mSendBuffer[s] = << >> => Left(s) = 0)'
      BY LeftType, PTL
    <3>3. Left(s)' = 0
      BY <3>1, <3>2
    <3> QED
      BY <3>3 DEF Flushed, Enough
  <2>3. ListStep(t, s)
    <3>1. Head(LSendRequestSessionList[t]) = s
      BY <1>1 DEF FlushesOK, FlushOK
    <3> QED
      BY <1>4, <1>6, <3>1 DEF ListStep
  <2> QED
    BY <1>3, <1>4, <2>1, <2>2, <2>3, FlushFrame DEF Free
<1> QED
  BY <1>5, <1>6

\* FlushSend is done with the session: its entry has been used.
LEMMA FlushFinishes ==
  ASSUME SendInv, JobLifeInv, BuffersOK, BuffersOK', FlushesOK,
         NEW t \in IOThread, FlushEnd(t)
  PROVE  FlushesOK'
<1>1. PICK s \in Session : ses[t] = s
  BY HasSession DEF FlushEnd
<1>2. SendingTypeOK /\ SendThreadOK(t)
  BY DEF SendInv
<1>3. /\ pc[t] \in {"unlock", "finish"} /\ kind[t] = "flush" /\ FlushReturns(t, TRUE)
      /\ UNCHANGED <<mConnected, mRefCount, pending, mFreeSessionList, fresh, back,
                     packets, issued, mSendBuffer, sending, mSendPendingCount>>
      /\ \/ mSendBufferLock' = mSendBufferLock
         \/ /\ mSendBufferLock[s] = t
            /\ mSendBufferLock' = [mSendBufferLock EXCEPT ![s] = None]
  BY <1>1, <1>2 DEF FlushEnd, poolVars, SendThreadOK
<1>4. /\ StepOn(t, s) /\ FlushOK(t)' /\ ~Consumed(t)' /\ t \notin JobHandlers(s)'
      /\ pc'[t] = "idle" /\ LSendRequestSessionList[t] # << >>
      /\ \A u \in IOThread \ {t} : pc'[u] = pc[u] /\ ses'[u] = ses[u]
      /\ LSendRequestSessionList'[t] = Tail(LSendRequestSessionList[t])
  BY <1>1, <1>3, FlushReturned
<1>5. Consumed(t)
  <2>1. fresh[t] = "none"
    BY <1>2, <1>3 DEF SendThreadOK, Creating
  <2> QED
    BY <1>3, <2>1 DEF Consumed
<1>6. NothingYet(s)'
  BY <1>3, <1>4, NothingKept
<1>7. Flushed(s)'
  <2> SUFFICES ASSUME mConnected'[s] = 1,
                      ~ \E u \in IOThread : ses'[u] = s /\ pc'[u] = "disconnect"
               PROVE  Enough(s)'
    BY DEF Flushed
  <2>1. ~ \E u \in IOThread : ses[u] = s /\ pc[u] = "disconnect"
    BY <1>3, <1>4
  <2>2. Enough(s)
    BY <1>3, <2>1 DEF FlushesOK, Flushed
  <2>3. Left(s)' = Left(s)
    <3>1. Sent(s)' = Sent(s)
      <4>1. t \notin Sent(s) /\ t \notin Sent(s)'
        BY <1>3, <1>4 DEF Sent
      <4>2. \A u \in IOThread \ {t} : u \in Sent(s)' <=> u \in Sent(s)
        BY <1>4 DEF Sent, StepOn, StepOf
      <4> QED
        BY <4>1, <4>2 DEF Sent
    <3>2. Uncompleted(s)' = Uncompleted(s)
      BY <1>3, <3>1 DEF Uncompleted
    <3> QED
      BY <1>3, <3>2 DEF Left, Removed, SizeOf
  <2>4. Left(s) \in 0 .. 2
    BY LeftType
  <2>5. StepOf(t) /\ Left(s)' <= Left(s)
    BY <1>4, <2>3, <2>4 DEF StepOn
  <2> QED
    BY <1>4, <1>5, <2>2, <2>5, EnoughShifts
<1>8. ListStep(t, s)
  <2>1. Head(LSendRequestSessionList[t]) = s
    BY <1>1, <1>3 DEF FlushesOK, FlushOK
  <2> QED
    BY <1>4, <2>1 DEF ListStep
<1> QED
  BY <1>3, <1>4, <1>6, <1>7, <1>8, FlushFrame DEF Free

\* FlushSend takes the lock to send the first region.
LEMMA FlushStarts ==
  ASSUME SendInv, JobLifeInv, BuffersOK, BuffersOK', FlushesOK,
         NEW t \in IOThread, kind[t] = "flush", FlushPosts(t)
  PROVE  FlushesOK'
<1>1. PICK s \in Session : ses[t] = s
  BY HasSession DEF FlushPosts
<1>2. SendingTypeOK /\ SendThreadOK(t) /\ sending \in [Session -> 0 .. MaxStored]
  BY DEF SendInv, BuffersOK
<1>3. /\ pc[t] = "lock" /\ mSendBufferLock[s] = None
      /\ mSendBuffer[s] # << >> /\ ~(mSendPendingCount[s] > 0)
      /\ pc' = [pc EXCEPT ![t] = "create"] /\ fresh' = [fresh EXCEPT ![t] = "IO_SEND"]
      /\ mSendBufferLock' = [mSendBufferLock EXCEPT ![s] = t]
      /\ sending' = [sending EXCEPT ![s] = mSendBuffer[s][1]]
      /\ UNCHANGED <<mConnected, mRefCount, pending, mFreeSessionList, ses, kind, back,
                     packets, issued, mSendBuffer, mSendPendingCount, LSendRequestSessionList>>
  BY <1>1 DEF FlushPosts, CreateIf, Goto, Local, poolVars
<1>4. /\ pc'[t] = "create" /\ fresh'[t] = "IO_SEND" /\ sending'[s] = mSendBuffer[s][1]
      /\ \A u \in IOThread \ {t} : pc'[u] = pc[u] /\ fresh'[u] = fresh[u]
      /\ \A u \in IOThread \ {t}, r \in Session : mSendBufferLock'[r] = u <=> mSendBufferLock[r] = u
      /\ \A r \in Session \ {s} : sending'[r] = sending[r]
  BY <1>2, <1>3, ThreadAssumption DEF SendingTypeOK
<1>5. StepOn(t, s)
  BY <1>1, <1>3, <1>4 DEF StepOn, StepOf
<1>6. t \notin JobHandlers(s)'
  BY <1>3 DEF JobHandlers
<1>7. NothingYet(s)'
  BY <1>3, <1>4, <1>5, <1>6, NothingKept
<1>8. Flushed(s)'
  <2> SUFFICES ASSUME mConnected'[s] = 1,
                      ~ \E u \in IOThread : ses'[u] = s /\ pc'[u] = "disconnect"
               PROVE  Enough(s)'
    BY DEF Flushed
  <2>1. ~ \E u \in IOThread : ses[u] = s /\ pc[u] = "disconnect"
    BY <1>3, <1>4
  <2>2. Enough(s)
    BY <1>3, <2>1 DEF FlushesOK, Flushed
  <2>3. Left(s)' = Left(s)
    <3>1. Sent(s)' = Sent(s)
      BY <1>3, <1>4 DEF Sent
    <3>2. Uncompleted(s)' = Uncompleted(s)
      BY <1>3, <3>1 DEF Uncompleted
    <3>3. Uncompleted(s) = 0
      <4>1. mSendPendingCount[s] = 0
        BY <1>2, <1>3 DEF SendingTypeOK
      <4> QED
        BY <4>1, UncompletedType
    <3> QED
      BY <1>3, <3>2, <3>3 DEF Left
  <2>4. ASSUME NEW i \in Nat, WaitsAt(t, i, s) PROVE WaitsAt(t, i, s)'
    BY <1>3, <1>4, <2>4 DEF WaitsAt, Consumed
  <2>5. Left(s) \in 0 .. 2
    BY LeftType
  <2> QED
    BY <1>5, <2>2, <2>3, <2>4, <2>5, WaitingGrows, EnoughGrows DEF StepOn
<1>9. FlushOK(t)' /\ ListStep(t, s)
  <2>1. ~Consumed(t)'
    BY <1>4 DEF Consumed
  <2> QED
    BY <1>1, <1>3, <1>4, <2>1 DEF FlushesOK, FlushOK, ListStep
<1>10. \A u \in IOThread \ {t} : ~(ses[u] = s /\ fresh[u] = "IO_SEND")
  BY <1>3, ThreadAssumption DEF SendInv, SendThreadOK
<1> QED
  BY <1>3, <1>4, <1>5, <1>7, <1>8, <1>9, <1>10, FlushFrame DEF Free

\* WSASend accepts the request: one region is on its way, and one entry used.
LEMMA FlushSends ==
  ASSUME SendInv, JobLifeInv, BuffersOK, BuffersOK', FlushesOK,
         NEW t \in IOThread, FlushIssueOk(t)
  PROVE  FlushesOK'
<1>1. PICK s \in Session : ses[t] = s
  BY HasSession DEF FlushIssueOk, IssueOk
<1>2. SendingTypeOK /\ SendThreadOK(t) /\ mSendBuffer \in [Session -> Regions]
  BY DEF SendInv, BuffersOK
<1>3. /\ pc[t] = "issue" /\ kind[t] = "flush" /\ fresh[t] = "IO_SEND"
      /\ pc' = [pc EXCEPT ![t] = "unlock"] /\ fresh' = [fresh EXCEPT ![t] = "none"]
      /\ pending' = [pending EXCEPT ![s]["IO_SEND"] = @ + 1]
      /\ UNCHANGED <<mConnected, mRefCount, mSendBufferLock, mFreeSessionList, ses, kind, back,
                     packets, issued, mSendBuffer, sending, LSendRequestSessionList>>
  BY <1>1 DEF FlushIssueOk, IssueOk, AfterPost, Goto, Local, poolVars
<1>4. /\ pc'[t] = "unlock" /\ fresh'[t] = "none"
      /\ \A u \in IOThread \ {t} : pc'[u] = pc[u] /\ fresh'[u] = fresh[u]
      /\ \A r \in Session \ {s} : pending'[r] = pending[r]
      /\ pending'[s]["IO_SEND"] = pending[s]["IO_SEND"] + 1
      /\ pending'[s]["IO_ACCEPT"] = pending[s]["IO_ACCEPT"]
  BY <1>2, <1>3 DEF SendingTypeOK, IOType
<1>5. StepOn(t, s)
  BY <1>1, <1>3, <1>4 DEF StepOn, StepOf
<1>6. /\ mSendBuffer[s] # << >> /\ sending[s] = mSendBuffer[s][1]
      /\ Head(LSendRequestSessionList[t]) = s /\ LSendRequestSessionList[t] # << >>
  BY <1>1, <1>2, <1>3 DEF FlushesOK, FlushOK, SendThreadOK
<1>7. NothingYet(s)'
  <2>1. ~BeforeConnect(s)
    BY <1>6 DEF FlushesOK, NothingYet
  <2> QED
    BY <1>3, <1>4, <2>1 DEF NothingYet, BeforeConnect, Free
<1>8. Left(s) = Len(mSendBuffer[s]) /\ Left(s)' = Left(s) - 1 /\ Left(s) \in Nat
  <2>1. Uncompleted(s) = 0
    <3>1. mSendPendingCount[s] = 0
      BY <1>1, <1>2, <1>3 DEF SendThreadOK
    <3> QED
      BY <3>1, UncompletedType
  <2>2. Uncompleted(s)' = 1
    <3>1. Sent(s)' = Sent(s)
      BY <1>3, <1>4 DEF Sent
    <3>2. Uncompleted(s)' = pending'[s]["IO_SEND"] + Cardinality(Sent(s))
      BY <3>1 DEF Uncompleted
    <3>3. Cardinality(Sent(s)) \in Nat
      <4>1. Sent(s) \subseteq IOThread
        BY DEF Sent
      <4> QED
        BY <4>1, CountMember
    <3> QED
      BY <1>4, <2>1, <3>2, <3>3, UncompletedType DEF Uncompleted
  <2>3. Left(s) = Len(mSendBuffer[s])
    BY <2>1 DEF Left
  <2>4. Left(s)' = Len(Removed(mSendBuffer[s], mSendBuffer[s][1]))
    BY <1>3, <1>6, <2>2 DEF Left, Removed, SizeOf
  <2>5. /\ Len(mSendBuffer[s]) \in 0 .. 2
        /\ Len(Removed(mSendBuffer[s], mSendBuffer[s][1])) = Len(mSendBuffer[s]) - 1
    <3>1. mSendBuffer[s] \in Regions /\ 0 \in Nat
      BY <1>2
    <3> QED
      BY <1>6, <3>1, RemovedLen
  <2> QED
    BY <2>3, <2>4, <2>5
<1>9. Flushed(s)'
  <2> SUFFICES ASSUME mConnected'[s] = 1,
                      ~ \E u \in IOThread : ses'[u] = s /\ pc'[u] = "disconnect"
               PROVE  Enough(s)'
    BY DEF Flushed
  <2>1. ~ \E u \in IOThread : ses[u] = s /\ pc[u] = "disconnect"
    BY <1>3, <1>4
  <2>2. Enough(s)
    BY <1>3, <2>1 DEF FlushesOK, Flushed
  <2>3. ASSUME NEW p \in Waiting(s), p # <<t, 1>> PROVE p \in Waiting(s)'
    <3>1. PICK u \in IOThread, i \in Nat : p = <<u, i>> /\ WaitsAt(u, i, s)
      BY WaitingMember
    <3>2. WaitsAt(u, i, s)'
      <4>1. CASE u # t
        BY <1>5, <3>1, <4>1, WaitsElsewhere DEF StepOn
      <4>2. CASE u = t
        BY <1>3, <2>3, <3>1, <4>2 DEF WaitsAt
      <4> QED
        BY <4>1, <4>2
    <3> QED
      BY <3>1, <3>2, WaitingMemberNext
  <2>4. Left(s)' > 0 => Waiting(s)' # {}
    <3> SUFFICES ASSUME Left(s)' > 0 PROVE Waiting(s)' # {}
      OBVIOUS
    <3>1. Left(s) > 1
      BY <1>8
    <3>2. PICK p, q \in Waiting(s) : p # q
      BY <2>2, <3>1 DEF Enough
    <3> QED
      BY <2>3, <3>2
  <2>5. ~(Left(s)' > 1)
    <3>1. Left(s) <= 2
      <4>1. Left(s) \in 0 .. 2
        BY LeftType
      <4> QED
        BY <4>1
    <3> QED
      BY <1>8, <3>1
  <2> QED
    BY <2>4, <2>5 DEF Enough
<1>10. FlushOK(t)' /\ ListStep(t, s)
  BY <1>1, <1>3, <1>4, <1>6 DEF FlushOK, ListStep
<1> QED
  BY <1>3, <1>4, <1>5, <1>7, <1>9, <1>10, FlushFrame DEF Free

LEMMA FlushDoSends ==
  ASSUME SendInv, SendInv', JobLifeInv, BuffersOK, BuffersOK', FlushesOK,
         NEW t \in IOThread, DoSends(t)
  PROVE  FlushesOK'
BY FlushAppends, FlushCompletes, FlushBegins, FlushPutsOff, FlushStarts, FlushSends, FlushFinishes
   DEF DoSends, DoSendJob

\* A completion is fetched: the one of its accept, by which the session goes on
\* waiting for its connection, or one of a session that has been connected.
LEMMA FlushFetches ==
  ASSUME SendInv, JobLifeInv, BuffersOK, BuffersOK', FlushesOK,
         NEW t \in IOThread, NextCompletion(t)
  PROVE  FlushesOK'
<1>1. PICK s \in Session, k \in IOType, ok \in BOOLEAN : GetQueuedCompletionStatus(t, s, k, ok)
  BY DEF NextCompletion, Completion
<1>2. SendThreadOK(t) /\ SendingTypeOK
  BY DEF SendInv
<1>3. PICK l \in {"disconnect", "accept", "postrecv", "parse", "sent", "disconnected", "send"} :
        /\ pc' = [pc EXCEPT ![t] = l]
        /\ l = "accept" <=> k = "IO_ACCEPT"
        /\ k = "IO_SEND" => l \in {"sent", "disconnect"}
  BY <1>1 DEF GetQueuedCompletionStatus, Goto, IOType
<1>4. /\ pc[t] = "idle" /\ pending[s][k] > 0
      /\ pending' = [pending EXCEPT ![s][k] = @ - 1]
      /\ ses' = [ses EXCEPT ![t] = s] /\ kind' = [kind EXCEPT ![t] = k]
      /\ packets' = [packets EXCEPT ![t] = IF ok /\ k = "IO_RECV" THEN MaxPackets + 1 ELSE 0]
      /\ UNCHANGED <<mConnected, mRefCount, issued, mFreeSessionList, mSendBufferLock,
                     fresh, back, mSendBuffer, sending, LSendRequestSessionList>>
  BY <1>1 DEF GetQueuedCompletionStatus, NextCompletion, poolVars, sendVars
<1>5. /\ pc'[t] = l /\ ses'[t] = s /\ kind'[t] = k /\ fresh[t] = "none" /\ ses[t] = None
      /\ \A u \in IOThread \ {t} : /\ pc'[u] = pc[u] /\ ses'[u] = ses[u] /\ kind'[u] = kind[u]
                                   /\ packets'[u] = packets[u]
  BY <1>2, <1>3, <1>4 DEF SendingTypeOK, SendThreadOK, Creating
<1>6. /\ pending'[s][k] = pending[s][k] - 1
      /\ \A j \in IOType \ {k} : pending'[s][j] = pending[s][j]
      /\ \A r \in Session \ {s} : pending'[r] = pending[r]
  BY <1>2, <1>4 DEF SendingTypeOK
<1>7. StepOn(t, s)
  BY <1>4, <1>5, <1>6 DEF StepOn, StepOf
<1>8. kind'[t] # "flush" /\ ~Consumed(t)'
  BY <1>5 DEF IOType, Consumed
<1>9. FlushOK(t)' /\ ListStep(t, s)
  BY <1>4, <1>5, <1>8 DEF FlushOK, ListStep
<1>10. NothingYet(s)'
  <2>1. CASE k = "IO_ACCEPT"
    <3>1. NothingYet(s) /\ BeforeConnect(s) /\ l = "accept"
      BY <1>3, <1>4, <2>1 DEF FlushesOK, BeforeConnect
    <3>2. mSendBuffer'[s] = << >> /\ \A j \in IOType \ {"IO_ACCEPT"} : pending'[s][j] = 0
      BY <1>4, <1>6, <2>1, <3>1 DEF NothingYet
    <3>3. ASSUME NEW u \in JobHandlers(s)' PROVE pc'[u] = "accept"
      <4>1. u \in IOThread
        BY <3>3 DEF JobHandlers, Handlers
      <4>2. CASE u = t
        BY <1>5, <3>1, <4>2
      <4>3. CASE u # t
        <5>1. u \in JobHandlers(s)
          BY <1>4, <1>5, <3>3, <4>1, <4>3 DEF JobHandlers, Handlers
        <5> QED
          BY <1>5, <3>1, <4>1, <4>3, <5>1 DEF NothingYet
      <4> QED
        BY <4>2, <4>3
    <3> QED
      BY <3>2, <3>3 DEF NothingYet
  <2>2. CASE k # "IO_ACCEPT"
    <3>1. ~BeforeConnect(s)
      <4>1. ~(pending[s][k] = 0)
        BY <1>4
      <4> QED
        BY <2>2, <4>1 DEF FlushesOK, NothingYet
    <3>2. pending'[s]["IO_ACCEPT"] = pending[s]["IO_ACCEPT"] /\ l # "accept"
      BY <1>3, <1>6, <2>2 DEF IOType
    <3> QED
      BY <1>4, <1>5, <3>1, <3>2 DEF NothingYet, BeforeConnect, Free
  <2> QED
    BY <2>1, <2>2
<1>11. Flushed(s)'
  <2> SUFFICES ASSUME mConnected'[s] = 1,
                      ~ \E u \in IOThread : ses'[u] = s /\ pc'[u] = "disconnect"
               PROVE  Enough(s)'
    BY DEF Flushed
  <2>1. ~ \E u \in IOThread : ses[u] = s /\ pc[u] = "disconnect"
    BY <1>4, <1>5
  <2>2. Enough(s) /\ l # "disconnect"
    BY <1>4, <1>5, <2>1 DEF FlushesOK, Flushed
  <2>3. Uncompleted(s)' = Uncompleted(s)
    <3>1. SameBut(t, Sent(s), Sent(s)') /\ t \notin Sent(s)
      BY <1>4, <1>7, SentStep DEF StepOn, Sent
    <3>2. Uncompleted(s)' = pending'[s]["IO_SEND"] + Cardinality(Sent(s)')
      BY DEF Uncompleted
    <3>3. pending[s]["IO_SEND"] \in Nat
      BY UncompletedType
    <3>4. CASE k = "IO_SEND"
      <4>1. t \in Sent(s)'
        BY <1>3, <1>5, <2>2, <3>4 DEF Sent
      <4>2. Cardinality(Sent(s)') = Cardinality(Sent(s)) + 1 /\ Cardinality(Sent(s)) \in Nat
        BY <3>1, <4>1 DEF SameBut, Bit
      <4>3. pending'[s]["IO_SEND"] = pending[s]["IO_SEND"] - 1
        BY <1>6, <3>4
      <4> QED
        BY <3>2, <3>3, <4>2, <4>3 DEF Uncompleted
    <3>5. CASE k # "IO_SEND"
      <4>1. t \notin Sent(s)'
        BY <1>5, <3>5 DEF Sent
      <4>2. Cardinality(Sent(s)') = Cardinality(Sent(s))
        BY <3>1, <4>1 DEF SameBut, Bit
      <4>3. pending'[s]["IO_SEND"] = pending[s]["IO_SEND"]
        BY <1>6, <3>5 DEF IOType
      <4> QED
        BY <3>2, <4>2, <4>3 DEF Uncompleted
    <3> QED
      BY <3>4, <3>5
  <2>4. Left(s)' = Left(s)
    BY <1>4, <2>3 DEF Left, Removed, SizeOf
  <2>5. ASSUME NEW i \in Nat, WaitsAt(t, i, s) PROVE WaitsAt(t, i, s)'
    BY <1>4, <1>8, <2>5 DEF WaitsAt
  <2>6. Left(s) \in 0 .. 2
    BY LeftType
  <2> QED
    BY <1>7, <2>2, <2>4, <2>5, <2>6, WaitingGrows, EnoughGrows DEF StepOn
<1> QED
  BY <1>4, <1>7, <1>9, <1>10, <1>11, FlushFrame DEF Free

\* The request for the player, and the answer.
LEMMA FlushLoads ==
  ASSUME SendInv, JobLifeInv, BuffersOK, BuffersOK', FlushesOK,
         NEW t \in IOThread, NEW n, NEW ok, PostRequest(t, n, ok) \/ OnLoadResult(t)
  PROVE  FlushesOK'
<1>1. PICK s \in Session : ses[t] = s
  BY HasSession DEF PostRequest, OnLoadResult
<1>2. SendThreadOK(t) /\ SendingTypeOK /\ JobTypes
  BY DEF JobLifeInv, SendInv
<1>3. /\ pc[t] \in {"subscribe", "send"} /\ pc' = [pc EXCEPT ![t] = "finish"]
      /\ \A r \in Session \ {s} : mRefCount'[r] = mRefCount[r]
      /\ UNCHANGED <<mConnected, mSendBufferLock, pending, fresh, mFreeSessionList,
                     ses, kind, back, packets, issued, sendVars>>
  BY <1>1, <1>2 DEF PostRequest, OnLoadResult, Goto, Local, poolVars, sessionVars, JobTypes
<1>4. pc'[t] = "finish" /\ \A u \in IOThread \ {t} : pc'[u] = pc[u]
  BY <1>2, <1>3 DEF SendingTypeOK
<1>5. /\ pc[t] \notin {"idle", "accept", "sent", "lock", "disconnect"}
      /\ pc'[t] \notin {"idle", "accept", "sent"}
      /\ Returning(t)' <=> Returning(t)
  BY <1>3, <1>4 DEF Returning
<1> QED
  BY <1>1, <1>3, <1>4, <1>5, FlushMoves

\* SessionReset empties the buffer of a session to which nothing refers.
LEMMA FlushResets ==
  ASSUME SendInv, JobLifeInv, BuffersOK, BuffersOK', FlushesOK,
         NEW t \in IOThread, ResetWithPlayer(t)
  PROVE  FlushesOK'
<1>1. PICK s \in Session : ses[t] = s
  BY HasSession DEF ResetWithPlayer, ResetSends, SessionReset
<1>2. /\ JobThreadOK(t) /\ SendThreadOK(t) /\ SendingTypeOK /\ JobTypes
      /\ mSendBuffer \in [Session -> Regions]
  BY DEF JobLifeInv, SendInv, BuffersOK
<1>3. /\ pc[t] = "reset" /\ mSendBufferLock[s] = None
      /\ mFreeSessionList' = Append(mFreeSessionList, s)
      /\ mSendBuffer' = [mSendBuffer EXCEPT ![s] = << >>]
      /\ UNCHANGED <<mConnected, mRefCount, mSendBufferLock, pending, fresh, packets,
                     issued, sending, LSendRequestSessionList>>
  BY <1>1 DEF ResetWithPlayer, ResetSends, SessionReset, sessionVars
<1>4. Returning(t) /\ mRefCount[s] = 0
  BY <1>1, <1>3 DEF Returning, JobLifeInv, ReturnsOnce
<1>5. back[t] = "idle"
  BY <1>1, <1>2, <1>3, <1>4, ThreadAssumption DEF JobThreadOK
<1>6. /\ pc' = [pc EXCEPT ![t] = "idle"] /\ ses' = [ses EXCEPT ![t] = None]
      /\ kind' = [kind EXCEPT ![t] = "none"] /\ back' = [back EXCEPT ![t] = "none"]
  BY <1>5 DEF ResetWithPlayer, ResetSends, SessionReset, Resume, Goto
<1>7. /\ pc'[t] = "idle" /\ ses'[t] = None /\ kind'[t] = "none" /\ fresh[t] = "none"
      /\ \A u \in IOThread \ {t} : /\ pc'[u] = pc[u] /\ ses'[u] = ses[u] /\ kind'[u] = kind[u]
                                   /\ back'[u] = back[u]
      /\ mSendBuffer'[s] = << >> /\ \A r \in Session \ {s} : mSendBuffer'[r] = mSendBuffer[r]
  BY <1>2, <1>3, <1>6 DEF SendingTypeOK, SendThreadOK, Creating
<1>8. StepOn(t, s)
  BY <1>1, <1>3, <1>7 DEF StepOn, StepOf
<1>9. FlushOK(t)' /\ ListStep(t, s)
  BY <1>3, <1>7 DEF FlushOK, ListStep, Consumed
<1>10. JobHandlers(s) = {} /\ \A k \in IOType : pending[s][k] = 0
  BY <1>4, ZeroCount
<1>11. NothingYet(s)'
  <2>1. t \notin JobHandlers(s)'
    BY <1>7, SessionAssumption DEF JobHandlers, Handlers
  <2>2. \A u \in IOThread \ {t} : u \in JobHandlers(s)' <=> u \in JobHandlers(s)
    BY <1>3, <1>7 DEF JobHandlers, Handlers
  <2>3. JobHandlers(s)' = {}
    <3>1. JobHandlers(s)' \subseteq IOThread
      BY DEF JobHandlers, Handlers
    <3> QED
      BY <1>10, <2>1, <2>2, <3>1
  <2> QED
    BY <1>3, <1>7, <1>10, <2>3 DEF NothingYet
<1>12. Flushed(s)'
  <2>1. mConnected'[s] # 1
    BY <1>3, <1>4, ConnectedRef
  <2> QED
    BY <2>1 DEF Flushed
<1>13. \A u \in IOThread \ {t} : ~(ses[u] = s /\ fresh[u] = "IO_SEND")
  BY <1>3, ThreadAssumption DEF SendInv, SendThreadOK
<1>14. ASSUME NEW r \in Session \ {s}, r \in Free' PROVE r \in Free
  <2>1. mFreeSessionList \in Seq(Session)
    BY <1>2 DEF JobTypes
  <2>2. PICK i \in 1 .. Len(mFreeSessionList') : r = mFreeSessionList'[i]
    BY <1>14 DEF Free
  <2>3. i \in 1 .. Len(mFreeSessionList) /\ mFreeSessionList'[i] = mFreeSessionList[i]
    BY <1>3, <2>1, <2>2
  <2> QED
    BY <2>2, <2>3 DEF Free
<1> QED
  BY <1>3, <1>7, <1>8, <1>9, <1>11, <1>12, <1>13, <1>14, FlushFrame

\* A step that no thread makes, and that leaves the sends alone.
LEMMA FlushAside ==
  ASSUME FlushesOK,
         UNCHANGED <<mConnected, pc, ses, kind, fresh, back, mSendBuffer, sending,
                     LSendRequestSessionList>>,
         \A s \in Session :
           /\ pending'[s]["IO_SEND"] = pending[s]["IO_SEND"]
           /\ BeforeConnect(s)' =>
                /\ BeforeConnect(s)
                /\ \A k \in IOType \ {"IO_ACCEPT"} : pending'[s][k] = pending[s][k]
  PROVE  FlushesOK'
<1>1. ASSUME NEW t \in IOThread PROVE FlushOK(t)'
  BY DEF FlushesOK, FlushOK
<1>2. ASSUME NEW s \in Session PROVE NothingYet(s)'
  <2>1. NothingYet(s) /\ JobHandlers(s)' = JobHandlers(s)
    BY OffSets DEF FlushesOK
  <2> QED
    BY <2>1 DEF NothingYet
<1>3. ASSUME NEW s \in Session PROVE Flushed(s)'
  <2>1. Flushed(s)
    BY DEF FlushesOK
  <2>2. Left(s)' = Left(s)
    <3>1. Uncompleted(s)' = Uncompleted(s)
      <4>1. Sent(s)' = Sent(s)
        BY DEF Sent
      <4> QED
        BY <4>1 DEF Uncompleted
    <3> QED
      BY <3>1 DEF Left, Removed, SizeOf
  <2>3. Waiting(s)' = Waiting(s)
    <3>1. \A t \in IOThread : \A i : WaitsAt(t, i, s)' <=> WaitsAt(t, i, s)
      BY DEF WaitsAt, Consumed
    <3>2. \A p : p \in Waiting(s)' <=> p \in Waiting(s)
      BY <3>1, WaitingMember, WaitingMemberNext
    <3> QED
      BY <3>2
  <2>4. Enough(s)' <=> Enough(s)
    BY <2>2, <2>3 DEF Enough
  <2> QED
    BY <2>1, <2>4 DEF Flushed
<1> QED
  BY <1>1, <1>2, <1>3 DEF FlushesOK

\* The main thread issues a session that waits in the pool.
LEMMA FlushAccepts ==
  ASSUME SendInv, JobLifeInv, FlushesOK, AcceptClientSessions, UNCHANGED sendVars
  PROVE  FlushesOK'
<1>1. /\ UNCHANGED <<mConnected, pc, ses, kind, fresh, back>>
      /\ UNCHANGED <<mSendBuffer, sending, LSendRequestSessionList>>
  BY DEF AcceptClientSessions, AcceptEnter, AcceptOne, AcceptLeave, threadVars, sessionVars, sendVars
<1>2. CASE AcceptEnter \/ AcceptLeave
  <2>1. UNCHANGED <<pending, mFreeSessionList>>
    BY <1>2 DEF AcceptEnter, AcceptLeave, sessionVars
  <2>2. \A s \in Session : BeforeConnect(s)' <=> BeforeConnect(s)
    BY <1>1, <2>1 DEF BeforeConnect, Free
  <2> QED
    BY <1>1, <2>1, <2>2, FlushAside
<1>3. ASSUME NEW ok \in BOOLEAN, AcceptOne(ok) PROVE FlushesOK'
  <2>1. SendingTypeOK /\ JobTypes
    BY DEF JobLifeInv, SendInv
  <2>2. PICK n \in Nat : n = Len(mFreeSessionList) /\ n >= 1 /\ mFreeSessionList \in Seq(Session)
    <3>1. mFreeSessionList \in Seq(Session) /\ mFreeSessionList # << >>
      BY <1>3, <2>1 DEF AcceptOne, JobTypes
    <3> QED
      BY <3>1, EmptySeq, LenProperties
  <2>3. PICK s \in Session : s = mFreeSessionList[n]
    BY <2>2, LenProperties, ElementOfSeq
  <2>4. s \in Free /\ BeforeConnect(s)
    BY <2>2, <2>3 DEF Free, BeforeConnect
  <2>5. /\ pending' = IF ok THEN [pending EXCEPT ![s]["IO_ACCEPT"] = @ + 1] ELSE pending
        /\ mFreeSessionList' = SubSeq(mFreeSessionList, 1, n - 1)
    BY <1>3, <2>2, <2>3 DEF AcceptOne
  <2>6. /\ \A r \in Session \ {s} : pending'[r] = pending[r]
        /\ \A k \in IOType \ {"IO_ACCEPT"} : pending'[s][k] = pending[s][k]
    BY <2>1, <2>5 DEF SendingTypeOK, IOType
  <2>7. \A r \in Free' : r \in Free
    <3>1. /\ Len(mFreeSessionList') = n - 1
          /\ \A i \in 1 .. n - 1 : mFreeSessionList'[i] = mFreeSessionList[i]
      BY <2>2, <2>5, AllButLast
    <3> QED
      BY <2>2, <3>1 DEF Free
  <2>8. ASSUME NEW r \in Session
        PROVE  /\ pending'[r]["IO_SEND"] = pending[r]["IO_SEND"]
               /\ BeforeConnect(r)' =>
                    /\ BeforeConnect(r)
                    /\ \A k \in IOType \ {"IO_ACCEPT"} : pending'[r][k] = pending[r][k]
    <3>1. CASE r = s
      BY <2>4, <2>6, <3>1 DEF IOType
    <3>2. CASE r # s
      <4>1. pending'[r] = pending[r]
        BY <2>6, <3>2
      <4>2. BeforeConnect(r)' => BeforeConnect(r)
        BY <1>1, <2>7, <4>1 DEF BeforeConnect
      <4> QED
        BY <4>1, <4>2
    <3> QED
      BY <3>1, <3>2
  <2> QED
    BY <1>1, <2>8, FlushAside
<1> QED
  BY <1>2, <1>3 DEF AcceptClientSessions

\* The result of a job goes to a session that has been connected.
LEMMA FlushAnswers ==
  ASSUME SendInv, JobLifeInv, FlushesOK, NEW d \in DBThread, NEW ok \in BOOLEAN,
         PostDatabaseResult(d, ok)
  PROVE  FlushesOK'
<1>1. SendingTypeOK /\ JobTypes
  BY DEF JobLifeInv, SendInv
<1>2. PICK s \in Session : running[d] # None /\ s = running[d].mSessionObject
  <2>1. running[d] \in Context
    BY <1>1 DEF PostDatabaseResult, JobTypes
  <2> QED
    BY <2>1 DEF PostDatabaseResult, Context
<1>3. /\ pending' = [pending EXCEPT ![s]["CK_DB_RESULT"] = @ + 1]
      /\ UNCHANGED <<mConnected, pc, ses, kind, fresh, back, mFreeSessionList,
                     mSendBuffer, sending, LSendRequestSessionList>>
  BY <1>2 DEF PostDatabaseResult, threadVars, poolVars, sendVars
<1>4. /\ \A r \in Session \ {s} : pending'[r] = pending[r]
      /\ \A k \in IOType \ {"CK_DB_RESULT"} : pending'[s][k] = pending[s][k]
  BY <1>1, <1>3 DEF SendingTypeOK, IOType
<1>5. ~BeforeConnect(s)
  <2>1. d \in Running(s)
    BY <1>2 DEF Running
  <2>2. s \notin Free
    <3>1. Running(s) # {}
      BY <2>1
    <3>2. mRefCount[s] # 0
      BY <3>1, NothingLeft
    <3> QED
      BY <3>2 DEF JobLifeInv, PoolOK
  <2>3. ~(pending[s]["IO_ACCEPT"] > 0) /\ Accepting(s) = {}
    BY <2>1, LoadAlone
  <2>4. ASSUME NEW t \in IOThread, ses[t] = s, pc[t] = "accept" PROVE FALSE
    <3>1. kind[t] = "IO_ACCEPT"
      BY <2>4 DEF JobLifeInv, JobThreadOK
    <3>2. t \in Accepting(s)
      BY <2>4, <3>1 DEF Accepting
    <3> QED
      BY <2>3, <3>2
  <2> QED
    BY <2>2, <2>3, <2>4 DEF BeforeConnect
<1>6. ASSUME NEW r \in Session
      PROVE  /\ pending'[r]["IO_SEND"] = pending[r]["IO_SEND"]
             /\ BeforeConnect(r)' =>
                  /\ BeforeConnect(r)
                  /\ \A k \in IOType \ {"IO_ACCEPT"} : pending'[r][k] = pending[r][k]
  <2>1. pending'[r]["IO_ACCEPT"] = pending[r]["IO_ACCEPT"] /\ pending'[r]["IO_SEND"] = pending[r]["IO_SEND"]
    BY <1>4 DEF IOType
  <2>2. BeforeConnect(r)' => BeforeConnect(r)
    BY <1>3, <2>1 DEF BeforeConnect, Free
  <2> QED
    BY <1>4, <1>5, <2>1, <2>2
<1> QED
  BY <1>3, <1>6, FlushAside

LEMMA InitFlushes == JobInit => FlushesOK
<1> SUFFICES ASSUME JobInit PROVE FlushesOK
  OBVIOUS
<1>1. /\ \A t \in IOThread : kind[t] = "none" /\ fresh[t] = "none" /\ ses[t] = None /\ pc[t] = "idle"
      /\ \A s \in Session : mSendBuffer[s] = << >> /\ mConnected[s] = 0
      /\ \A s \in Session : \A k \in IOType : pending[s][k] = 0
  BY DEF JobInit, SendInit, Init
<1>2. \A s \in Session : JobHandlers(s) = {}
  BY <1>1, SessionAssumption DEF JobHandlers, Handlers
<1> QED
  BY <1>1, <1>2 DEF FlushesOK, FlushOK, NothingYet, Flushed

LEMMA NextFlushes ==
  ASSUME SendInv, SendInv', JobLifeInv, JobLifeInv', BuffersOK, BuffersOK', FlushesOK, [JobNext]_h6Vars
  PROVE  FlushesOK'
<1>1. CASE UNCHANGED <<allVars>>
  <2>1. UNCHANGED <<mConnected, pc, ses, kind, fresh, back, mSendBuffer, sending,
                    LSendRequestSessionList, pending, mFreeSessionList>>
    BY <1>1 DEF allVars, vars, sessionVars, poolVars, threadVars, sendVars
  <2>2. \A s \in Session : BeforeConnect(s)' <=> BeforeConnect(s)
    BY <2>1 DEF BeforeConnect, Free
  <2> QED
    BY <2>1, <2>2, FlushAside
<1>2. CASE UNCHANGED h6Vars
  BY <1>1, <1>2 DEF h6Vars
<1>3. CASE AcceptClientSessions /\ UNCHANGED <<sendVars, jobVars>>
  BY <1>3, FlushAccepts
<1>4. ASSUME NEW t \in IOThread, SameAsHomework7(t), UNCHANGED <<sendVars, jobVars>> PROVE FlushesOK'
  BY <1>4, FlushSame
<1>5. ASSUME NEW t \in IOThread, DoSends(t) PROVE FlushesOK'
  BY <1>5, FlushDoSends
<1>6. ASSUME NEW t \in IOThread, NextCompletion(t) PROVE FlushesOK'
  BY <1>6, FlushFetches
<1>7. ASSUME NEW t \in IOThread, NEW n, NEW ok, PostRequest(t, n, ok) \/ OnLoadResult(t)
      PROVE  FlushesOK'
  BY <1>7, FlushLoads
<1>8. ASSUME NEW t \in IOThread, ResetWithPlayer(t) PROVE FlushesOK'
  BY <1>8, FlushResets
<1>9. ASSUME NEW d \in DBThread, DoDatabaseJob(d) PROVE FlushesOK'
  BY <1>1, <1>9 DEF DoDatabaseJob
<1>10. ASSUME NEW d \in DBThread, NEW ok \in BOOLEAN, PostDatabaseResult(d, ok) PROVE FlushesOK'
  BY <1>10, FlushAnswers
<1>11. ASSUME NEW d \in DBThread, PostDatabaseResultFails(d) PROVE FlushesOK'
  BY <1>1, <1>11 DEF PostDatabaseResultFails
<1> QED
  BY <1>2, <1>3, <1>4, <1>5, <1>6, <1>7, <1>8, <1>9, <1>10, <1>11 DEF JobNext

LEMMA FlushedBytes ==
  ASSUME BuffersOK, FlushesOK
  PROVE  NoStrandedBytes
<1> SUFFICES ASSUME NEW s \in Session, mConnected[s] = 1, SizeOf(mSendBuffer[s]) > 0,
                    ~(Uncompleted(s) > 0),
                    ~ \E t \in IOThread : ses[t] = s /\ pc[t] = "disconnect"
             PROVE  \E t \in IOThread : s \in {LSendRequestSessionList[t][i] :
                                                 i \in 1 .. Len(LSendRequestSessionList[t])}
  BY DEF NoStrandedBytes
<1>1. Enough(s)
  BY DEF FlushesOK, Flushed
<1>2. Left(s) > 0
  <2>1. mSendBuffer[s] \in Regions /\ Left(s) = Len(mSendBuffer[s])
    BY DEF BuffersOK, Left
  <2>2. mSendBuffer[s] # << >>
    <3>1. ~(0 > 0)
      OBVIOUS
    <3> QED
      BY <3>1, Sizes
  <2>3. 0 \in Nat
    OBVIOUS
  <2> QED
    BY <2>1, <2>2, <2>3, RemovedLen
<1>3. PICK p \in Waiting(s) : TRUE
  BY <1>1, <1>2 DEF Enough
<1>4. PICK t \in IOThread, i \in Nat : WaitsAt(t, i, s)
  BY <1>3, WaitingMember
<1> QED
  BY <1>4 DEF WaitsAt

\* Until FlushSend revives a session, JobInv is an invariant of Homework6: who
\* holds a reference of a session, the one load of each connection wherever it
\* is, what the pool may hold, and an entry in some list for each region of a
\* send buffer.
THEOREM JobInvariant == JobSpec => []JobInv
<1> DEFINE B == revived \/ FlushesOK
<1>1. JobInit => B
  BY InitFlushes
<1>2. SendInv /\ SendInv' /\ JobLives /\ JobLives' /\ BuffersOK /\ BuffersOK' /\ B /\ [JobNext]_h6Vars => B'
  <2> SUFFICES ASSUME SendInv, SendInv', JobLives, JobLives', BuffersOK, BuffersOK', B,
                      [JobNext]_h6Vars, ~revived'
               PROVE  FlushesOK'
    OBVIOUS
  <2>1. ~revived
    BY DEF JobNext, h6Vars
  <2> QED
    BY <2>1, NextFlushes DEF JobLives
<1>3. JobLives /\ B => JobInv
  BY DEF JobLives, JobInv
<1> HIDE DEF B
<1> QED
  BY <1>1, <1>2, <1>3, SendInvariant, JobAlwaysLives, BuffersKept, PTL DEF JobSpec

\* "flush later..." strands no bytes, also when the ring buffer holds them in
\* two regions, which take two sends, and whatever the threads and the
\* completions do in between: until FlushSend revives a session, for any number
\* of sessions and threads and any size of the buffer.
THEOREM JobNoStrandedBytes == JobSpec => []NoStrandedBytes
<1>1. JobInv /\ BuffersOK => NoStrandedBytes
  <2> SUFFICES ASSUME BuffersOK, FlushesOK PROVE NoStrandedBytes
    BY DEF JobInv, NoStrandedBytes
  <2> QED
    BY FlushedBytes
<1> QED
  BY <1>1, JobInvariant, BuffersKept, PTL
=============================================================================

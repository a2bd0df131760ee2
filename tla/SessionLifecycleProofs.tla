----------------------- MODULE SessionLifecycleProofs ------------------------
(***************************************************************************)
(* SessionLifecycle's invariants, for any number of sessions and I/O       *)
(* threads, any bounds and any set of Winsock calls that may fail.         *)
(*                                                                         *)
(* Every handler step is a step of one thread t on one session s.  So each *)
(* sum of the invariant changes only for s, by what t and the contexts of  *)
(* s contribute to it.  A lemma per action says what that change is; the   *)
(* lemma HandlerStep puts the invariant together again.                    *)
(***************************************************************************)
EXTENDS SessionLifecycle, FiniteSetTheorems, SequenceTheorems, TLAPS

-----------------------------------------------------------------------------
(* Counting.                                                               *)

\* What t contributes to the size of a set of threads.
Bit(t, S) == IF t \in S THEN 1 ELSE 0

\* Two sets of threads that differ at most in t: their sizes differ by what t
\* contributes.
SameBut(t, A, B) ==
  /\ Cardinality(A) \in Nat /\ Cardinality(B) \in Nat
  /\ Cardinality(B) = Cardinality(A) - Bit(t, A) + Bit(t, B)

LEMMA CountStep ==
  ASSUME NEW A, NEW B, A \subseteq IOThread, B \subseteq IOThread,
         NEW t, \A u \in IOThread : u # t => (u \in A <=> u \in B)
  PROVE  SameBut(t, A, B)
<1>1. IsFiniteSet(A) /\ IsFiniteSet(B)
  BY ThreadAssumption, FS_Subset
<1>2. Cardinality(A) \in Nat /\ Cardinality(B) \in Nat
  BY <1>1, FS_CardinalityType
<1>3. IsFiniteSet(A \ {t}) /\ Cardinality(A \ {t}) \in Nat
  BY <1>1, FS_RemoveElement, FS_CardinalityType
<1>4. Cardinality(A \ {t}) = IF t \in A THEN Cardinality(A) - 1 ELSE Cardinality(A)
  BY <1>1, FS_RemoveElement
<1>5. Cardinality(B \ {t}) = IF t \in B THEN Cardinality(B) - 1 ELSE Cardinality(B)
  BY <1>1, FS_RemoveElement
<1>6. A \ {t} = B \ {t}
  OBVIOUS
<1>7. Cardinality(A \ {t}) = Cardinality(B \ {t})
  BY <1>6
<1> QED
  BY <1>2, <1>3, <1>4, <1>5, <1>7 DEF SameBut, Bit

\* A set of threads of the model, and one of its members.
LEMMA CountMember ==
  ASSUME NEW A, A \subseteq IOThread
  PROVE  /\ Cardinality(A) \in Nat
         /\ \A t \in A : Cardinality(A) >= 1
         /\ \A t, u \in A : t # u => Cardinality(A) >= 2
<1>1. IsFiniteSet(A) /\ Cardinality(A) \in Nat
  BY ThreadAssumption, FS_Subset, FS_CardinalityType
<1>2. ASSUME NEW t \in A PROVE Cardinality(A) >= 1
  BY <1>1, FS_EmptySet
<1>3. ASSUME NEW t \in A, NEW u \in A, t # u PROVE Cardinality(A) >= 2
  <2>1. IsFiniteSet(A \ {t}) /\ Cardinality(A \ {t}) \in Nat
    BY <1>1, FS_RemoveElement, FS_CardinalityType
  <2>2. Cardinality(A \ {t}) = Cardinality(A) - 1
    BY <1>1, FS_RemoveElement
  <2>3. Cardinality(A \ {t}) # 0
    BY <1>3, <2>1, FS_EmptySet
  <2> QED
    BY <1>1, <2>1, <2>2, <2>3
<1> QED
  BY <1>1, <1>2, <1>3

-----------------------------------------------------------------------------
(* The frame of a handler's step.                                          *)

\* A step of thread t on session s: the other threads keep what they have and
\* the locks they own, the other sessions keep their counts and contexts.
Only(t, s) ==
  /\ \A u \in IOThread \ {t} :
       /\ pc'[u] = pc[u] /\ ses'[u] = ses[u] /\ kind'[u] = kind[u]
       /\ fresh'[u] = fresh[u] /\ back'[u] = back[u] /\ packets'[u] = packets[u]
       /\ \A r \in Session : mSendBufferLock'[r] = u <=> mSendBufferLock[r] = u
  /\ \A r \in Session \ {s} :
       /\ mConnected'[r] = mConnected[r] /\ mRefCount'[r] = mRefCount[r]
       /\ pending'[r] = pending[r] /\ issued'[r] = issued[r]
  /\ ses[t] \in {s, None} /\ ses'[t] \in {s, None}

\* The threads that ThreadOK is not about to lose: all but t.
LEMMA OthersOK ==
  ASSUME IndInv, NEW t \in IOThread, NEW s \in Session, Only(t, s),
         NEW u \in IOThread, u # t
  PROVE  ThreadOK(u)'
<1>1. ThreadOK(u)
  BY DEF IndInv
<1>2. /\ pc'[u] = pc[u] /\ ses'[u] = ses[u] /\ kind'[u] = kind[u]
      /\ fresh'[u] = fresh[u] /\ back'[u] = back[u] /\ packets'[u] = packets[u]
      /\ \A r \in Session : mSendBufferLock'[r] = u <=> mSendBufferLock[r] = u
  BY DEF Only
<1>3. ses[u] \in Session \union {None}
  BY DEF IndInv, TypeOK
<1>4. pc[u] = "unlock" \/ fresh[u] = "IO_SEND" => ses[u] \in Session
  BY <1>1, <1>3 DEF ThreadOK, Creating
<1> QED
  BY <1>1, <1>2, <1>4 DEF ThreadOK, Returning, CallOf

LEMMA SetsStep ==
  ASSUME IndInv, NEW t \in IOThread, NEW s \in Session, Only(t, s), NEW r \in Session
  PROVE  /\ SameBut(t, Handlers(r), Handlers(r)')
         /\ SameBut(t, Creators(r), Creators(r)')
         /\ SameBut(t, Connectors(r), Connectors(r)')
         /\ SameBut(t, Chain(r), Chain(r)')
         /\ r # s => /\ Handlers(r)' = Handlers(r) /\ Creators(r)' = Creators(r)
                     /\ Connectors(r)' = Connectors(r) /\ Chain(r)' = Chain(r)
<1>1. \A u \in IOThread : u # t =>
        /\ u \in Handlers(r) <=> u \in Handlers(r)'
        /\ u \in Creators(r) <=> u \in Creators(r)'
        /\ u \in Connectors(r) <=> u \in Connectors(r)'
        /\ u \in Chain(r) <=> u \in Chain(r)'
  BY DEF Only, Handlers, Creators, Connectors, Chain, InChain
<1>2. r # s => /\ t \notin Handlers(r) /\ t \notin Handlers(r)'
               /\ t \notin Creators(r) /\ t \notin Creators(r)'
               /\ t \notin Connectors(r) /\ t \notin Connectors(r)'
               /\ t \notin Chain(r) /\ t \notin Chain(r)'
  BY SessionAssumption DEF Only, Handlers, Creators, Connectors, Chain
<1>3. /\ Handlers(r) \subseteq IOThread /\ Handlers(r)' \subseteq IOThread
      /\ Creators(r) \subseteq IOThread /\ Creators(r)' \subseteq IOThread
      /\ Connectors(r) \subseteq IOThread /\ Connectors(r)' \subseteq IOThread
      /\ Chain(r) \subseteq IOThread /\ Chain(r)' \subseteq IOThread
  BY DEF Handlers, Creators, Connectors, Chain
<1>4. SameBut(t, Handlers(r), Handlers(r)')
  BY <1>1, <1>3, CountStep
<1>5. SameBut(t, Creators(r), Creators(r)')
  BY <1>1, <1>3, CountStep
<1>6. SameBut(t, Connectors(r), Connectors(r)')
  BY <1>1, <1>3, CountStep
<1>7. SameBut(t, Chain(r), Chain(r)')
  BY <1>1, <1>3, CountStep
<1> QED
  BY <1>1, <1>2, <1>3, <1>4, <1>5, <1>6, <1>7

-----------------------------------------------------------------------------
(* The sums of the invariant.                                              *)

\* The contexts in flight of a session are a natural number, and each one is
\* counted.
LEMMA InFlightType ==
  ASSUME TypeOK, NEW s \in Session
  PROVE  /\ InFlight(s) \in Nat
         /\ \A k \in IOType : pending[s][k] \in Nat /\ pending[s][k] <= InFlight(s)
<1>1. \A k \in IOType : pending[s][k] \in Nat
  BY DEF TypeOK
<1> QED
  BY <1>1 DEF InFlight, IOType

\* Only the contexts of type k change in number.
LEMMA InFlightStep ==
  ASSUME TypeOK, NEW s \in Session, NEW k \in IOType,
         \A j \in IOType \ {k} : pending'[s][j] = pending[s][j],
         pending'[s][k] \in Nat
  PROVE  InFlight(s)' = InFlight(s) + pending'[s][k] - pending[s][k]
<1>1. \A j \in IOType : pending[s][j] \in Nat /\ pending'[s][j] \in Nat
  BY DEF TypeOK
<1> QED
  BY <1>1 DEF InFlight, IOType

\* What t and the contexts of s contribute to the three sums.
Refs(t, s) ==
  InFlight(s) + Bit(t, Handlers(s)) + Bit(t, Creators(s)) + IssueRef(s)

Connects(t, s) ==
  pending[s]["IO_ACCEPT"] + mConnected[s] + pending[s]["IO_DISCONNECT"]
    + Bit(t, Connectors(s)) - IssueRef(s)

Receives(t, s) ==
  pending[s]["IO_ACCEPT"] + pending[s]["IO_RECV_ZERO"] + pending[s]["IO_RECV"]
    + Bit(t, Chain(s))

\* The three conjuncts about sums follow from the contributions of t and s.
LEMMA SumsStep ==
  ASSUME IndInv, TypeOK', NEW t \in IOThread, NEW s \in Session, Only(t, s),
         mRefCount'[s] - Refs(t, s)' = mRefCount[s] - Refs(t, s),
         Connects(t, s)' <= Connects(t, s),
         Receives(t, s)' <= Receives(t, s)
  PROVE  RefCountExact' /\ ConnectOnce' /\ OneChain'
<1> USE DEF IndInv
<1>1. ASSUME NEW r \in Session, r # s
      PROVE  /\ Handlers(r)' = Handlers(r) /\ Creators(r)' = Creators(r)
             /\ Connectors(r)' = Connectors(r) /\ Chain(r)' = Chain(r)
             /\ mRefCount'[r] = mRefCount[r] /\ mConnected'[r] = mConnected[r]
             /\ pending'[r] = pending[r] /\ issued'[r] = issued[r]
             /\ InFlight(r)' = InFlight(r) /\ IssueRef(r)' = IssueRef(r)
  BY <1>1, SetsStep DEF Only, InFlight, IssueRef
<1>2. /\ SameBut(t, Handlers(s), Handlers(s)')
      /\ SameBut(t, Creators(s), Creators(s)')
      /\ SameBut(t, Connectors(s), Connectors(s)')
      /\ SameBut(t, Chain(s), Chain(s)')
  BY SetsStep
<1>3. \A S : Bit(t, S) \in {0, 1}
  BY DEF Bit
<1>4. /\ \A k \in IOType : pending[s][k] \in Nat /\ pending'[s][k] \in Nat
      /\ mRefCount[s] \in Int /\ mRefCount'[s] \in Int
      /\ mConnected[s] \in {0, 1} /\ mConnected'[s] \in {0, 1}
      /\ IssueRef(s) \in {0, 1} /\ IssueRef(s)' \in {0, 1}
  BY DEF TypeOK, IssueRef
<1>5. InFlight(s) \in Nat /\ InFlight(s)' \in Nat
  BY <1>4 DEF InFlight, IOType
<1>6. RefCountExact'
  <2>1. mRefCount[s] = InFlight(s) + Cardinality(Handlers(s)) + Cardinality(Creators(s))
                         + IssueRef(s)
    BY DEF RefCountExact
  <2>2. mRefCount'[s] = InFlight(s)' + Cardinality(Handlers(s)') + Cardinality(Creators(s)')
                          + IssueRef(s)'
    BY <1>2, <1>3, <1>4, <1>5, <2>1 DEF SameBut, Refs
  <2> QED
    BY <1>1, <2>2 DEF RefCountExact
<1>7. ConnectOnce'
  <2>1. pending[s]["IO_ACCEPT"] + mConnected[s] + pending[s]["IO_DISCONNECT"]
          + Cardinality(Connectors(s)) <= IssueRef(s)
    BY DEF ConnectOnce
  <2>2. pending'[s]["IO_ACCEPT"] + mConnected'[s] + pending'[s]["IO_DISCONNECT"]
          + Cardinality(Connectors(s)') <= IssueRef(s)'
    BY <1>2, <1>3, <1>4, <2>1 DEF SameBut, Connects, IOType
  <2> QED
    BY <1>1, <2>2 DEF ConnectOnce
<1>8. OneChain'
  <2>1. pending[s]["IO_ACCEPT"] + pending[s]["IO_RECV_ZERO"] + pending[s]["IO_RECV"]
          + Cardinality(Chain(s)) <= 1
    BY DEF OneChain
  <2>2. pending'[s]["IO_ACCEPT"] + pending'[s]["IO_RECV_ZERO"] + pending'[s]["IO_RECV"]
          + Cardinality(Chain(s)') <= 1
    BY <1>2, <1>3, <1>4, <2>1 DEF SameBut, Receives, IOType
  <2> QED
    BY <1>1, <2>2 DEF OneChain
<1> QED
  BY <1>6, <1>7, <1>8

\* Whatever contributes to the count of a session is part of it.
LEMMA RefsCounted ==
  ASSUME IndInv, NEW t \in IOThread, NEW s \in Session
  PROVE  Refs(t, s) \in Nat /\ mRefCount[s] \in Int /\ mRefCount[s] >= Refs(t, s)
<1>1. InFlight(s) \in Nat
  BY InFlightType DEF IndInv
<1>2. /\ Cardinality(Handlers(s)) \in Nat /\ Cardinality(Handlers(s)) >= Bit(t, Handlers(s))
      /\ Cardinality(Creators(s)) \in Nat /\ Cardinality(Creators(s)) >= Bit(t, Creators(s))
  <2>1. Handlers(s) \subseteq IOThread /\ Creators(s) \subseteq IOThread
    BY DEF Handlers, Creators
  <2> QED
    BY <2>1, CountMember DEF Bit
<1>3. IssueRef(s) \in {0, 1} /\ \A S : Bit(t, S) \in {0, 1}
  BY DEF Bit, IssueRef
<1>4. mRefCount[s] = InFlight(s) + Cardinality(Handlers(s)) + Cardinality(Creators(s))
                       + IssueRef(s)
  BY DEF IndInv, RefCountExact
<1> QED
  BY <1>1, <1>2, <1>3, <1>4 DEF Refs

\* A session that a thread works for, or that has a context in flight, has
\* references, unless the thread is returning it.
LEMMA HandledCounted ==
  ASSUME IndInv, NEW t \in IOThread, NEW s \in Session, ses[t] = s, ~Returning(t)
  PROVE  mRefCount[s] > 0
<1>1. t \in Handlers(s)
  BY DEF Handlers, Returning
<1>2. Bit(t, Handlers(s)) = 1
  BY <1>1 DEF Bit
<1>3. InFlight(s) \in Nat /\ Bit(t, Creators(s)) \in {0, 1} /\ IssueRef(s) \in {0, 1}
  BY InFlightType DEF IndInv, Bit, IssueRef
<1> QED
  BY <1>2, <1>3, RefsCounted DEF Refs

LEMMA PendingCounted ==
  ASSUME IndInv, NEW s \in Session, NEW k \in IOType, pending[s][k] > 0
  PROVE  mRefCount[s] > 0
<1>1. InFlight(s) \in Nat /\ pending[s][k] \in Nat /\ pending[s][k] <= InFlight(s)
  BY InFlightType DEF IndInv
<1>2. /\ Cardinality(Handlers(s)) \in Nat /\ Cardinality(Creators(s)) \in Nat
      /\ IssueRef(s) \in {0, 1}
  BY CountMember DEF Handlers, Creators, IssueRef
<1> QED
  BY <1>1, <1>2 DEF IndInv, RefCountExact

\* The pool is not touched by a step on a session that has references.
LEMMA PoolStep ==
  ASSUME IndInv, NEW t \in IOThread, NEW s \in Session, Only(t, s), s \notin Free,
         UNCHANGED <<mFreeSessionList, mCurrentIssueCount, mCurrentReturnCount>>
  PROVE  PoolAccounting'
<1>1. Free' = Free /\ Outstanding' = Outstanding
  BY DEF Free, Outstanding
<1>2. \A r \in Free : r \in Session
  BY DEF IndInv, TypeOK, Free
<1>3. ASSUME NEW r \in Free
      PROVE  /\ mRefCount'[r] = 0 /\ mConnected'[r] = 0 /\ ~issued'[r]
             /\ InFlight(r)' = 0 /\ \A u \in IOThread : ses'[u] # r
  <2>1. /\ mRefCount[r] = 0 /\ mConnected[r] = 0 /\ ~issued[r]
        /\ InFlight(r) = 0 /\ \A u \in IOThread : ses[u] # r
    BY DEF IndInv, PoolAccounting
  <2> QED
    BY <1>2, <2>1, SessionAssumption DEF Only, InFlight
<1> QED
  BY <1>1, <1>3 DEF IndInv, PoolAccounting

\* The invariant is put together again after a handler's step.
LEMMA HandlerStep ==
  ASSUME IndInv, TypeOK', NEW t \in IOThread, NEW s \in Session, Only(t, s),
         ThreadOK(t)', ~crashed', PoolAccounting',
         mRefCount'[s] - Refs(t, s)' = mRefCount[s] - Refs(t, s),
         Connects(t, s)' <= Connects(t, s),
         Receives(t, s)' <= Receives(t, s),
         mRefCount[s] > 0 \/ Returning(t),
         Returning(t)' => mRefCount'[s] = 0
  PROVE  IndInv'
<1>1. \A u \in IOThread : ThreadOK(u)'
  BY OthersOK
<1>2. \A u \in IOThread : Returning(u) => ses[u] \in Session /\ mRefCount[ses[u]] = 0
  BY DEF IndInv, ReturnsOnce, ThreadOK, Returning, TypeOK
<1>3. \A u \in IOThread : Returning(u)' => ses'[u] \in Session
  BY <1>1 DEF ThreadOK, Returning, TypeOK
<1>4. \A u \in IOThread : u # t /\ Returning(u) => ses[u] # s
  <2> SUFFICES ASSUME NEW u \in IOThread, u # t, Returning(u), ses[u] = s PROVE FALSE
    OBVIOUS
  <2>1. Returning(t)
    BY <1>2
  <2>2. ses[t] = s
    BY <1>2, <2>1, SessionAssumption DEF Only
  <2> QED
    BY <2>1, <2>2 DEF IndInv, ReturnsOnce
<1>5. \A u \in IOThread : u # t => (Returning(u)' <=> Returning(u)) /\ ses'[u] = ses[u]
  BY DEF Only, Returning
<1>6. ReturnsOnce'
  <2>1. ASSUME NEW u \in IOThread, Returning(u)' PROVE mRefCount'[ses'[u]] = 0
    <3>1. CASE u = t
      BY <1>3, <2>1, <3>1, SessionAssumption DEF Only
    <3>2. CASE u # t
      BY <1>2, <1>4, <1>5, <2>1, <3>2 DEF Only
    <3> QED
      BY <3>1, <3>2
  <2>2. ASSUME NEW u \in IOThread, NEW v \in IOThread,
               Returning(u)', Returning(v)', ses'[u] = ses'[v]
        PROVE  u = v
    <3>1. Returning(t)' => ses'[t] = s
      BY <1>3, SessionAssumption DEF Only
    <3>2. CASE u = t \/ v = t
      BY <1>4, <1>5, <2>2, <3>1, <3>2
    <3>3. CASE u # t /\ v # t
      BY <1>5, <2>2, <3>3 DEF IndInv, ReturnsOnce
    <3> QED
      BY <3>2, <3>3
  <2> QED
    BY <2>1, <2>2 DEF ReturnsOnce
<1>7. RefCountExact' /\ ConnectOnce' /\ OneChain'
  BY SumsStep
<1> QED
  BY <1>1, <1>6, <1>7 DEF IndInv

-----------------------------------------------------------------------------
(* Steps that only move a thread, or take or give back a send lock.        *)

\* Only thread t moves.
Moves(t) ==
  \A u \in IOThread \ {t} :
    /\ pc'[u] = pc[u] /\ ses'[u] = ses[u] /\ kind'[u] = kind[u]
    /\ fresh'[u] = fresh[u] /\ back'[u] = back[u] /\ packets'[u] = packets[u]

\* Such a step keeps the invariant when t stays a handler, stays or does not
\* become a creator, and joins neither the connectors nor the chain.
LEMMA QuietStep ==
  ASSUME IndInv, NEW t \in IOThread, NEW s \in Session,
         ses[t] = s, ~Returning(t), ~Returning(t)',
         Moves(t), TypeOK', ThreadOK(t)',
         UNCHANGED <<mConnected, mRefCount, pending, poolVars, ses, issued, crashed>>,
         \A r \in Session, u \in IOThread \ {t} :
           mSendBufferLock'[r] = u <=> mSendBufferLock[r] = u,
         t \in Creators(s)' <=> t \in Creators(s),
         t \in Connectors(s)' => t \in Connectors(s),
         t \in Chain(s)' => t \in Chain(s)
  PROVE  IndInv'
<1>1. Only(t, s)
  BY DEF Only, Moves
<1>2. mRefCount[s] > 0
  BY HandledCounted
<1>3. PoolAccounting'
  <2>1. s \notin Free
    BY <1>2 DEF IndInv, PoolAccounting
  <2> QED
    BY <1>1, <2>1, PoolStep DEF poolVars
<1>4. \A S, T : (t \in S => t \in T) => Bit(t, S) <= Bit(t, T)
  BY DEF Bit
<1>5. /\ \A k \in IOType : pending[s][k] \in Nat
      /\ mConnected[s] \in Int /\ InFlight(s) \in Nat
  BY InFlightType DEF IndInv, TypeOK
<1>6. /\ \A S : Bit(t, S) \in Int
      /\ IssueRef(s)' = IssueRef(s) /\ IssueRef(s) \in Int
  BY DEF Bit, IssueRef
<1>7. Refs(t, s)' = Refs(t, s)
  <2>1. t \in Handlers(s) /\ t \in Handlers(s)'
    BY DEF Handlers, Returning
  <2>2. /\ Bit(t, Handlers(s)') = Bit(t, Handlers(s))
        /\ Bit(t, Creators(s)') = Bit(t, Creators(s))
    BY <2>1 DEF Bit
  <2> QED
    BY <2>2 DEF Refs, InFlight, IssueRef
<1>8. Connects(t, s)' <= Connects(t, s)
  <2>1. Bit(t, Connectors(s)') <= Bit(t, Connectors(s))
    BY <1>4
  <2> QED
    BY <1>5, <1>6, <2>1 DEF Connects, IOType
<1>9. Receives(t, s)' <= Receives(t, s)
  <2>1. Bit(t, Chain(s)') <= Bit(t, Chain(s))
    BY <1>4
  <2> QED
    BY <1>5, <1>6, <2>1 DEF Receives, IOType
<1> QED
  BY <1>1, <1>2, <1>3, <1>7, <1>8, <1>9, RefsCounted, HandlerStep DEF IndInv

\* What the invariant knows of a thread that has a context.
LEMMA Busy ==
  ASSUME IndInv, NEW t \in IOThread, pc[t] # "idle"
  PROVE  /\ ses[t] \in Session /\ kind[t] \in IOType
         /\ ThreadOK(t) /\ TypeOK
         /\ \A r \in Session : mSendBufferLock[r] = t => ses[t] = r
  BY DEF IndInv, TypeOK, ThreadOK

LEMMA AcceptSetupStep ==
  ASSUME IndInv, NEW t \in IOThread, NEW ok \in BOOLEAN, AcceptSetup(t, ok)
  PROVE  IndInv'
<1> DEFINE s == ses[t]
<1>1. s \in Session /\ kind[t] \in IOType /\ ThreadOK(t) /\ TypeOK
  BY Busy DEF AcceptSetup
<1>2. TypeOK'
  BY <1>1 DEF AcceptSetup, Goto, Local, TypeOK, sessionVars, poolVars, IOType,
     Label
<1>3. Moves(t)
  BY <1>1 DEF AcceptSetup, Goto, Local, TypeOK, Moves
<1>4. ThreadOK(t)'
  BY <1>1, ThreadAssumption DEF AcceptSetup, Goto, Local, ThreadOK, TypeOK,
     sessionVars, Creating, Returning, RecvTypes, CallOf
<1>5. /\ ~Returning(t) /\ ~Returning(t)'
      /\ t \in Creators(s)' <=> t \in Creators(s)
      /\ t \in Connectors(s)' => t \in Connectors(s)
      /\ t \in Chain(s)' => t \in Chain(s)
  BY <1>1, ThreadAssumption DEF AcceptSetup, Goto, Local, ThreadOK, TypeOK,
     sessionVars, Creating, Returning, RecvTypes, Creators, Connectors, Chain,
     InChain
<1>6. \A r \in Session, u \in IOThread \ {t} :
        mSendBufferLock'[r] = u <=> mSendBufferLock[r] = u
  BY <1>1, ThreadAssumption DEF AcceptSetup, Goto, Local, ThreadOK, TypeOK,
     sessionVars
<1> HIDE DEF s
<1> QED
  BY <1>1, <1>2, <1>3, <1>4, <1>5, <1>6, QuietStep DEF AcceptSetup, Goto,
     Local, sessionVars, s

LEMMA SubscribeStep ==
  ASSUME IndInv, NEW t \in IOThread, Subscribe(t)
  PROVE  IndInv'
<1> DEFINE s == ses[t]
<1>1. s \in Session /\ kind[t] \in IOType /\ ThreadOK(t) /\ TypeOK
  BY Busy DEF Subscribe
<1>2. TypeOK'
  BY <1>1 DEF Subscribe, Goto, Local, TypeOK, sessionVars, poolVars, IOType,
     Label
<1>3. Moves(t)
  BY <1>1 DEF Subscribe, Goto, Local, TypeOK, Moves
<1>4. ThreadOK(t)'
  BY <1>1, ThreadAssumption DEF Subscribe, Goto, Local, ThreadOK, TypeOK,
     sessionVars, Creating, Returning, RecvTypes, CallOf
<1>5. /\ ~Returning(t) /\ ~Returning(t)'
      /\ t \in Creators(s)' <=> t \in Creators(s)
      /\ t \in Connectors(s)' => t \in Connectors(s)
      /\ t \in Chain(s)' => t \in Chain(s)
  BY <1>1, ThreadAssumption DEF Subscribe, Goto, Local, ThreadOK, TypeOK,
     sessionVars, Creating, Returning, RecvTypes, Creators, Connectors, Chain,
     InChain
<1>6. \A r \in Session, u \in IOThread \ {t} :
        mSendBufferLock'[r] = u <=> mSendBufferLock[r] = u
  BY <1>1, ThreadAssumption DEF Subscribe, Goto, Local, ThreadOK, TypeOK,
     sessionVars
<1> HIDE DEF s
<1> QED
  BY <1>1, <1>2, <1>3, <1>4, <1>5, <1>6, QuietStep DEF Subscribe, Goto, Local,
     sessionVars, s

LEMMA PreRecvStep ==
  ASSUME IndInv, NEW t \in IOThread, PreRecv(t)
  PROVE  IndInv'
<1> DEFINE s == ses[t]
<1>1. s \in Session /\ kind[t] \in IOType /\ ThreadOK(t) /\ TypeOK
  BY Busy DEF PreRecv
<1>2. TypeOK'
  BY <1>1 DEF PreRecv, CreateIf, Goto, Local, AfterRefusedRecv, TypeOK,
     sessionVars, poolVars, IOType, Label
<1>3. Moves(t)
  BY <1>1 DEF PreRecv, CreateIf, Goto, Local, AfterRefusedRecv, TypeOK, Moves
<1>4. ThreadOK(t)'
  BY <1>1, ThreadAssumption DEF PreRecv, CreateIf, Goto, Local,
     AfterRefusedRecv, ThreadOK, TypeOK, sessionVars, Creating, Returning,
     RecvTypes, CallOf
<1>5. /\ ~Returning(t) /\ ~Returning(t)'
      /\ t \in Creators(s)' <=> t \in Creators(s)
      /\ t \in Connectors(s)' => t \in Connectors(s)
      /\ t \in Chain(s)' => t \in Chain(s)
  BY <1>1, ThreadAssumption DEF PreRecv, CreateIf, Goto, Local,
     AfterRefusedRecv, ThreadOK, TypeOK, sessionVars, Creating, Returning,
     RecvTypes, Creators, Connectors, Chain, InChain
<1>6. \A r \in Session, u \in IOThread \ {t} :
        mSendBufferLock'[r] = u <=> mSendBufferLock[r] = u
  BY <1>1, ThreadAssumption DEF PreRecv, CreateIf, Goto, Local,
     AfterRefusedRecv, ThreadOK, TypeOK, sessionVars
<1> HIDE DEF s
<1> QED
  BY <1>1, <1>2, <1>3, <1>4, <1>5, <1>6, QuietStep DEF PreRecv, CreateIf,
     Goto, Local, AfterRefusedRecv, sessionVars, s

LEMMA PostRecvStep ==
  ASSUME IndInv, NEW t \in IOThread, NEW full \in BOOLEAN, PostRecv(t, full)
  PROVE  IndInv'
<1> DEFINE s == ses[t]
<1>1. s \in Session /\ kind[t] \in IOType /\ ThreadOK(t) /\ TypeOK
  BY Busy DEF PostRecv
<1>2. TypeOK'
  BY <1>1 DEF PostRecv, CreateIf, Goto, Local, AfterRefusedRecv, TypeOK,
     sessionVars, poolVars, IOType, Label
<1>3. Moves(t)
  BY <1>1 DEF PostRecv, CreateIf, Goto, Local, AfterRefusedRecv, TypeOK, Moves
<1>4. ThreadOK(t)'
  BY <1>1, ThreadAssumption DEF PostRecv, CreateIf, Goto, Local,
     AfterRefusedRecv, ThreadOK, TypeOK, sessionVars, Creating, Returning,
     RecvTypes, CallOf
<1>5. /\ ~Returning(t) /\ ~Returning(t)'
      /\ t \in Creators(s)' <=> t \in Creators(s)
      /\ t \in Connectors(s)' => t \in Connectors(s)
      /\ t \in Chain(s)' => t \in Chain(s)
  BY <1>1, ThreadAssumption DEF PostRecv, CreateIf, Goto, Local,
     AfterRefusedRecv, ThreadOK, TypeOK, sessionVars, Creating, Returning,
     RecvTypes, Creators, Connectors, Chain, InChain
<1>6. \A r \in Session, u \in IOThread \ {t} :
        mSendBufferLock'[r] = u <=> mSendBufferLock[r] = u
  BY <1>1, ThreadAssumption DEF PostRecv, CreateIf, Goto, Local,
     AfterRefusedRecv, ThreadOK, TypeOK, sessionVars
<1> HIDE DEF s
<1> QED
  BY <1>1, <1>2, <1>3, <1>4, <1>5, <1>6, QuietStep DEF PostRecv, CreateIf,
     Goto, Local, AfterRefusedRecv, sessionVars, s

LEMMA IssueFailsStep ==
  ASSUME IndInv, NEW t \in IOThread, IssueFails(t)
  PROVE  IndInv'
<1> DEFINE s == ses[t]
<1>1. s \in Session /\ kind[t] \in IOType /\ ThreadOK(t) /\ TypeOK
  BY Busy DEF IssueFails
<1>2. TypeOK'
  BY <1>1 DEF IssueFails, Goto, Local, TypeOK, sessionVars, poolVars, IOType,
     Label
<1>3. Moves(t)
  BY <1>1 DEF IssueFails, Goto, Local, TypeOK, Moves
<1>4. ThreadOK(t)'
  BY <1>1, ThreadAssumption DEF IssueFails, Goto, Local, ThreadOK, TypeOK,
     sessionVars, Creating, Returning, RecvTypes, CallOf
<1>5. /\ ~Returning(t) /\ ~Returning(t)'
      /\ t \in Creators(s)' <=> t \in Creators(s)
      /\ t \in Connectors(s)' => t \in Connectors(s)
      /\ t \in Chain(s)' => t \in Chain(s)
  BY <1>1, ThreadAssumption DEF IssueFails, Goto, Local, ThreadOK, TypeOK,
     sessionVars, Creating, Returning, RecvTypes, Creators, Connectors, Chain,
     InChain
<1>6. \A r \in Session, u \in IOThread \ {t} :
        mSendBufferLock'[r] = u <=> mSendBufferLock[r] = u
  BY <1>1, ThreadAssumption DEF IssueFails, Goto, Local, ThreadOK, TypeOK,
     sessionVars
<1> HIDE DEF s
<1> QED
  BY <1>1, <1>2, <1>3, <1>4, <1>5, <1>6, QuietStep DEF IssueFails, Goto,
     Local, sessionVars, s

LEMMA HandlePacketStep ==
  ASSUME IndInv, NEW t \in IOThread, NEW call \in {"send", "disconnect"}, HandlePacket(t, call)
  PROVE  IndInv'
<1> DEFINE s == ses[t]
<1>1. s \in Session /\ kind[t] \in IOType /\ ThreadOK(t) /\ TypeOK
  BY Busy DEF HandlePacket
<1>2. TypeOK'
  <2>1. packets[t] - 1 \in 0 .. (MaxPackets + 1)
    BY <1>1, BoundAssumption DEF TypeOK, HandlePacket
  <2> QED
    BY <1>1, <2>1 DEF HandlePacket, Goto, TypeOK, sessionVars, poolVars, IOType, Label
<1>3. Moves(t)
  BY <1>1 DEF HandlePacket, Goto, TypeOK, Moves
<1>4. ThreadOK(t)'
  BY <1>1, ThreadAssumption DEF HandlePacket, Goto, ThreadOK, TypeOK,
     sessionVars, Creating, Returning, RecvTypes, CallOf
<1>5. /\ ~Returning(t) /\ ~Returning(t)'
      /\ t \in Creators(s)' <=> t \in Creators(s)
      /\ t \in Connectors(s)' => t \in Connectors(s)
      /\ t \in Chain(s)' => t \in Chain(s)
  BY <1>1, ThreadAssumption DEF HandlePacket, Goto, ThreadOK, TypeOK,
     sessionVars, Creating, Returning, RecvTypes, Creators, Connectors, Chain,
     InChain
<1>6. \A r \in Session, u \in IOThread \ {t} :
        mSendBufferLock'[r] = u <=> mSendBufferLock[r] = u
  BY <1>1, ThreadAssumption DEF HandlePacket, Goto, ThreadOK, TypeOK,
     sessionVars
<1> HIDE DEF s
<1> QED
  BY <1>1, <1>2, <1>3, <1>4, <1>5, <1>6, QuietStep DEF HandlePacket, Goto,
     sessionVars, s

LEMMA ParseEndStep ==
  ASSUME IndInv, NEW t \in IOThread, ParseEnd(t)
  PROVE  IndInv'
<1> DEFINE s == ses[t]
<1>1. s \in Session /\ kind[t] \in IOType /\ ThreadOK(t) /\ TypeOK
  BY Busy DEF ParseEnd
<1>2. TypeOK'
  <2>1. 0 \in 0 .. (MaxPackets + 1)
    BY <1>1, BoundAssumption DEF TypeOK, ParseEnd
  <2> QED
    BY <1>1, <2>1 DEF ParseEnd, Goto, TypeOK, sessionVars, poolVars, IOType, Label
<1>3. Moves(t)
  BY <1>1 DEF ParseEnd, Goto, TypeOK, Moves
<1>4. ThreadOK(t)'
  BY <1>1, ThreadAssumption DEF ParseEnd, Goto, ThreadOK, TypeOK, sessionVars,
     Creating, Returning, RecvTypes, CallOf
<1>5. /\ ~Returning(t) /\ ~Returning(t)'
      /\ t \in Creators(s)' <=> t \in Creators(s)
      /\ t \in Connectors(s)' => t \in Connectors(s)
      /\ t \in Chain(s)' => t \in Chain(s)
  BY <1>1, ThreadAssumption DEF ParseEnd, Goto, ThreadOK, TypeOK, sessionVars,
     Creating, Returning, RecvTypes, Creators, Connectors, Chain, InChain
<1>6. \A r \in Session, u \in IOThread \ {t} :
        mSendBufferLock'[r] = u <=> mSendBufferLock[r] = u
  BY <1>1, ThreadAssumption DEF ParseEnd, Goto, ThreadOK, TypeOK, sessionVars
<1> HIDE DEF s
<1> QED
  BY <1>1, <1>2, <1>3, <1>4, <1>5, <1>6, QuietStep DEF ParseEnd, Goto,
     sessionVars, s

LEMMA BeginSendStep ==
  ASSUME IndInv, NEW t \in IOThread, NEW empty \in BOOLEAN, BeginSend(t, empty)
  PROVE  IndInv'
<1> DEFINE s == ses[t]
<1>1. s \in Session /\ kind[t] \in IOType /\ ThreadOK(t) /\ TypeOK
  BY Busy DEF BeginSend
<1>2. TypeOK'
  BY <1>1, BoundAssumption, SMTT(30) DEF BeginSend, Goto, Local, AfterSend, TypeOK, sessionVars,
     poolVars, IOType, Label
<1>3. Moves(t)
  BY <1>1 DEF BeginSend, Goto, Local, AfterSend, TypeOK, Moves
<1>4. ThreadOK(t)'
  BY <1>1, ThreadAssumption DEF BeginSend, Goto, Local, AfterSend, ThreadOK,
     TypeOK, sessionVars, Creating, Returning, RecvTypes, CallOf
<1>5. /\ ~Returning(t) /\ ~Returning(t)'
      /\ t \in Creators(s)' <=> t \in Creators(s)
      /\ t \in Connectors(s)' => t \in Connectors(s)
      /\ t \in Chain(s)' => t \in Chain(s)
  BY <1>1, ThreadAssumption DEF BeginSend, Goto, Local, AfterSend, ThreadOK,
     TypeOK, sessionVars, Creating, Returning, RecvTypes, Creators,
     Connectors, Chain, InChain
<1>6. \A r \in Session, u \in IOThread \ {t} :
        mSendBufferLock'[r] = u <=> mSendBufferLock[r] = u
  BY <1>1, ThreadAssumption DEF BeginSend, Goto, Local, AfterSend, ThreadOK,
     TypeOK, sessionVars
<1> HIDE DEF s
<1> QED
  BY <1>1, <1>2, <1>3, <1>4, <1>5, <1>6, QuietStep DEF BeginSend, Goto, Local,
     AfterSend, sessionVars, s

LEMMA SendLockStep ==
  ASSUME IndInv, NEW t \in IOThread, NEW full \in BOOLEAN, SendLock(t, full)
  PROVE  IndInv'
<1> DEFINE s == ses[t]
<1>1. s \in Session /\ kind[t] \in IOType /\ ThreadOK(t) /\ TypeOK
  BY Busy DEF SendLock
<1>2. TypeOK'
  BY <1>1 DEF SendLock, CreateIf, Goto, Local, TypeOK, sessionVars, poolVars,
     IOType, Label
<1>3. Moves(t)
  BY <1>1 DEF SendLock, CreateIf, Goto, Local, TypeOK, Moves
<1>4. ThreadOK(t)'
  BY <1>1, ThreadAssumption DEF SendLock, CreateIf, Goto, Local, ThreadOK,
     TypeOK, sessionVars, Creating, Returning, RecvTypes, CallOf
<1>5. /\ ~Returning(t) /\ ~Returning(t)'
      /\ t \in Creators(s)' <=> t \in Creators(s)
      /\ t \in Connectors(s)' => t \in Connectors(s)
      /\ t \in Chain(s)' => t \in Chain(s)
  BY <1>1, ThreadAssumption DEF SendLock, CreateIf, Goto, Local, ThreadOK,
     TypeOK, sessionVars, Creating, Returning, RecvTypes, Creators,
     Connectors, Chain, InChain
<1>6. \A r \in Session, u \in IOThread \ {t} :
        mSendBufferLock'[r] = u <=> mSendBufferLock[r] = u
  BY <1>1, ThreadAssumption DEF SendLock, CreateIf, Goto, Local, ThreadOK,
     TypeOK, sessionVars
<1> HIDE DEF s
<1> QED
  BY <1>1, <1>2, <1>3, <1>4, <1>5, <1>6, QuietStep DEF SendLock, CreateIf,
     Goto, Local, sessionVars, s

LEMMA SendUnlockStep ==
  ASSUME IndInv, NEW t \in IOThread, SendUnlock(t)
  PROVE  IndInv'
<1> DEFINE s == ses[t]
<1>1. s \in Session /\ kind[t] \in IOType /\ ThreadOK(t) /\ TypeOK
  BY Busy DEF SendUnlock
<1>2. TypeOK'
  BY <1>1, SMTT(30) DEF SendUnlock, Goto, Local, AfterSend, TypeOK, sessionVars,
     poolVars, IOType, Label
<1>3. Moves(t)
  BY <1>1 DEF SendUnlock, Goto, Local, AfterSend, TypeOK, Moves
<1>4. ThreadOK(t)'
  BY <1>1, ThreadAssumption DEF SendUnlock, Goto, Local, AfterSend, ThreadOK,
     TypeOK, sessionVars, Creating, Returning, RecvTypes, CallOf
<1>5. /\ ~Returning(t) /\ ~Returning(t)'
      /\ t \in Creators(s)' <=> t \in Creators(s)
      /\ t \in Connectors(s)' => t \in Connectors(s)
      /\ t \in Chain(s)' => t \in Chain(s)
  BY <1>1, ThreadAssumption DEF SendUnlock, Goto, Local, AfterSend, ThreadOK,
     TypeOK, sessionVars, Creating, Returning, RecvTypes, Creators,
     Connectors, Chain, InChain
<1>6. \A r \in Session, u \in IOThread \ {t} :
        mSendBufferLock'[r] = u <=> mSendBufferLock[r] = u
  BY <1>1, ThreadAssumption DEF SendUnlock, Goto, Local, AfterSend, ThreadOK,
     TypeOK, sessionVars
<1> HIDE DEF s
<1> QED
  BY <1>1, <1>2, <1>3, <1>4, <1>5, <1>6, QuietStep DEF SendUnlock, Goto,
     Local, AfterSend, sessionVars, s

LEMMA SendCompletionStep ==
  ASSUME IndInv, NEW t \in IOThread, NEW partial \in BOOLEAN, SendCompletion(t, partial)
  PROVE  IndInv'
<1> DEFINE s == ses[t]
<1>1. s \in Session /\ kind[t] \in IOType /\ ThreadOK(t) /\ TypeOK
  BY Busy DEF SendCompletion
<1>2. TypeOK'
  BY <1>1 DEF SendCompletion, Goto, Local, TypeOK, sessionVars, poolVars,
     IOType, Label
<1>3. Moves(t)
  BY <1>1 DEF SendCompletion, Goto, Local, TypeOK, Moves
<1>4. ThreadOK(t)'
  BY <1>1, ThreadAssumption DEF SendCompletion, Goto, Local, ThreadOK, TypeOK,
     sessionVars, Creating, Returning, RecvTypes, CallOf
<1>5. /\ ~Returning(t) /\ ~Returning(t)'
      /\ t \in Creators(s)' <=> t \in Creators(s)
      /\ t \in Connectors(s)' => t \in Connectors(s)
      /\ t \in Chain(s)' => t \in Chain(s)
  BY <1>1, ThreadAssumption DEF SendCompletion, Goto, Local, ThreadOK, TypeOK,
     sessionVars, Creating, Returning, RecvTypes, Creators, Connectors, Chain,
     InChain
<1>6. \A r \in Session, u \in IOThread \ {t} :
        mSendBufferLock'[r] = u <=> mSendBufferLock[r] = u
  BY <1>1, ThreadAssumption DEF SendCompletion, Goto, Local, ThreadOK, TypeOK,
     sessionVars
<1> HIDE DEF s
<1> QED
  BY <1>1, <1>2, <1>3, <1>4, <1>5, <1>6, QuietStep DEF SendCompletion, Goto,
     Local, sessionVars, s

-----------------------------------------------------------------------------
(* Steps that count.                                                       *)

\* What the sums leave for one thread.
LEMMA SumsBound ==
  ASSUME IndInv, NEW t \in IOThread, NEW s \in Session
  PROVE  /\ Connects(t, s) \in Int /\ Connects(t, s) <= 0
         /\ Receives(t, s) \in Nat /\ Receives(t, s) <= 1
<1>1. /\ \A k \in IOType : pending[s][k] \in Nat
      /\ mConnected[s] \in {0, 1}
  <2>1. TypeOK
    BY DEF IndInv
  <2> QED
    BY <2>1 DEF TypeOK
<1>2. /\ Cardinality(Connectors(s)) \in Nat
      /\ Cardinality(Connectors(s)) >= Bit(t, Connectors(s))
      /\ Cardinality(Chain(s)) \in Nat
      /\ Cardinality(Chain(s)) >= Bit(t, Chain(s))
  <2>1. Connectors(s) \subseteq IOThread /\ Chain(s) \subseteq IOThread
    BY DEF Connectors, Chain
  <2> QED
    BY <2>1, CountMember DEF Bit
<1>3. IssueRef(s) \in {0, 1} /\ \A S : Bit(t, S) \in {0, 1}
  BY DEF Bit, IssueRef
<1>4. pending[s]["IO_ACCEPT"] + mConnected[s] + pending[s]["IO_DISCONNECT"]
        + Cardinality(Connectors(s)) <= IssueRef(s)
  BY DEF IndInv, ConnectOnce
<1>5. pending[s]["IO_ACCEPT"] + pending[s]["IO_RECV_ZERO"] + pending[s]["IO_RECV"]
        + Cardinality(Chain(s)) <= 1
  BY DEF IndInv, OneChain
<1>6. Connects(t, s) \in Int /\ Connects(t, s) <= 0
  BY <1>1, <1>2, <1>3, <1>4 DEF Connects, IOType
<1>7. Receives(t, s) \in Nat /\ Receives(t, s) <= 1
  BY <1>1, <1>2, <1>3, <1>5 DEF Receives, IOType
<1> QED
  BY <1>6, <1>7

\* The number of contributions, as integers.
LEMMA BitType == \A t, S : Bit(t, S) \in {0, 1} /\ (Bit(t, S) = 1 <=> t \in S)
  BY DEF Bit

\* Where DisconnectRequest goes back to.
LEMMA AfterDisconnectLabel ==
  ASSUME TypeOK, NEW t \in IOThread
  PROVE  /\ packets[t] \in Nat
         /\ AfterDisconnect(t) = IF mSendBufferLock[ses[t]] = t THEN "unlock"
                                 ELSE IF packets[t] > 0 THEN "parse" ELSE "finish"
<1>1. packets[t] \in Nat
  BY BoundAssumption DEF TypeOK
<1> QED
  BY <1>1 DEF AfterDisconnect

\* AcceptCompletion finds the session unconnected: t itself is the one that
\* connects it.
LEMMA AcceptCompletionStep ==
  ASSUME IndInv, NEW t \in IOThread, NEW s \in Session, ses[t] = s, AcceptCompletion(t)
  PROVE  IndInv'
<1>1. kind[t] \in IOType /\ ThreadOK(t) /\ TypeOK
  BY Busy DEF AcceptCompletion
<1>2. TypeOK'
  BY <1>1 DEF AcceptCompletion, Goto, Local, TypeOK, poolVars, IOType, Label
<1>3. Only(t, s)
  BY <1>1 DEF AcceptCompletion, Goto, Local, TypeOK, Only
<1>4. ThreadOK(t)'
  BY <1>1, ThreadAssumption DEF AcceptCompletion, Goto, Local, ThreadOK, TypeOK,
     Creating, Returning, RecvTypes, CallOf
<1>5. ~Returning(t) /\ ~Returning(t)'
  BY <1>1 DEF AcceptCompletion, Goto, TypeOK, Returning
<1>6. mRefCount[s] > 0 /\ PoolAccounting'
  <2>1. mRefCount[s] > 0
    BY <1>1, <1>5, HandledCounted
  <2>2. s \notin Free
    BY <2>1 DEF IndInv, PoolAccounting
  <2> QED
    BY <1>1, <1>3, <2>1, <2>2, PoolStep DEF AcceptCompletion, Local, poolVars
<1>7. /\ t \in Handlers(s) /\ t \in Handlers(s)'
      /\ t \notin Creators(s) /\ t \notin Creators(s)'
      /\ t \in Connectors(s) /\ t \notin Connectors(s)'
      /\ t \in Chain(s) /\ t \in Chain(s)'
  BY <1>1 DEF AcceptCompletion, Goto, Local, TypeOK, ThreadOK, Creating, RecvTypes,
     Handlers, Creators, Connectors, Chain, InChain
<1>8. IssueRef(s) \in {0, 1} /\ \A k \in IOType : pending[s][k] \in Nat
  BY <1>1 DEF TypeOK, IssueRef
<1>9. mConnected[s] = 0 /\ mConnected'[s] = 1 /\ pending' = pending /\ mRefCount' = mRefCount
      /\ issued' = issued /\ IssueRef(s)' = IssueRef(s)
  <2>1. mConnected[s] \in {0, 1}
    BY <1>1 DEF TypeOK
  <2>2. Connects(t, s) <= 0
    BY <1>1, SumsBound
  <2>3. Bit(t, Connectors(s)) = 1
    BY <1>7 DEF Bit
  <2>4. mConnected[s] = 0
    BY <1>8, <2>1, <2>2, <2>3 DEF Connects, IOType
  <2> QED
    BY <1>1, <2>4 DEF AcceptCompletion, Local, TypeOK, IssueRef
<1>10. ~crashed'
  <2>1. ~(mConnected[ses[t]] = 1)
    BY <1>9
  <2> QED
    BY <2>1 DEF AcceptCompletion
<1>11. Connects(t, s)' <= Connects(t, s)
  BY <1>7, <1>8, <1>9 DEF Connects, Bit, IOType
<1>12. Receives(t, s)' <= Receives(t, s)
  BY <1>7, <1>8, <1>9 DEF Receives, Bit, IOType
<1>13. Refs(t, s)' = Refs(t, s)
  BY <1>7, <1>9 DEF Refs, Bit, InFlight
<1> QED
  BY <1>1, <1>2, <1>3, <1>4, <1>5, <1>6, <1>9, <1>10, <1>11, <1>12, <1>13, HandlerStep

\* NewContext: AddRef, and t is a creator from here on.
LEMMA NewContextStep ==
  ASSUME IndInv, NEW t \in IOThread, NEW s \in Session, ses[t] = s, NewContext(t)
  PROVE  IndInv'
<1>1. kind[t] \in IOType /\ ThreadOK(t) /\ TypeOK
  BY Busy DEF NewContext
<1>2. TypeOK'
  BY <1>1 DEF NewContext, Goto, Local, TypeOK, poolVars, IOType, Label
<1>3. Only(t, s)
  BY <1>1 DEF NewContext, Goto, Local, TypeOK, Only
<1>4. ThreadOK(t)'
  BY <1>1, ThreadAssumption DEF NewContext, Goto, Local, ThreadOK, TypeOK,
     Creating, Returning, RecvTypes, CallOf
<1>5. ~Returning(t) /\ ~Returning(t)'
  BY <1>1 DEF NewContext, Goto, TypeOK, Returning
<1>6. mRefCount[s] > 0 /\ PoolAccounting'
  <2>1. mRefCount[s] > 0
    BY <1>1, <1>5, HandledCounted
  <2>2. s \notin Free
    BY <2>1 DEF IndInv, PoolAccounting
  <2> QED
    BY <1>1, <1>3, <2>1, <2>2, PoolStep DEF NewContext, Local, poolVars
<1>7. /\ t \in Handlers(s) /\ t \in Handlers(s)'
      /\ t \notin Creators(s) /\ t \in Creators(s)'
      /\ t \in Connectors(s)' <=> t \in Connectors(s)
      /\ t \in Chain(s)' <=> t \in Chain(s)
  BY <1>1 DEF NewContext, Goto, Local, TypeOK, ThreadOK, Creating, RecvTypes,
     Handlers, Creators, Connectors, Chain, InChain
<1>8. /\ mRefCount'[s] = mRefCount[s] + 1 /\ mRefCount[s] \in Int
      /\ mConnected' = mConnected /\ pending' = pending /\ IssueRef(s)' = IssueRef(s)
      /\ IssueRef(s) \in {0, 1} /\ mConnected[s] \in {0, 1}
      /\ InFlight(s) \in Nat /\ \A k \in IOType : pending[s][k] \in Nat
  BY <1>1, InFlightType DEF NewContext, Local, TypeOK, IssueRef
<1>9. ~crashed'
  <2>1. mRefCount[ses[t]] + 1 > 0
    BY <1>6, <1>8
  <2> QED
    BY <2>1 DEF NewContext
<1>10. Connects(t, s)' <= Connects(t, s)
  BY <1>7, <1>8 DEF Connects, Bit, IOType
<1>11. Receives(t, s)' <= Receives(t, s)
  BY <1>7, <1>8 DEF Receives, Bit, IOType
<1>12. InFlight(s)' = InFlight(s)
  BY <1>8 DEF InFlight
<1>13. mRefCount'[s] - Refs(t, s)' = mRefCount[s] - Refs(t, s)
  BY <1>7, <1>8, <1>12 DEF Refs, Bit
<1> QED
  BY <1>1, <1>2, <1>3, <1>4, <1>5, <1>6, <1>9, <1>10, <1>11, <1>13, HandlerStep

\* DisconnectRequest: the thread that finds mConnected set takes over from it.
LEMMA DisconnectRequestStep ==
  ASSUME IndInv, NEW t \in IOThread, NEW s \in Session, ses[t] = s, DisconnectRequest(t)
  PROVE  IndInv'
<1>1. kind[t] \in IOType /\ ThreadOK(t) /\ TypeOK
  BY Busy DEF DisconnectRequest
<1>2. TypeOK'
  <2>1. AfterDisconnect(t) \in {"unlock", "parse", "finish"}
    BY <1>1, AfterDisconnectLabel
  <2> QED
    BY <1>1, <2>1 DEF DisconnectRequest, CreateIf, Goto, Local, TypeOK, poolVars,
       IOType, Label
<1>3. Only(t, s)
  BY <1>1 DEF DisconnectRequest, CreateIf, Goto, Local, TypeOK, Only
<1>4. ThreadOK(t)'
  BY <1>1, ThreadAssumption DEF DisconnectRequest, CreateIf, Goto, Local,
     AfterDisconnect, ThreadOK, TypeOK, Creating, Returning, RecvTypes, CallOf
<1>5. ~Returning(t) /\ ~Returning(t)'
  BY <1>1 DEF DisconnectRequest, CreateIf, Goto, AfterDisconnect, TypeOK, Returning
<1>6. mRefCount[s] > 0 /\ PoolAccounting'
  <2>1. mRefCount[s] > 0
    BY <1>1, <1>5, HandledCounted
  <2>2. s \notin Free
    BY <2>1 DEF IndInv, PoolAccounting
  <2> QED
    BY <1>1, <1>3, <2>1, <2>2, PoolStep DEF DisconnectRequest, Local, poolVars
<1>7. /\ t \in Handlers(s) /\ t \in Handlers(s)'
      /\ t \notin Creators(s) /\ t \notin Creators(s)'
      /\ t \notin Connectors(s)
      /\ t \in Connectors(s)' <=> mConnected[s] = 1
      /\ t \in Chain(s)' => t \in Chain(s)
  BY <1>1 DEF DisconnectRequest, CreateIf, Goto, Local, AfterDisconnect, TypeOK,
     ThreadOK, Creating, RecvTypes, Handlers, Creators, Connectors, Chain, InChain
<1>8. /\ mRefCount' = mRefCount /\ mConnected[s] \in {0, 1} /\ mConnected'[s] = 0
      /\ pending' = pending /\ IssueRef(s)' = IssueRef(s) /\ IssueRef(s) \in {0, 1}
      /\ InFlight(s) \in Nat /\ \A k \in IOType : pending[s][k] \in Nat
  BY <1>1, InFlightType DEF DisconnectRequest, Local, TypeOK, IssueRef
<1>9. ~crashed'
  BY DEF DisconnectRequest, IndInv
<1>10. Connects(t, s)' <= Connects(t, s)
  BY <1>7, <1>8 DEF Connects, Bit, IOType
<1>11. Receives(t, s)' <= Receives(t, s)
  BY <1>7, <1>8 DEF Receives, Bit, IOType
<1>12. Refs(t, s)' = Refs(t, s)
  BY <1>7, <1>8 DEF Refs, Bit, InFlight
<1> QED
  BY <1>1, <1>2, <1>3, <1>4, <1>5, <1>6, <1>8, <1>9, <1>10, <1>11, <1>12, HandlerStep

\* Where a thread goes after its fresh context is in flight, or could not be
\* posted.
LEMMA AfterPostLabel ==
  ASSUME TypeOK, NEW t \in IOThread, ThreadOK(t), pc[t] \in Creating
  PROVE  /\ fresh[t] \in {"IO_RECV", "IO_RECV_ZERO"} =>
              /\ AfterPost(t) \in {"subscribe", "finish"}
              /\ AfterPost(t) = "subscribe" => kind[t] = "IO_ACCEPT"
              /\ AfterFailedPost(t) =
                   IF kind[t] = "IO_ACCEPT" THEN "subscribe" ELSE "disconnect"
         /\ fresh[t] = "IO_SEND" =>
              AfterPost(t) = "unlock" /\ AfterFailedPost(t) = "disconnect"
         /\ fresh[t] = "IO_DISCONNECT" =>
              AfterPost(t) = AfterDisconnect(t) /\ AfterFailedPost(t) = AfterDisconnect(t)
         /\ fresh[t] \in {"IO_RECV", "IO_RECV_ZERO", "IO_SEND", "IO_DISCONNECT"}
         /\ AfterPost(t) \in {"subscribe", "finish", "unlock", "parse"}
         /\ AfterFailedPost(t) \in {"subscribe", "disconnect", "unlock", "parse", "finish"}
  BY AfterDisconnectLabel DEF ThreadOK, RecvTypes, AfterPost, AfterFailedPost, AfterRefusedRecv

\* IssueOk: the reference of the fresh context is one of a context in flight.
LEMMA IssueOkStep ==
  ASSUME IndInv, NEW t \in IOThread, NEW s \in Session, ses[t] = s, IssueOk(t)
  PROVE  IndInv'
<1>1. kind[t] \in IOType /\ ThreadOK(t) /\ TypeOK
  BY Busy DEF IssueOk
<1>0. PICK k, l : k = fresh[t] /\ l = AfterPost(t)
  OBVIOUS
<1>2. /\ k \in {"IO_RECV", "IO_RECV_ZERO", "IO_SEND", "IO_DISCONNECT"}
      /\ l \in {"subscribe", "finish", "unlock", "parse"}
      /\ k \in {"IO_RECV", "IO_RECV_ZERO"} =>
           l \in {"subscribe", "finish"} /\ (l = "subscribe" => kind[t] = "IO_ACCEPT")
      /\ k = "IO_SEND" => l = "unlock"
      /\ k = "IO_DISCONNECT" => l = IF mSendBufferLock[s] = t THEN "unlock"
                                    ELSE IF packets[t] > 0 THEN "parse" ELSE "finish"
      /\ packets[t] \in Nat
  BY <1>0, <1>1, AfterPostLabel, AfterDisconnectLabel DEF IssueOk, Creating
<1>3. /\ pending' \in [Session -> [IOType -> Nat]]
      /\ InFlight(s)' = InFlight(s) + 1
      /\ pending'[s][k] = pending[s][k] + 1
      /\ \A j \in IOType \ {k} : pending'[s][j] = pending[s][j]
      /\ \A r \in Session \ {s} : pending'[r] = pending[r]
  <2>1. k \in IOType
    BY <1>2 DEF IOType
  <2>2. InFlight(s) \in Nat /\ pending[s][k] \in Nat
    BY <1>1, <2>1, InFlightType
  <2>3. /\ pending' \in [Session -> [IOType -> Nat]]
        /\ pending'[s][k] = pending[s][k] + 1
        /\ \A j \in IOType \ {k} : pending'[s][j] = pending[s][j]
        /\ \A r \in Session \ {s} : pending'[r] = pending[r]
    BY <1>0, <1>1, <2>1, <2>2 DEF IssueOk, TypeOK
  <2>4. InFlight(s)' = InFlight(s) + pending'[s][k] - pending[s][k]
    BY <1>1, <2>1, <2>2, <2>3, InFlightStep
  <2> QED
    BY <2>2, <2>3, <2>4
<1>4. /\ InFlight(s) \in Nat /\ \A j \in IOType : pending[s][j] \in Nat
      /\ IssueRef(s) \in {0, 1} /\ IssueRef(s)' = IssueRef(s)
      /\ mConnected[s] \in {0, 1} /\ mConnected' = mConnected
      /\ mRefCount[s] \in Int /\ mRefCount' = mRefCount
  BY <1>1, InFlightType DEF IssueOk, Local, TypeOK, IssueRef
<1>5. /\ pc' = [pc EXCEPT ![t] = l] /\ fresh' = [fresh EXCEPT ![t] = "none"]
      /\ UNCHANGED <<mSendBufferLock, mLock, main, ses, kind, back, packets, issued, associated, crashed,
                     mFreeSessionList, mCurrentIssueCount, mCurrentReturnCount>>
      /\ pc[t] = "issue"
  BY <1>0 DEF IssueOk, Goto, Local, poolVars
<1>6. TypeOK'
  BY <1>1, <1>2, <1>3, <1>4, <1>5 DEF TypeOK, IOType, Label
<1>7. Only(t, s)
  BY <1>1, <1>3, <1>4, <1>5 DEF TypeOK, Only
<1>8. ThreadOK(t)'
  BY <1>0, <1>1, <1>2, <1>5, ThreadAssumption
  DEF ThreadOK, TypeOK, Creating, Returning, RecvTypes, CallOf
<1>9. ~Returning(t) /\ ~Returning(t)' /\ ~crashed'
  BY <1>1, <1>2, <1>5 DEF TypeOK, Returning, IndInv
<1>10. mRefCount[s] > 0 /\ PoolAccounting'
  <2>1. mRefCount[s] > 0
    BY <1>1, <1>9, HandledCounted
  <2>2. s \notin Free
    BY <2>1 DEF IndInv, PoolAccounting
  <2> QED
    BY <1>5, <1>7, <2>1, <2>2, PoolStep
<1>11. /\ t \in Handlers(s) /\ t \in Handlers(s)'
       /\ t \in Creators(s) /\ t \notin Creators(s)'
       /\ t \notin Connectors(s)' /\ (t \in Connectors(s) <=> k = "IO_DISCONNECT")
       /\ t \in Chain(s)' => t \in Chain(s)
       /\ k \in {"IO_RECV", "IO_RECV_ZERO"} => t \in Chain(s) /\ t \notin Chain(s)'
  BY <1>0, <1>1, <1>2, <1>5 DEF TypeOK, ThreadOK, Creating, RecvTypes, Handlers, Creators,
     Connectors, Chain, InChain
<1>12. Refs(t, s)' = Refs(t, s)
  BY <1>3, <1>4, <1>11 DEF Refs, Bit
<1>13. Connects(t, s)' = Connects(t, s)
  <2>1. Bit(t, Connectors(s)') = 0
    BY <1>11 DEF Bit
  <2>2. CASE k = "IO_DISCONNECT"
    <3>1. Bit(t, Connectors(s)) = 1
      BY <1>11, <2>2 DEF Bit
    <3> QED
      BY <1>3, <1>4, <2>1, <2>2, <3>1 DEF Connects, IOType
  <2>3. CASE k # "IO_DISCONNECT"
    <3>1. Bit(t, Connectors(s)) = 0
      BY <1>11, <2>3 DEF Bit
    <3> QED
      BY <1>2, <1>3, <1>4, <2>1, <2>3, <3>1 DEF Connects, IOType
  <2> QED
    BY <2>2, <2>3
<1>14. Receives(t, s)' <= Receives(t, s)
  <2>1. CASE k \in {"IO_RECV", "IO_RECV_ZERO"}
    <3>1. Bit(t, Chain(s)) = 1 /\ Bit(t, Chain(s)') = 0
      BY <1>11, <2>1 DEF Bit
    <3> QED
      BY <1>3, <1>4, <2>1, <3>1 DEF Receives, IOType
  <2>2. CASE k \notin {"IO_RECV", "IO_RECV_ZERO"}
    <3>1. Bit(t, Chain(s)') <= Bit(t, Chain(s)) /\ Bit(t, Chain(s)') \in Nat
          /\ Bit(t, Chain(s)) \in Nat
      BY <1>11 DEF Bit
    <3> QED
      BY <1>2, <1>3, <1>4, <2>2, <3>1 DEF Receives, IOType
  <2> QED
    BY <2>1, <2>2
<1>15. /\ mRefCount'[s] - Refs(t, s)' = mRefCount[s] - Refs(t, s)
       /\ Connects(t, s)' <= Connects(t, s)
  BY <1>1, <1>4, <1>12, <1>13, SumsBound
<1> QED
  BY <1>6, <1>7, <1>8, <1>9, <1>10, <1>14, <1>15, HandlerStep

\* GetQueuedCompletionStatus: the reference of a context in flight is one of
\* the thread that handles it.
LEMMA CompletionStep ==
  ASSUME IndInv, NEW t \in IOThread, NEW s \in Session, NEW k \in IOType,
         NEW ok \in BOOLEAN, GetQueuedCompletionStatus(t, s, k, ok)
  PROVE  IndInv'
<1>1. ThreadOK(t) /\ TypeOK
  BY DEF IndInv
<1>2. PICK l : /\ pc' = [pc EXCEPT ![t] = l]
               /\ l = CASE ~ok -> "disconnect"
                        [] ok /\ k = "IO_ACCEPT" -> "accept"
                        [] ok /\ k = "IO_RECV_ZERO" -> "postrecv"
                        [] ok /\ k = "IO_RECV" -> "parse"
                        [] ok /\ k = "IO_SEND" -> "sent"
                        [] ok /\ k = "IO_DISCONNECT" -> "disconnected"
                        [] ok /\ k = "CK_DB_RESULT" -> "send"
  BY DEF GetQueuedCompletionStatus, Goto
<1>3. /\ l \in {"accept", "postrecv", "parse", "sent", "disconnected", "send", "disconnect"}
      /\ l = "accept" <=> k = "IO_ACCEPT"
      /\ l = "disconnected" <=> k = "IO_DISCONNECT"
      /\ l = "postrecv" <=> k = "IO_RECV_ZERO"
      /\ l = "parse" <=> k = "IO_RECV" /\ ok
      /\ l = "send" <=> k = "CK_DB_RESULT"
  BY <1>2 DEF GetQueuedCompletionStatus, IOType
<1>4. PICK n \in 0 .. (MaxPackets + 1) :
        packets' = [packets EXCEPT ![t] = n] /\ (n > 0 => l = "parse")
  <2>1. PICK n : /\ packets' = [packets EXCEPT ![t] = n]
                 /\ n = IF ok /\ k = "IO_RECV" THEN MaxPackets + 1 ELSE 0
    BY DEF GetQueuedCompletionStatus
  <2>2. n \in 0 .. (MaxPackets + 1) /\ (n > 0 => l = "parse")
    BY <1>3, <2>1, BoundAssumption
  <2> QED
    BY <2>1, <2>2
<1>5. /\ pc[t] = "idle" /\ ses[t] = None /\ fresh[t] = "none"
      /\ \A r \in Session : mSendBufferLock[r] # t
  BY <1>1, SessionAssumption DEF GetQueuedCompletionStatus, ThreadOK, Creating
<1>6. /\ ses' = [ses EXCEPT ![t] = s] /\ kind' = [kind EXCEPT ![t] = k]
      /\ UNCHANGED <<mConnected, mRefCount, mSendBufferLock, mLock, main, fresh, back, crashed,
                     issued, associated, mFreeSessionList, mCurrentIssueCount, mCurrentReturnCount>>
  BY DEF GetQueuedCompletionStatus, poolVars
<1>7. /\ pending' \in [Session -> [IOType -> Nat]]
      /\ InFlight(s)' = InFlight(s) - 1
      /\ pending'[s][k] = pending[s][k] - 1 /\ pending[s][k] > 0
      /\ \A j \in IOType \ {k} : pending'[s][j] = pending[s][j]
      /\ \A r \in Session \ {s} : pending'[r] = pending[r]
  <2>1. InFlight(s) \in Nat /\ pending[s][k] \in Nat /\ pending[s][k] > 0
    BY <1>1, InFlightType DEF GetQueuedCompletionStatus
  <2>2. pending[s][k] - 1 \in Nat
    BY <2>1
  <2>3. /\ pending' \in [Session -> [IOType -> Nat]]
        /\ pending'[s][k] = pending[s][k] - 1
        /\ \A j \in IOType \ {k} : pending'[s][j] = pending[s][j]
        /\ \A r \in Session \ {s} : pending'[r] = pending[r]
    BY <1>1, <2>2 DEF GetQueuedCompletionStatus, TypeOK
  <2>4. InFlight(s)' = InFlight(s) + pending'[s][k] - pending[s][k]
    BY <1>1, <2>2, <2>3, InFlightStep
  <2> QED
    BY <2>1, <2>3, <2>4
<1>8. /\ InFlight(s) \in Nat /\ \A j \in IOType : pending[s][j] \in Nat
      /\ IssueRef(s) \in {0, 1} /\ IssueRef(s)' = IssueRef(s)
      /\ mConnected[s] \in {0, 1} /\ mRefCount[s] \in Int
  BY <1>1, <1>6, InFlightType DEF TypeOK, IssueRef
<1>9. TypeOK'
  BY <1>1, <1>3, <1>2, <1>4, <1>6, <1>7 DEF TypeOK, IOType, Label
<1>10. Only(t, s)
  BY <1>1, <1>2, <1>4, <1>5, <1>6, <1>7 DEF TypeOK, Only
<1>11. ThreadOK(t)'
  <2>1. k # "none" /\ s # None
    BY SessionAssumption DEF IOType
  <2>2. /\ pc'[t] = l /\ ses'[t] = s /\ kind'[t] = k /\ packets'[t] = n
        /\ fresh'[t] = "none" /\ \A r \in Session : mSendBufferLock'[r] # t
    BY <1>1, <1>2, <1>4, <1>5, <1>6 DEF TypeOK
  <2>3. n \in Nat
    BY BoundAssumption
  <2> QED
    BY <1>3, <1>4, <2>1, <2>2, <2>3 DEF ThreadOK, Creating, Returning, RecvTypes
<1>12. ~Returning(t)' /\ ~crashed'
  BY <1>1, <1>2, <1>3, <1>6 DEF TypeOK, Returning, IndInv
<1>13. mRefCount[s] > 0 /\ PoolAccounting'
  <2>1. mRefCount[s] > 0
    BY <1>7, PendingCounted
  <2>2. s \notin Free
    BY <2>1 DEF IndInv, PoolAccounting
  <2> QED
    BY <1>6, <1>10, <2>1, <2>2, PoolStep
<1>14. /\ t \notin Handlers(s) /\ t \in Handlers(s)'
       /\ t \notin Creators(s) /\ t \notin Creators(s)'
       /\ t \notin Connectors(s)
       /\ t \in Connectors(s)' <=> k \in {"IO_ACCEPT", "IO_DISCONNECT"}
       /\ t \notin Chain(s)
       /\ t \in Chain(s)' => k \in {"IO_ACCEPT", "IO_RECV_ZERO", "IO_RECV"}
  BY <1>1, <1>2, <1>3, <1>4, <1>5, <1>6, SessionAssumption
  DEF TypeOK, RecvTypes, Handlers, Creators, Connectors, Chain, InChain
<1>15. mRefCount'[s] - Refs(t, s)' = mRefCount[s] - Refs(t, s)
  <2>1. Refs(t, s)' = Refs(t, s)
    BY <1>7, <1>8, <1>14 DEF Refs, Bit
  <2> QED
    BY <1>6, <2>1
<1>16. Connects(t, s)' <= Connects(t, s)
  <2>1. Bit(t, Connectors(s)) = 0
    BY <1>14 DEF Bit
  <2>2. CASE k \in {"IO_ACCEPT", "IO_DISCONNECT"}
    <3>1. Bit(t, Connectors(s)') = 1
      BY <1>14, <2>2 DEF Bit
    <3> QED
      BY <1>6, <1>7, <1>8, <2>1, <2>2, <3>1 DEF Connects, IOType
  <2>3. CASE k \notin {"IO_ACCEPT", "IO_DISCONNECT"}
    <3>1. Bit(t, Connectors(s)') = 0
      BY <1>14, <2>3 DEF Bit
    <3> QED
      BY <1>6, <1>7, <1>8, <2>1, <2>3, <3>1 DEF Connects, IOType
  <2> QED
    BY <2>2, <2>3
<1>17. Receives(t, s)' <= Receives(t, s)
  <2>1. Bit(t, Chain(s)) = 0 /\ Bit(t, Chain(s)') \in {0, 1}
    BY <1>14 DEF Bit
  <2>2. CASE k \in {"IO_ACCEPT", "IO_RECV_ZERO", "IO_RECV"}
    BY <1>7, <1>8, <2>1, <2>2 DEF Receives, IOType
  <2>3. CASE k \notin {"IO_ACCEPT", "IO_RECV_ZERO", "IO_RECV"}
    <3>1. Bit(t, Chain(s)') = 0
      BY <1>14, <2>3 DEF Bit
    <3> QED
      BY <1>7, <1>8, <2>1, <2>3, <3>1 DEF Receives, IOType
  <2> QED
    BY <2>2, <2>3
<1> QED
  BY <1>9, <1>10, <1>11, <1>12, <1>13, <1>15, <1>16, <1>17, HandlerStep

\* ReleaseRef by DeleteIoContext for a context that could not be posted, and by
\* DisconnectCompletion for the issue: t still holds the reference of the
\* context that it handles, so the count does not reach 0.
LEMMA ReleaseEarlyStep ==
  ASSUME IndInv, NEW t \in IOThread, NEW s \in Session, ses[t] = s, ReleaseRef(t),
         pc[t] \in {"undo", "disconnected"}
  PROVE  IndInv'
<1>1. kind[t] \in IOType /\ ThreadOK(t) /\ TypeOK
  BY Busy
<1>2. /\ InFlight(s) \in Nat /\ \A j \in IOType : pending[s][j] \in Nat
      /\ IssueRef(s) \in {0, 1} /\ mConnected[s] \in {0, 1} /\ mRefCount[s] \in Int
  BY <1>1, InFlightType DEF TypeOK, IssueRef
<1>3. ~Returning(t) /\ t \in Handlers(s)
  BY DEF Returning, Handlers
<1>4. pc[t] = "disconnected" => t \in Connectors(s) /\ IssueRef(s) = 1
  <2> SUFFICES ASSUME pc[t] = "disconnected" PROVE t \in Connectors(s) /\ IssueRef(s) = 1
    OBVIOUS
  <2>1. t \in Connectors(s)
    BY DEF Connectors
  <2>2. Bit(t, Connectors(s)) = 1
    BY <2>1 DEF Bit
  <2>3. Connects(t, s) <= 0
    BY SumsBound
  <2> QED
    BY <1>2, <2>1, <2>2, <2>3 DEF Connects, IOType
<1>5. /\ t \in Creators(s) <=> pc[t] = "undo"
      /\ Bit(t, Handlers(s)) = 1
      /\ Bit(t, Creators(s)) = IF pc[t] = "undo" THEN 1 ELSE 0
  BY <1>3 DEF Creators, Bit
<1>6. mRefCount[s] >= 2
  <2>1. mRefCount[s] >= Refs(t, s)
    BY RefsCounted
  <2>2. Refs(t, s) >= 2
    <3>1. CASE pc[t] = "undo"
      BY <1>2, <1>5, <3>1 DEF Refs
    <3>2. CASE pc[t] = "disconnected"
      BY <1>2, <1>4, <1>5, <3>2 DEF Refs
    <3> QED
      BY <3>1, <3>2
  <2>3. Refs(t, s) \in Nat
    BY RefsCounted
  <2> QED
    BY <1>2, <2>1, <2>2, <2>3
<1>7. PICK l : l = AfterRelease(t)
  OBVIOUS
<1>8. /\ l \in {"subscribe", "disconnect", "unlock", "parse", "finish"}
      /\ pc[t] = "undo" /\ fresh[t] \in RecvTypes =>
           l = IF kind[t] = "IO_ACCEPT" THEN "subscribe" ELSE "disconnect"
      /\ pc[t] = "undo" /\ fresh[t] = "IO_SEND" => l = "disconnect"
      /\ pc[t] = "undo" /\ fresh[t] = "IO_DISCONNECT" =>
           l = IF mSendBufferLock[s] = t THEN "unlock"
               ELSE IF packets[t] > 0 THEN "parse" ELSE "finish"
      /\ pc[t] = "undo" => fresh[t] \in RecvTypes \union {"IO_SEND", "IO_DISCONNECT"}
      /\ pc[t] = "disconnected" => l = "finish"
      /\ packets[t] \in Nat
  <2>1. CASE pc[t] = "undo"
    <3>1. l = AfterFailedPost(t)
      BY <1>7, <2>1 DEF AfterRelease
    <3> QED
      BY <1>1, <2>1, <3>1, AfterPostLabel, AfterDisconnectLabel DEF Creating, RecvTypes
  <2>2. CASE pc[t] = "disconnected"
    BY <1>1, <1>7, <2>2, AfterDisconnectLabel DEF AfterRelease
  <2> QED
    BY <2>1, <2>2
<1>9. /\ pc' = [pc EXCEPT ![t] = l] /\ fresh' = [fresh EXCEPT ![t] = "none"]
      /\ UNCHANGED <<mConnected, mSendBufferLock, pending, mLock, main, ses, kind, back, packets,
                     associated, mFreeSessionList, mCurrentIssueCount, mCurrentReturnCount>>
  <2>1. mRefCount[ses[t]] - 1 # 0 /\ l # "idle"
    BY <1>2, <1>6, <1>8
  <2> QED
    BY <1>7, <2>1 DEF ReleaseRef, Resume, Goto, poolVars
<1>10. /\ mRefCount'[s] = mRefCount[s] - 1 /\ InFlight(s)' = InFlight(s)
       /\ IssueRef(s)' = IF pc[t] = "disconnected" THEN 0 ELSE IssueRef(s)
       /\ \A r \in Session \ {s} : mRefCount'[r] = mRefCount[r] /\ issued'[r] = issued[r]
       /\ mRefCount' \in [Session -> Int] /\ issued' \in [Session -> BOOLEAN]
  BY <1>1, <1>9 DEF ReleaseRef, TypeOK, IssueRef, InFlight
<1>11. ~crashed' /\ crashed' \in BOOLEAN
  <2>1. ~(mRefCount[ses[t]] - 1 < 0)
    BY <1>2, <1>6
  <2>2. ~crashed'
    BY <2>1 DEF ReleaseRef
  <2>3. crashed' \in BOOLEAN
    BY DEF ReleaseRef
  <2> QED
    BY <2>2, <2>3
<1>12. TypeOK'
  BY <1>1, <1>8, <1>9, <1>10, <1>11 DEF TypeOK, Label
<1>13. Only(t, s)
  BY <1>1, <1>9, <1>10 DEF TypeOK, Only
<1>14. ThreadOK(t)'
  BY <1>1, <1>8, <1>9, ThreadAssumption
  DEF ThreadOK, TypeOK, Creating, Returning, RecvTypes, CallOf
<1>15. PoolAccounting' /\ mRefCount[s] > 0
  <2>1. s \notin Free
    BY <1>6 DEF IndInv, PoolAccounting
  <2> QED
    BY <1>2, <1>6, <1>9, <1>13, <2>1, PoolStep
<1>16. /\ ~Returning(t)'
       /\ t \in Handlers(s)' /\ t \notin Creators(s)'
       /\ t \notin Connectors(s)'
       /\ t \in Chain(s)' => t \in Chain(s)
  BY <1>1, <1>8, <1>9 DEF TypeOK, ThreadOK, Creating, RecvTypes, Returning, Handlers,
     Creators, Connectors, Chain, InChain
<1>17. mRefCount'[s] - Refs(t, s)' = mRefCount[s] - Refs(t, s)
  <2>1. Bit(t, Handlers(s)') = 1 /\ Bit(t, Creators(s)') = 0
    BY <1>16 DEF Bit
  <2>2. Refs(t, s)' = Refs(t, s) - 1
    <3>1. CASE pc[t] = "undo"
      BY <1>2, <1>5, <1>10, <2>1, <3>1 DEF Refs
    <3>2. CASE pc[t] = "disconnected"
      BY <1>2, <1>4, <1>5, <1>10, <2>1, <3>2 DEF Refs
    <3> QED
      BY <3>1, <3>2
  <2> QED
    BY <1>2, <1>10, <2>2, RefsCounted
<1>18. Connects(t, s)' <= Connects(t, s)
  <2>1. Bit(t, Connectors(s)') = 0 /\ Bit(t, Connectors(s)) \in {0, 1}
        /\ (pc[t] = "disconnected" => Bit(t, Connectors(s)) = 1)
    BY <1>4, <1>16 DEF Bit
  <2>2. CASE pc[t] = "undo"
    BY <1>2, <1>9, <1>10, <2>1, <2>2 DEF Connects, IOType
  <2>3. CASE pc[t] = "disconnected"
    BY <1>2, <1>4, <1>9, <1>10, <2>1, <2>3 DEF Connects, IOType
  <2> QED
    BY <2>2, <2>3
<1>19. Receives(t, s)' <= Receives(t, s)
  BY <1>2, <1>9, <1>16 DEF Receives, Bit, IOType
<1> QED
  BY <1>11, <1>12, <1>13, <1>14, <1>15, <1>16, <1>17, <1>18, <1>19, HandlerStep

\* ReleaseRef by DeleteIoContext at the end of DoIocpJob: t gives up its
\* context, or is the one that returns the session.
LEMMA ReleaseLastStep ==
  ASSUME IndInv, NEW t \in IOThread, NEW s \in Session, ses[t] = s, ReleaseRef(t),
         pc[t] = "finish"
  PROVE  IndInv'
<1>1. kind[t] \in IOType /\ ThreadOK(t) /\ TypeOK
  BY Busy
<1>2. /\ InFlight(s) \in Nat /\ \A j \in IOType : pending[s][j] \in Nat
      /\ IssueRef(s) \in {0, 1} /\ mConnected[s] \in {0, 1} /\ mRefCount[s] \in Int
  BY <1>1, InFlightType DEF TypeOK, IssueRef
<1>3. /\ ~Returning(t) /\ t \in Handlers(s) /\ t \notin Creators(s)
      /\ fresh[t] = "none" /\ packets[t] = 0 /\ s # None
      /\ \A r \in Session : mSendBufferLock[r] # t
  BY <1>1, AfterDisconnectLabel, SessionAssumption
  DEF Returning, Handlers, Creators, ThreadOK, Creating
<1>4. mRefCount[s] > 0
  BY <1>3, HandledCounted
<1>5. /\ UNCHANGED <<mConnected, mSendBufferLock, pending, mLock, main, packets, issued, associated,
                     mFreeSessionList, mCurrentIssueCount, mCurrentReturnCount>>
      /\ fresh' = [fresh EXCEPT ![t] = "none"]
      /\ mRefCount'[s] = mRefCount[s] - 1 /\ mRefCount' \in [Session -> Int]
      /\ \A r \in Session \ {s} : mRefCount'[r] = mRefCount[r]
      /\ InFlight(s)' = InFlight(s) /\ IssueRef(s)' = IssueRef(s)
  BY <1>1 DEF ReleaseRef, poolVars, TypeOK, InFlight, IssueRef
<1>6. ~crashed' /\ crashed' \in BOOLEAN
  <2>1. ~(mRefCount[ses[t]] - 1 < 0)
    BY <1>2, <1>4
  <2>2. ~crashed'
    BY <2>1 DEF ReleaseRef
  <2>3. crashed' \in BOOLEAN
    BY DEF ReleaseRef
  <2> QED
    BY <2>2, <2>3
<1>7. /\ pc'[t] \in {"return", "idle"} /\ fresh'[t] = "none" /\ packets'[t] = 0
      /\ pc'[t] = "return" =>
           mRefCount'[s] = 0 /\ ses'[t] = s /\ kind'[t] = kind[t] /\ back'[t] = "idle"
      /\ pc'[t] = "idle" => ses'[t] = None /\ kind'[t] = "none"
      /\ Moves(t)
      /\ pc' \in [IOThread -> Label] /\ ses' \in [IOThread -> Session \union {None}]
      /\ kind' \in [IOThread -> IOType \union {"none"}]
      /\ back' \in [IOThread -> Label \union {"none"}]
  <2>1. AfterRelease(t) = "idle"
    BY DEF AfterRelease
  <2>2. /\ fresh'[t] = "none" /\ packets'[t] = 0
        /\ \A u \in IOThread \ {t} : fresh'[u] = fresh[u] /\ packets'[u] = packets[u]
    BY <1>1, <1>3, <1>5 DEF TypeOK
  <2>3. CASE mRefCount[s] - 1 = 0
    <3>1. /\ pc' = [pc EXCEPT ![t] = "return"] /\ back' = [back EXCEPT ![t] = "idle"]
          /\ ses' = ses /\ kind' = kind
      BY <2>1, <2>3 DEF ReleaseRef, Goto
    <3> QED
      BY <1>1, <1>5, <2>2, <2>3, <3>1 DEF TypeOK, Label, Moves
  <2>4. CASE mRefCount[s] - 1 # 0
    <3>1. /\ pc' = [pc EXCEPT ![t] = "idle"] /\ back' = back
          /\ ses' = [ses EXCEPT ![t] = None] /\ kind' = [kind EXCEPT ![t] = "none"]
      BY <2>1, <2>4 DEF ReleaseRef, Resume, Goto
    <3> QED
      BY <1>1, <1>5, <2>2, <3>1 DEF TypeOK, Label, Moves
  <2> QED
    BY <2>3, <2>4
<1>8. TypeOK'
  BY <1>1, <1>5, <1>6, <1>7 DEF TypeOK
<1>9. Only(t, s)
  BY <1>1, <1>5, <1>7 DEF Only, Moves
<1>10. ThreadOK(t)'
  <2>1. kind[t] # "none"
    BY <1>1 DEF IOType
  <2> QED
    BY <1>3, <1>5, <1>7, <2>1 DEF ThreadOK, Creating, Returning, RecvTypes
<1>11. PoolAccounting'
  <2>1. s \notin Free
    BY <1>4 DEF IndInv, PoolAccounting
  <2> QED
    BY <1>5, <1>9, <2>1, PoolStep
<1>12. /\ Returning(t)' => mRefCount'[s] = 0
       /\ t \notin Handlers(s)' /\ t \notin Creators(s)'
       /\ t \notin Connectors(s)' /\ t \notin Chain(s)'
  BY <1>3, <1>5, <1>7 DEF Returning, RecvTypes, Handlers, Creators, Connectors, Chain, InChain
<1>13. mRefCount'[s] - Refs(t, s)' = mRefCount[s] - Refs(t, s)
  BY <1>2, <1>3, <1>5, <1>12 DEF Refs, Bit
<1>14. Connects(t, s)' <= Connects(t, s)
  BY <1>2, <1>5, <1>12 DEF Connects, Bit, IOType
<1>15. Receives(t, s)' <= Receives(t, s)
  BY <1>2, <1>5, <1>12 DEF Receives, Bit, IOType
<1> QED
  BY <1>4, <1>6, <1>8, <1>9, <1>10, <1>11, <1>12, <1>13, <1>14, <1>15, HandlerStep

-----------------------------------------------------------------------------
(* The pool.                                                               *)

\* The counters wrap, but their difference does not: there are fewer sessions
\* than counter values.
LEMMA Difference ==
  ASSUME NEW m \in Nat, NEW i \in 0 .. (m - 1), NEW r \in 0 .. (m - 1)
  PROVE  (i - r) % m = IF i >= r THEN i - r ELSE i - r + m
  OBVIOUS

LEMMA Successor ==
  ASSUME NEW m \in Nat, NEW i \in 0 .. (m - 1)
  PROVE  /\ (i + 1) % m \in 0 .. (m - 1)
         /\ (i + 1) % m = IF i + 1 = m THEN 0 ELSE i + 1
  OBVIOUS

LEMMA OutstandingUp ==
  ASSUME NEW m \in Nat, NEW i \in 0 .. (m - 1), NEW r \in 0 .. (m - 1),
         ((i - r) % m) + 1 < m
  PROVE  (((i + 1) % m) - r) % m = ((i - r) % m) + 1
<1>1. PICK q \in 0 .. (m - 1) : q = (i + 1) % m /\ q = IF i + 1 = m THEN 0 ELSE i + 1
  BY Successor
<1>2. (i - r) % m = IF i >= r THEN i - r ELSE i - r + m
  BY Difference
<1>3. (q - r) % m = IF q >= r THEN q - r ELSE q - r + m
  BY Difference
<1> QED
  BY <1>1, <1>2, <1>3

LEMMA OutstandingDown ==
  ASSUME NEW m \in Nat, NEW i \in 0 .. (m - 1), NEW r \in 0 .. (m - 1),
         (i - r) % m > 0
  PROVE  (i - ((r + 1) % m)) % m = ((i - r) % m) - 1
<1>1. PICK q \in 0 .. (m - 1) : q = (r + 1) % m /\ q = IF r + 1 = m THEN 0 ELSE r + 1
  BY Successor
<1>2. (i - r) % m = IF i >= r THEN i - r ELSE i - r + m
  BY Difference
<1>3. (i - q) % m = IF i >= q THEN i - q ELSE i - q + m
  BY Difference
<1> QED
  BY <1>1, <1>2, <1>3

\* The list holds at most the sessions of the pool, and less when one is out.
LEMMA FreeListBound ==
  ASSUME IndInv
  PROVE  /\ MAX_CONNECTION \in Nat /\ MAX_CONNECTION < CounterModulus
         /\ Len(mFreeSessionList) \in Nat /\ Len(mFreeSessionList) <= MAX_CONNECTION
         /\ \A s \in Session \ Free : Len(mFreeSessionList) + 1 <= MAX_CONNECTION
<1> DEFINE l == mFreeSessionList
           n == Len(mFreeSessionList)
<1>1. /\ MAX_CONNECTION \in Nat /\ MAX_CONNECTION < CounterModulus
      /\ n \in Nat /\ l \in [1 .. n -> Session]
      /\ \A i, j \in 1 .. n : l[i] = l[j] => i = j
  BY SessionAssumption, BoundAssumption, FS_CardinalityType
  DEF MAX_CONNECTION, IndInv, TypeOK, PoolAccounting
<1>2. Cardinality(1 .. n) = n
  <2> HIDE DEF n
  <2>1. Cardinality(1 .. n) = IF 1 > n THEN 0 ELSE n - 1 + 1
    BY <1>1, FS_Interval
  <2> QED
    BY <1>1, <2>1
<1>3. ASSUME NEW S, IsFiniteSet(S), l \in [1 .. n -> S]
      PROVE  n <= Cardinality(S)
  <2>1. l \in Injection(1 .. n, S)
    BY <1>1, <1>3 DEF Injection, IsInjective
  <2> QED
    BY <1>2, <1>3, <2>1, FS_Injection
<1>4. n <= MAX_CONNECTION
  BY <1>1, <1>3, SessionAssumption DEF MAX_CONNECTION
<1>5. ASSUME NEW s \in Session, s \notin Free PROVE n + 1 <= MAX_CONNECTION
  <2>1. IsFiniteSet(Session \ {s}) /\ Cardinality(Session \ {s}) = MAX_CONNECTION - 1
    BY SessionAssumption, FS_RemoveElement DEF MAX_CONNECTION
  <2>2. l \in [1 .. n -> Session \ {s}]
    BY <1>1, <1>5 DEF Free
  <2>3. n <= Cardinality(Session \ {s})
    BY <1>3, <2>1, <2>2
  <2> HIDE DEF n
  <2> QED
    BY <1>1, <2>1, <2>3
<1> QED
  BY <1>1, <1>4, <1>5

LEMMA ZeroSum ==
  \A a, b, c, d \in Nat : a + b + c + d = 0 => a = 0 /\ b = 0 /\ c = 0 /\ d = 0
  OBVIOUS

\* A session whose count is 0 is not issued, not connected and has no context.
LEMMA UnusedSession ==
  ASSUME IndInv, NEW s \in Session, mRefCount[s] = 0
  PROVE  /\ InFlight(s) = 0 /\ ~issued[s] /\ mConnected[s] = 0
         /\ \A u \in IOThread : u \notin Handlers(s)
<1>1. /\ InFlight(s) \in Nat /\ IssueRef(s) \in {0, 1} /\ mConnected[s] \in {0, 1}
      /\ \A k \in IOType : pending[s][k] \in Nat
  BY InFlightType DEF IndInv, TypeOK, IssueRef
<1>2. /\ Cardinality(Handlers(s)) \in Nat /\ Cardinality(Creators(s)) \in Nat
      /\ Cardinality(Connectors(s)) \in Nat
      /\ \A u \in Handlers(s) : Cardinality(Handlers(s)) >= 1
  BY CountMember DEF Handlers, Creators, Connectors
<1>3. mRefCount[s] = InFlight(s) + Cardinality(Handlers(s)) + Cardinality(Creators(s)) + IssueRef(s)
  BY DEF IndInv, RefCountExact
<1>4. InFlight(s) = 0 /\ Cardinality(Handlers(s)) = 0 /\ IssueRef(s) = 0
  <2>1. InFlight(s) + Cardinality(Handlers(s)) + Cardinality(Creators(s)) + IssueRef(s) = 0
    BY <1>3
  <2>2. /\ InFlight(s) \in Nat /\ Cardinality(Handlers(s)) \in Nat
        /\ Cardinality(Creators(s)) \in Nat /\ IssueRef(s) \in Nat
    BY <1>1, <1>2
  <2>3. PICK a, b, c, d : /\ a = InFlight(s) /\ b = Cardinality(Handlers(s))
                          /\ c = Cardinality(Creators(s)) /\ d = IssueRef(s)
    OBVIOUS
  <2>4. a \in Nat /\ b \in Nat /\ c \in Nat /\ d \in Nat /\ a + b + c + d = 0
    BY <2>1, <2>2, <2>3
  <2>5. a = 0 /\ b = 0 /\ d = 0
    BY <2>4
  <2> QED
    BY <2>3, <2>5
<1>5. pending[s]["IO_ACCEPT"] + mConnected[s] + pending[s]["IO_DISCONNECT"]
        + Cardinality(Connectors(s)) <= 0
  BY <1>4 DEF IndInv, ConnectOnce
<1>6. mConnected[s] = 0
  BY <1>1, <1>2, <1>5 DEF IOType
<1>7. \A u \in IOThread : u \notin Handlers(s)
  BY <1>2, <1>4
<1> QED
  BY <1>4, <1>6, <1>7 DEF IssueRef

\* ReturnClientSession: the assertion holds, so the two resets change nothing.
LEMMA ReturnStep ==
  ASSUME IndInv, NEW t \in IOThread, NEW s \in Session, ses[t] = s, ReturnClientSession(t)
  PROVE  IndInv'
<1>1. kind[t] \in IOType /\ ThreadOK(t) /\ TypeOK
  BY Busy DEF ReturnClientSession
<1>2. Returning(t) /\ back[t] = "idle" /\ mRefCount[s] = 0 /\ mConnected[s] = 0
  <2>1. Returning(t)
    BY DEF Returning, ReturnClientSession
  <2>2. mRefCount[s] = 0
    BY <2>1 DEF IndInv, ReturnsOnce
  <2> QED
    BY <1>1, <2>1, <2>2, UnusedSession DEF ThreadOK
<1>3. /\ UNCHANGED <<mConnected, mRefCount, mSendBufferLock, pending, mFreeSessionList,
                     mCurrentIssueCount, mCurrentReturnCount, main, ses, kind, fresh, back,
                     packets, issued, associated>>
      /\ pc[t] = "return" /\ pc' = [pc EXCEPT ![t] = "reset"] /\ mLock' = t
  BY <1>1, <1>2 DEF ReturnClientSession, Goto, TypeOK
<1>4. ~crashed' /\ crashed' \in BOOLEAN
  <2>1. ~crashed'
    BY <1>2 DEF ReturnClientSession
  <2>2. crashed' \in BOOLEAN
    BY DEF ReturnClientSession
  <2> QED
    BY <2>1, <2>2
<1>5. TypeOK'
  BY <1>1, <1>3, <1>4 DEF TypeOK, Label
<1>6. Only(t, s)
  BY <1>1, <1>3 DEF TypeOK, Only
<1>7. ThreadOK(t)' /\ Returning(t)'
  BY <1>1, <1>2, <1>3 DEF ThreadOK, TypeOK, Creating, Returning, RecvTypes, CallOf
<1>8. PoolAccounting'
  <2>1. s \notin Free
    BY DEF IndInv, PoolAccounting
  <2> QED
    BY <1>3, <1>6, <2>1, PoolStep
<1>9. /\ t \in Handlers(s)' <=> t \in Handlers(s)
      /\ t \in Creators(s)' <=> t \in Creators(s)
      /\ t \in Connectors(s)' <=> t \in Connectors(s)
      /\ t \in Chain(s)' <=> t \in Chain(s)
  BY <1>1, <1>2, <1>3 DEF TypeOK, ThreadOK, Creating, Handlers, Creators, Connectors, Chain, InChain
<1>10. /\ Refs(t, s)' = Refs(t, s) /\ Connects(t, s)' = Connects(t, s)
       /\ Receives(t, s)' = Receives(t, s)
  BY <1>3, <1>9 DEF Refs, Connects, Receives, Bit, InFlight, IssueRef
<1>11. Connects(t, s)' <= Connects(t, s) /\ Receives(t, s)' <= Receives(t, s)
  BY <1>10, SumsBound
<1> QED
  BY <1>2, <1>3, <1>4, <1>5, <1>6, <1>7, <1>8, <1>10, <1>11, HandlerStep

\* SessionReset: the session is in the pool again, and nothing refers to it.
LEMMA ResetStep ==
  ASSUME IndInv, NEW t \in IOThread, NEW s \in Session, ses[t] = s, SessionReset(t)
  PROVE  IndInv'
<1>1. kind[t] \in IOType /\ ThreadOK(t) /\ TypeOK
  BY Busy DEF SessionReset
<1>2. Returning(t) /\ back[t] = "idle" /\ mRefCount[s] = 0
  BY <1>1 DEF Returning, SessionReset, IndInv, ReturnsOnce, ThreadOK
<1>3. /\ UNCHANGED <<mConnected, mRefCount, mSendBufferLock, pending, mCurrentIssueCount, main,
                     fresh, packets, crashed, issued>>
      /\ associated' = associated \ {s}
      /\ pc' = [pc EXCEPT ![t] = "idle"] /\ ses' = [ses EXCEPT ![t] = None]
      /\ kind' = [kind EXCEPT ![t] = "none"] /\ back' = [back EXCEPT ![t] = "none"]
      /\ mLock' = None /\ pc[t] = "reset"
      /\ mFreeSessionList' = Append(mFreeSessionList, s)
      /\ mCurrentReturnCount' = (mCurrentReturnCount + 1) % CounterModulus
  BY <1>1, <1>2 DEF SessionReset, Resume, Goto, sessionVars
<1>4. /\ InFlight(s) = 0 /\ ~issued[s] /\ mConnected[s] = 0
      /\ \A u \in IOThread : u \notin Handlers(s)
  BY <1>2, UnusedSession
<1>5. mCurrentReturnCount' \in 0 .. (CounterModulus - 1)
  BY <1>1, <1>3, BoundAssumption, Successor DEF TypeOK
<1>6. TypeOK'
  BY <1>1, <1>3, <1>5 DEF TypeOK, Label
<1>7. Only(t, s)
  BY <1>1, <1>3 DEF TypeOK, Only
<1>8. /\ fresh[t] = "none" /\ packets[t] = 0 /\ s # None
      /\ \A r \in Session : mSendBufferLock[r] # t
  BY <1>1, <1>3, AfterDisconnectLabel, SessionAssumption DEF ThreadOK, Creating
<1>9. ThreadOK(t)' /\ ~Returning(t)' /\ ~crashed'
  BY <1>1, <1>3, <1>8 DEF ThreadOK, TypeOK, Creating, Returning, RecvTypes, IndInv
<1>10. /\ t \notin Handlers(s)' /\ t \notin Creators(s)'
       /\ t \notin Connectors(s)' /\ t \notin Chain(s)'
       /\ t \notin Handlers(s) /\ t \notin Creators(s)
  BY <1>1, <1>2, <1>3, <1>8 DEF TypeOK, Handlers, Creators, Connectors, Chain
<1>11. Refs(t, s)' = Refs(t, s)
  BY <1>3, <1>10 DEF Refs, Bit, InFlight, IssueRef
<1>12. Connects(t, s)' <= Connects(t, s) /\ Receives(t, s)' <= Receives(t, s)
  <2>1. /\ \A k \in IOType : pending[s][k] \in Nat
        /\ mConnected[s] \in {0, 1} /\ IssueRef(s) \in {0, 1} /\ IssueRef(s)' = IssueRef(s)
    BY <1>1, <1>3 DEF TypeOK, IssueRef
  <2>2. /\ Bit(t, Connectors(s)') = 0 /\ Bit(t, Chain(s)') = 0
        /\ Bit(t, Connectors(s)) \in {0, 1} /\ Bit(t, Chain(s)) \in {0, 1}
    BY <1>10 DEF Bit
  <2>3. Connects(t, s)' <= Connects(t, s)
    BY <1>3, <2>1, <2>2 DEF Connects, IOType
  <2>4. Receives(t, s)' <= Receives(t, s)
    BY <1>3, <2>1, <2>2 DEF Receives, IOType
  <2> QED
    BY <2>3, <2>4
<1>13. PoolAccounting'
  <2> DEFINE l == mFreeSessionList
             n == Len(mFreeSessionList)
  <2>1. s \notin Free
    BY DEF IndInv, PoolAccounting
  <2>2. /\ n \in Nat /\ MAX_CONNECTION \in Nat /\ n + 1 <= MAX_CONNECTION
        /\ MAX_CONNECTION < CounterModulus
    BY <2>1, FreeListBound
  <2>3. /\ Len(mFreeSessionList') = n + 1 /\ mFreeSessionList'[n + 1] = s
        /\ \A i \in 1 .. n : mFreeSessionList'[i] = l[i]
        /\ \A i \in 1 .. n : l[i] \in Free /\ l[i] \in Session
    BY <1>1, <1>3 DEF TypeOK, Free
  <2>4. \A i, j \in 1 .. Len(mFreeSessionList') :
          mFreeSessionList'[i] = mFreeSessionList'[j] => i = j
    <3>1. \A i, j \in 1 .. n : l[i] = l[j] => i = j
      BY DEF IndInv, PoolAccounting
    <3>2. \A i \in 1 .. n : l[i] # s
      BY <2>1, <2>3
    <3>3. 1 .. (n + 1) = 1 .. n \union {n + 1}
      BY <2>2
    <3> HIDE DEF l, n
    <3> QED
      BY <2>3, <3>1, <3>2, <3>3
  <2>5. ASSUME NEW r \in Free'
        PROVE  /\ mRefCount'[r] = 0 /\ mConnected'[r] = 0 /\ ~issued'[r]
               /\ InFlight(r)' = 0 /\ \A u \in IOThread : ses'[u] # r
    <3>1. r = s \/ r \in Free
      <4>1. 1 .. (n + 1) = 1 .. n \union {n + 1}
        BY <2>2
      <4> HIDE DEF l, n
      <4> QED
        BY <2>3, <2>5, <4>1 DEF Free
    <3>2. CASE r = s
      <4>1. \A u \in IOThread : ses[u] = s => u = t
        BY <1>1, <1>2, <1>4 DEF Handlers, Returning, IndInv, ReturnsOnce
      <4> QED
        BY <1>1, <1>2, <1>3, <1>4, <1>8, <3>2, <4>1 DEF TypeOK, InFlight
    <3>3. CASE r \in Free
      <4>1. /\ mRefCount[r] = 0 /\ mConnected[r] = 0 /\ ~issued[r]
            /\ InFlight(r) = 0 /\ \A u \in IOThread : ses[u] # r
        BY <3>3 DEF IndInv, PoolAccounting
      <4>2. r # None
        BY <2>3, <3>3, SessionAssumption DEF Free
      <4> QED
        BY <1>1, <1>3, <4>1, <4>2 DEF TypeOK, InFlight
    <3> QED
      BY <3>1, <3>2, <3>3
  <2>6. Outstanding' = MAX_CONNECTION - Len(mFreeSessionList')
    <3>1. Outstanding = MAX_CONNECTION - n
      BY DEF IndInv, PoolAccounting
    <3>2. Outstanding > 0
      BY <2>2, <3>1
    <3>3. Outstanding' = Outstanding - 1
      <4>1. /\ mCurrentIssueCount \in 0 .. (CounterModulus - 1)
            /\ mCurrentReturnCount \in 0 .. (CounterModulus - 1)
            /\ CounterModulus \in Nat
            /\ (mCurrentIssueCount - mCurrentReturnCount) % CounterModulus > 0
        BY <1>1, <3>2, BoundAssumption DEF Outstanding, TypeOK
      <4>2. (mCurrentIssueCount - ((mCurrentReturnCount + 1) % CounterModulus)) % CounterModulus
              = ((mCurrentIssueCount - mCurrentReturnCount) % CounterModulus) - 1
        BY <4>1, OutstandingDown
      <4>3. Outstanding'
              = (mCurrentIssueCount - ((mCurrentReturnCount + 1) % CounterModulus)) % CounterModulus
        <5>1. /\ mCurrentIssueCount' = mCurrentIssueCount
              /\ mCurrentReturnCount' = (mCurrentReturnCount + 1) % CounterModulus
          BY <1>3
        <5> QED
          BY <4>1, <5>1 DEF Outstanding
      <4> QED
        BY <4>2, <4>3 DEF Outstanding
    <3> HIDE DEF n
    <3> QED
      BY <2>2, <2>3, <3>1, <3>3
  <2> QED
    BY <2>4, <2>5, <2>6 DEF PoolAccounting
<1>14. mRefCount'[s] - Refs(t, s)' = mRefCount[s] - Refs(t, s)
  BY <1>3, <1>11
<1> QED
  BY <1>2, <1>6, <1>7, <1>9, <1>12, <1>13, <1>14, HandlerStep

\* AcceptClientSessions, one turn of its loop: the session comes out of the
\* pool with the reference of the issue, and that of the accept if AcceptEx
\* took it.
LEMMA AcceptOneStep ==
  ASSUME IndInv, NEW ok \in BOOLEAN, AcceptOne(ok)
  PROVE  IndInv'
<1> DEFINE l == mFreeSessionList
           n == Len(mFreeSessionList)
<1>1. TypeOK
  BY DEF IndInv
<1>2. /\ n \in Nat /\ n > 0 /\ n <= MAX_CONNECTION
      /\ MAX_CONNECTION \in Nat /\ MAX_CONNECTION < CounterModulus
  BY <1>1, FreeListBound DEF AcceptOne, TypeOK
<1>3. PICK s \in Session : s = l[n]
  BY <1>1, <1>2 DEF TypeOK
<1>4. s \in Free
  BY <1>2, <1>3 DEF Free
<1>5. /\ mRefCount[s] = 0 /\ mConnected[s] = 0 /\ ~issued[s] /\ InFlight(s) = 0
      /\ \A u \in IOThread : ses[u] # s
  BY <1>4 DEF IndInv, PoolAccounting
<1>6. PICK d \in {0, 1} : d = IF ok THEN 1 ELSE 0
  OBVIOUS
<1>7. /\ UNCHANGED <<mConnected, mSendBufferLock, mCurrentReturnCount, pc, ses, kind, fresh,
                     back, packets, crashed, associated>>
      /\ issued' = [issued EXCEPT ![s] = TRUE]
      /\ mFreeSessionList' = SubSeq(l, 1, n - 1)
      /\ mCurrentIssueCount' = (mCurrentIssueCount + 1) % CounterModulus
      /\ mLock' \in {mLock, None} /\ main' \in {"inside", "ended"}
  BY <1>3 DEF AcceptOne, threadVars
<1>8. /\ mRefCount' \in [Session -> Int] /\ mRefCount'[s] = 1 + d
      /\ \A r \in Session \ {s} : mRefCount'[r] = mRefCount[r]
  BY <1>1, <1>3, <1>5, <1>6 DEF AcceptOne, TypeOK
<1>9. /\ pending' \in [Session -> [IOType -> Nat]]
      /\ pending'[s]["IO_ACCEPT"] = pending[s]["IO_ACCEPT"] + d
      /\ \A k \in IOType \ {"IO_ACCEPT"} : pending'[s][k] = pending[s][k]
      /\ \A r \in Session \ {s} : pending'[r] = pending[r]
  <2>1. CASE ok
    <3>1. pending' = [pending EXCEPT ![s]["IO_ACCEPT"] = @ + 1]
      BY <1>3, <2>1 DEF AcceptOne
    <3> QED
      BY <1>1, <1>6, <2>1, <3>1, SMTT(30) DEF TypeOK, IOType
  <2>2. CASE ~ok
    <3>1. pending' = pending /\ pending[s]["IO_ACCEPT"] \in Nat
      BY <1>1, <2>2 DEF AcceptOne, TypeOK, IOType
    <3> QED
      BY <1>1, <1>6, <2>2, <3>1 DEF TypeOK
  <2> QED
    BY <2>1, <2>2
<1>10. InFlight(s)' = d /\ \A k \in IOType : pending[s][k] = 0
  <2>1. \A k \in IOType : pending[s][k] \in Nat /\ pending[s][k] <= 0
    BY <1>1, <1>5, InFlightType
  <2>2. \A k \in IOType : pending[s][k] = 0
    BY <2>1
  <2>3. /\ pending'[s]["IO_ACCEPT"] = d /\ pending'[s]["IO_RECV_ZERO"] = 0
        /\ pending'[s]["IO_RECV"] = 0 /\ pending'[s]["IO_SEND"] = 0
        /\ pending'[s]["IO_DISCONNECT"] = 0 /\ pending'[s]["CK_DB_RESULT"] = 0
    BY <1>9, <2>2 DEF IOType
  <2> QED
    BY <2>2, <2>3 DEF InFlight
<1>11. mCurrentIssueCount' \in 0 .. (CounterModulus - 1)
  BY <1>1, <1>7, BoundAssumption, Successor DEF TypeOK
<1>12. mFreeSessionList' \in Seq(Session) /\ Len(mFreeSessionList') = n - 1
       /\ \A i \in 1 .. (n - 1) : mFreeSessionList'[i] = l[i]
  <2>1. l \in Seq(Session) /\ n - 1 \in Nat
    BY <1>1, <1>2 DEF TypeOK
  <2>2. PICK m \in Nat : m = n - 1
    BY <2>1
  <2>3. \A i \in 1 .. m : l[i] \in Session
    BY <2>1, <2>2
  <2>4. /\ SubSeq(l, 1, m) \in Seq(Session)
        /\ Len(SubSeq(l, 1, m)) = IF 1 <= m THEN m - 1 + 1 ELSE 0
        /\ \A i \in 1 .. m - 1 + 1 : SubSeq(l, 1, m)[i] = l[1 + i - 1]
    BY <2>3, SubSeqProperties
  <2>5. /\ SubSeq(l, 1, m) \in Seq(Session) /\ Len(SubSeq(l, 1, m)) = m
        /\ \A i \in 1 .. m : SubSeq(l, 1, m)[i] = l[i]
    BY <2>4
  <2> QED
    BY <1>7, <2>2, <2>5
<1> HIDE DEF l, n
<1>13. TypeOK'
  BY <1>1, <1>7, <1>8, <1>9, <1>11, <1>12 DEF TypeOK
<1>14. /\ \A u \in IOThread : ThreadOK(u)'
       /\ \A u \in IOThread : Returning(u)' <=> Returning(u)
  <2>1. ASSUME NEW u \in IOThread PROVE ThreadOK(u)'
    <3>1. ThreadOK(u)
      BY DEF IndInv
    <3> QED
      BY <1>7, <3>1 DEF ThreadOK, Returning, CallOf
  <2> QED
    BY <1>7, <2>1 DEF Returning
<1>15. ASSUME NEW r \in Session
       PROVE  /\ Handlers(r)' = Handlers(r) /\ Creators(r)' = Creators(r)
              /\ Connectors(r)' = Connectors(r) /\ Chain(r)' = Chain(r)
  BY <1>7 DEF Handlers, Creators, Connectors, Chain, InChain
<1>16. ASSUME NEW r \in Session, r # s
       PROVE  InFlight(r)' = InFlight(r) /\ IssueRef(r)' = IssueRef(r)
  BY <1>1, <1>7, <1>9, <1>16 DEF InFlight, IssueRef, TypeOK
<1>17. /\ Cardinality(Handlers(s)) = 0 /\ Cardinality(Creators(s)) = 0
       /\ Cardinality(Connectors(s)) = 0 /\ Cardinality(Chain(s)) = 0
       /\ IssueRef(s)' = 1
  <2>1. Handlers(s) = {} /\ Creators(s) = {} /\ Connectors(s) = {} /\ Chain(s) = {}
    BY <1>5 DEF Handlers, Creators, Connectors, Chain
  <2>2. issued'[s]
    BY <1>1, <1>7 DEF TypeOK
  <2> QED
    BY <2>1, <2>2, FS_EmptySet DEF IssueRef
<1>18. RefCountExact'
  <2>1. ASSUME NEW r \in Session
        PROVE  mRefCount'[r] = InFlight(r)' + Cardinality(Handlers(r)') + Cardinality(Creators(r)')
                                 + IssueRef(r)'
    <3>1. CASE r = s
      BY <1>8, <1>10, <1>15, <1>17, <3>1
    <3>2. CASE r # s
      BY <1>8, <1>15, <1>16, <3>2 DEF IndInv, RefCountExact
    <3> QED
      BY <3>1, <3>2
  <2> QED
    BY <2>1 DEF RefCountExact
<1>19. ConnectOnce'
  <2>1. ASSUME NEW r \in Session
        PROVE  pending'[r]["IO_ACCEPT"] + mConnected'[r] + pending'[r]["IO_DISCONNECT"]
                 + Cardinality(Connectors(r)') <= IssueRef(r)'
    <3>1. CASE r = s
      BY <1>5, <1>7, <1>9, <1>10, <1>15, <1>17, <3>1 DEF IOType
    <3>2. CASE r # s
      BY <1>7, <1>9, <1>15, <1>16, <3>2 DEF IndInv, ConnectOnce
    <3> QED
      BY <3>1, <3>2
  <2> QED
    BY <2>1 DEF ConnectOnce
<1>20. OneChain'
  <2>1. ASSUME NEW r \in Session
        PROVE  pending'[r]["IO_ACCEPT"] + pending'[r]["IO_RECV_ZERO"] + pending'[r]["IO_RECV"]
                 + Cardinality(Chain(r)') <= 1
    <3>1. CASE r = s
      BY <1>9, <1>10, <1>15, <1>17, <3>1 DEF IOType
    <3>2. CASE r # s
      BY <1>9, <1>15, <3>2 DEF IndInv, OneChain
    <3> QED
      BY <3>1, <3>2
  <2> QED
    BY <2>1 DEF OneChain
<1>21. ReturnsOnce'
  <2>1. \A u \in IOThread : Returning(u) => ses[u] \in Session
    BY DEF IndInv, ThreadOK, Returning, TypeOK
  <2> QED
    BY <1>5, <1>7, <1>8, <1>14, <2>1 DEF IndInv, ReturnsOnce
<1>22. PoolAccounting'
  <2>1. \A i, j \in 1 .. n : l[i] = l[j] => i = j
    BY DEF IndInv, PoolAccounting, l, n
  <2>2. \A i, j \in 1 .. Len(mFreeSessionList') :
          mFreeSessionList'[i] = mFreeSessionList'[j] => i = j
    BY <1>2, <1>12, <2>1
  <2>3. ASSUME NEW r \in Free' PROVE r \in Free /\ r # s /\ r \in Session
    <3>1. PICK i \in 1 .. (n - 1) : r = l[i]
      BY <1>12 DEF Free
    <3>2. i \in 1 .. n /\ i # n /\ n \in 1 .. n
      BY <1>2
    <3>3. r # s
      BY <1>3, <2>1, <3>1, <3>2
    <3>4. r \in Free
      BY <3>1, <3>2 DEF Free, l, n
    <3> QED
      BY <1>1, <3>3, <3>4 DEF Free, TypeOK
  <2>4. ASSUME NEW r \in Free'
        PROVE  /\ mRefCount'[r] = 0 /\ mConnected'[r] = 0 /\ ~issued'[r]
               /\ InFlight(r)' = 0 /\ \A u \in IOThread : ses'[u] # r
    <3>1. r \in Session /\ r # s
      BY <2>3
    <3>2. /\ mRefCount[r] = 0 /\ mConnected[r] = 0 /\ ~issued[r]
          /\ InFlight(r) = 0 /\ \A u \in IOThread : ses[u] # r
      BY <2>3 DEF IndInv, PoolAccounting
    <3> QED
      BY <1>1, <1>7, <1>8, <1>16, <3>1, <3>2 DEF TypeOK
  <2>5. Outstanding' = MAX_CONNECTION - Len(mFreeSessionList')
    <3>1. Outstanding = MAX_CONNECTION - n
      BY DEF IndInv, PoolAccounting, n
    <3>2. /\ mCurrentIssueCount \in 0 .. (CounterModulus - 1)
          /\ mCurrentReturnCount \in 0 .. (CounterModulus - 1)
          /\ CounterModulus \in Nat
      BY <1>1, BoundAssumption DEF TypeOK
    <3>3. ((mCurrentIssueCount - mCurrentReturnCount) % CounterModulus) + 1 < CounterModulus
      BY <1>2, <3>1, <3>2 DEF Outstanding
    <3>4. (((mCurrentIssueCount + 1) % CounterModulus) - mCurrentReturnCount) % CounterModulus
            = ((mCurrentIssueCount - mCurrentReturnCount) % CounterModulus) + 1
      BY <3>2, <3>3, OutstandingUp
    <3>5. /\ mCurrentIssueCount' = (mCurrentIssueCount + 1) % CounterModulus
          /\ mCurrentReturnCount' = mCurrentReturnCount
      BY <1>7
    <3>6. Outstanding' = Outstanding + 1
      BY <3>2, <3>4, <3>5 DEF Outstanding
    <3> QED
      BY <1>2, <1>12, <3>1, <3>6
  <2> QED
    BY <2>2, <2>4, <2>5 DEF PoolAccounting
<1> QED
  BY <1>7, <1>13, <1>14, <1>18, <1>19, <1>20, <1>21, <1>22 DEF IndInv

\* The lock that the main thread holds around the loop is not in the invariant.
LEMMA AcceptLockStep ==
  ASSUME IndInv, AcceptEnter \/ AcceptLeave
  PROVE  IndInv'
<1>1. /\ UNCHANGED <<sessionVars, mFreeSessionList, mCurrentIssueCount, mCurrentReturnCount,
                     threadVars, crashed, issued, associated>>
      /\ mLock' \in {Main, None} /\ main' \in {"inside", "outside"}
  BY DEF AcceptEnter, AcceptLeave
<1>2. TypeOK /\ TypeOK'
  BY <1>1 DEF IndInv, TypeOK, sessionVars, threadVars
<1>3. \A t \in IOThread : ThreadOK(t)'
  <2> SUFFICES ASSUME NEW t \in IOThread PROVE ThreadOK(t)'
    OBVIOUS
  <2>1. ThreadOK(t)
    BY DEF IndInv
  <2> QED
    BY <1>1, <2>1 DEF ThreadOK, Returning, CallOf, sessionVars, threadVars
<1>4. RefCountExact' /\ ConnectOnce' /\ OneChain'
  <2>1. \A s \in Session :
          /\ Handlers(s)' = Handlers(s) /\ Creators(s)' = Creators(s)
          /\ Connectors(s)' = Connectors(s) /\ Chain(s)' = Chain(s)
          /\ InFlight(s)' = InFlight(s) /\ IssueRef(s)' = IssueRef(s)
    BY <1>1 DEF Handlers, Creators, Connectors, Chain, InChain, InFlight, IssueRef,
       sessionVars, threadVars
  <2> QED
    BY <1>1, <2>1 DEF IndInv, RefCountExact, ConnectOnce, OneChain, sessionVars
<1>5. ReturnsOnce'
  BY <1>1 DEF IndInv, ReturnsOnce, Returning, sessionVars, threadVars
<1>6. PoolAccounting'
  <2>1. Free' = Free /\ Outstanding' = Outstanding
    BY <1>1 DEF Free, Outstanding
  <2>2. \A s \in Free : InFlight(s)' = InFlight(s)
    BY <1>1 DEF InFlight, sessionVars
  <2> QED
    BY <1>1, <2>1, <2>2 DEF IndInv, PoolAccounting, sessionVars, threadVars
<1> QED
  BY <1>1, <1>2, <1>3, <1>4, <1>5, <1>6 DEF IndInv

LEMMA InitIndInv == Init => IndInv
<1> SUFFICES ASSUME Init PROVE IndInv
  OBVIOUS
<1>1. MAX_CONNECTION \in Nat /\ MAX_CONNECTION < CounterModulus
  BY SessionAssumption, BoundAssumption, FS_CardinalityType DEF MAX_CONNECTION
<1>2. /\ mFreeSessionList \in Seq(Session) /\ Len(mFreeSessionList) = MAX_CONNECTION
      /\ \A i, j \in 1 .. MAX_CONNECTION : mFreeSessionList[i] = mFreeSessionList[j] => i = j
  BY <1>1 DEF Init
<1>3. TypeOK
  <2>1. 0 \in 0 .. (CounterModulus - 1) /\ 0 \in 0 .. (MaxPackets + 1)
    BY <1>1, BoundAssumption
  <2>2. /\ mConnected \in [Session -> {0, 1}] /\ mRefCount \in [Session -> Int]
        /\ mSendBufferLock \in [Session -> IOThread \union {None}]
        /\ pending \in [Session -> [IOType -> Nat]]
        /\ associated \subseteq Session /\ issued \in [Session -> BOOLEAN]
    BY DEF Init
  <2>3. /\ pc \in [IOThread -> Label] /\ ses \in [IOThread -> Session \union {None}]
        /\ kind \in [IOThread -> IOType \union {"none"}]
        /\ fresh \in [IOThread -> IOType \union {"none"}]
        /\ back \in [IOThread -> Label \union {"none"}]
        /\ packets \in [IOThread -> 0 .. (MaxPackets + 1)]
    BY <2>1 DEF Init, Label
  <2>4. /\ mCurrentIssueCount \in 0 .. (CounterModulus - 1)
        /\ mCurrentReturnCount \in 0 .. (CounterModulus - 1)
        /\ mLock \in IOThread \union {Main, None}
        /\ main \in {"outside", "inside", "ended"} /\ crashed \in BOOLEAN
    BY <2>1 DEF Init
  <2> QED
    BY <1>2, <2>2, <2>3, <2>4 DEF TypeOK
<1>4. \A t \in IOThread : ThreadOK(t)
  BY ThreadAssumption DEF Init, ThreadOK, Creating, Returning, RecvTypes
<1>5. ASSUME NEW s \in Session
      PROVE  /\ Cardinality(Handlers(s)) = 0 /\ Cardinality(Creators(s)) = 0
             /\ Cardinality(Connectors(s)) = 0 /\ Cardinality(Chain(s)) = 0
             /\ InFlight(s) = 0 /\ IssueRef(s) = 0
             /\ mRefCount[s] = 0 /\ mConnected[s] = 0 /\ ~issued[s]
             /\ \A k \in IOType : pending[s][k] = 0
             /\ \A t \in IOThread : ses[t] # s
  <2>1. \A t \in IOThread : ses[t] # s
    BY SessionAssumption DEF Init
  <2>2. Handlers(s) = {} /\ Creators(s) = {} /\ Connectors(s) = {} /\ Chain(s) = {}
    BY <2>1 DEF Handlers, Creators, Connectors, Chain
  <2>3. \A k \in IOType : pending[s][k] = 0
    BY DEF Init
  <2>4. InFlight(s) = 0
    BY <2>3 DEF InFlight, IOType
  <2> QED
    BY <2>1, <2>2, <2>3, <2>4, FS_EmptySet DEF Init, IssueRef
<1>6. RefCountExact /\ ConnectOnce /\ OneChain
  BY <1>5 DEF RefCountExact, ConnectOnce, OneChain, IOType
<1>7. ReturnsOnce
  BY DEF Init, ReturnsOnce, Returning
<1>8. PoolAccounting
  <2>1. Outstanding = 0
    BY <1>1, BoundAssumption, Difference DEF Init, Outstanding
  <2>2. \A s \in Free : s \in Session
    BY <1>2 DEF Free
  <2>3. Outstanding = MAX_CONNECTION - Len(mFreeSessionList)
    BY <1>1, <1>2, <2>1
  <2> QED
    BY <1>2, <1>5, <2>2, <2>3 DEF PoolAccounting
<1> QED
  BY <1>3, <1>4, <1>6, <1>7, <1>8 DEF IndInv, Init

\* Every step of an I/O thread keeps the invariant.
LEMMA ThreadStep ==
  ASSUME IndInv, NEW t \in IOThread, DoIocpJob(t) \/ Subscribe(t) \/ Completion(t)
  PROVE  IndInv'
<1>1. CASE Completion(t)
  BY <1>1, CompletionStep DEF Completion
<1>2. CASE Subscribe(t)
  BY <1>2, SubscribeStep
<1>3. CASE DoIocpJob(t)
  <2>1. ses[t] \in Session
    <3>1. pc[t] # "idle"
      BY <1>3 DEF DoIocpJob, AcceptCompletion, AcceptSetup, PreRecv, PostRecv, NewContext,
         IssueOk, IssueFails, HandlePacket, ParseEnd, BeginSend, SendLock, SendUnlock,
         SendCompletion, DisconnectRequest, ReleaseRef, ReturnClientSession, SessionReset
    <3> QED
      BY <3>1, Busy
  <2>2. CASE \/ AcceptCompletion(t) \/ NewContext(t) \/ IssueOk(t) \/ DisconnectRequest(t)
             \/ ReturnClientSession(t) \/ SessionReset(t)
    BY <2>1, <2>2, AcceptCompletionStep, NewContextStep, IssueOkStep, DisconnectRequestStep,
       ReturnStep, ResetStep
  <2>3. CASE ReleaseRef(t)
    <3>1. pc[t] \in {"undo", "disconnected"} \/ pc[t] = "finish"
      BY <2>3 DEF ReleaseRef
    <3> QED
      BY <2>1, <2>3, <3>1, ReleaseEarlyStep, ReleaseLastStep
  <2>4. CASE \/ PreRecv(t) \/ IssueFails(t) \/ ParseEnd(t) \/ SendUnlock(t)
             \/ \E call \in {"send", "disconnect"} : HandlePacket(t, call)
    BY <2>4, PreRecvStep, IssueFailsStep, ParseEndStep, SendUnlockStep, HandlePacketStep
  <2>5. CASE \E b \in BOOLEAN : \/ AcceptSetup(t, b) \/ PostRecv(t, b) \/ BeginSend(t, b)
                                \/ SendLock(t, b) \/ SendCompletion(t, b)
    BY <2>5, AcceptSetupStep, PostRecvStep, BeginSendStep, SendLockStep, SendCompletionStep
  <2> QED
    BY <1>3, <2>2, <2>3, <2>4, <2>5 DEF DoIocpJob
<1> QED
  BY <1>1, <1>2, <1>3

LEMMA NextIndInv == IndInv /\ [Next]_vars => IndInv'
<1> SUFFICES ASSUME IndInv, [Next]_vars PROVE IndInv'
  OBVIOUS
<1>1. CASE UNCHANGED vars
  <2>1. UNCHANGED <<sessionVars, mFreeSessionList, mCurrentIssueCount, mCurrentReturnCount,
                    threadVars, crashed, issued, associated>>
    BY <1>1 DEF vars, poolVars
  <2>2. Free' = Free /\ Outstanding' = Outstanding
    BY <2>1 DEF Free, Outstanding
  <2>3. \A s : /\ Handlers(s)' = Handlers(s) /\ Creators(s)' = Creators(s)
               /\ Connectors(s)' = Connectors(s) /\ Chain(s)' = Chain(s)
               /\ InFlight(s)' = InFlight(s) /\ IssueRef(s)' = IssueRef(s)
    BY <2>1 DEF Handlers, Creators, Connectors, Chain, InChain, InFlight, IssueRef,
       sessionVars, threadVars
  <2>4. TypeOK'
    BY <1>1 DEF IndInv, TypeOK, vars, sessionVars, poolVars, threadVars
  <2>5. \A t \in IOThread : ThreadOK(t)'
    <3> SUFFICES ASSUME NEW t \in IOThread PROVE ThreadOK(t)'
      OBVIOUS
    <3>1. ThreadOK(t)
      BY DEF IndInv
    <3> QED
      BY <2>1, <3>1 DEF ThreadOK, Returning, CallOf, sessionVars, threadVars
  <2>6. RefCountExact' /\ ConnectOnce' /\ OneChain'
    BY <2>1, <2>3 DEF IndInv, RefCountExact, ConnectOnce, OneChain, sessionVars
  <2>7. ReturnsOnce'
    BY <2>1 DEF IndInv, ReturnsOnce, Returning, sessionVars, threadVars
  <2>8. PoolAccounting'
    BY <2>1, <2>2, <2>3 DEF IndInv, PoolAccounting, sessionVars, threadVars
  <2> QED
    BY <2>1, <2>4, <2>5, <2>6, <2>7, <2>8 DEF IndInv
<1>2. CASE AcceptClientSessions
  BY <1>2, AcceptLockStep, AcceptOneStep DEF AcceptClientSessions
<1>3. CASE \E t \in IOThread : DoIocpJob(t) \/ Subscribe(t) \/ Completion(t)
  BY <1>3, ThreadStep
<1> QED
  BY <1>1, <1>2, <1>3 DEF Next

-----------------------------------------------------------------------------
(* The theorems.                                                           *)

\* The strengthened invariant holds in every reachable state.
THEOREM LifecycleInvariant == Spec => []IndInv
<1>1. Init => IndInv
  BY InitIndInv
<1>2. IndInv /\ [Next]_vars => IndInv'
  BY NextIndInv
<1> QED
  BY <1>1, <1>2, PTL DEF Spec

\* Every variable keeps its type; the counts of contexts in flight are never
\* negative.
THEOREM LifecycleTypeOK == Spec => []TypeOK
<1>1. IndInv => TypeOK
  BY DEF IndInv
<1> QED
  BY <1>1, LifecycleInvariant, PTL

\* No CRASH_ASSERT of AddRef, ReleaseRef, AcceptCompletion or
\* ReturnClientSession fails.
THEOREM LifecycleNoCrash == Spec => []NoCrash
<1>1. IndInv => NoCrash
  BY DEF IndInv, NoCrash
<1> QED
  BY <1>1, LifecycleInvariant, PTL

\* mRefCount is the number of contexts of the session, plus one while it is
\* issued.
THEOREM LifecycleRefCountExact == Spec => []RefCountExact
<1>1. IndInv => RefCountExact
  BY DEF IndInv
<1> QED
  BY <1>1, LifecycleInvariant, PTL

\* The free list and the two wrapping counters of ClientSessionManager agree.
THEOREM LifecyclePoolAccounting == Spec => []PoolAccounting
<1>1. IndInv => PoolAccounting
  BY DEF IndInv
<1> QED
  BY <1>1, LifecycleInvariant, PTL

\* A session is connected and disconnected once per issue.
THEOREM LifecycleConnectOnce == Spec => []ConnectOnce
<1>1. IndInv => ConnectOnce
  BY DEF IndInv
<1> QED
  BY <1>1, LifecycleInvariant, PTL

\* The receives of a session follow each other, from the accept on.
THEOREM LifecycleOneChain == Spec => []OneChain
<1>1. IndInv => OneChain
  BY DEF IndInv
<1> QED
  BY <1>1, LifecycleInvariant, PTL

\* mRecvBuffer has one user: whoever uses it is in the chain of receives.
THEOREM LifecycleRecvBufferExclusive == Spec => []RecvBufferExclusive
<1>1. IndInv => RecvBufferExclusive
  <2> SUFFICES ASSUME IndInv, NEW s \in Session
               PROVE  pending[s]["IO_RECV"]
                        + Cardinality({t \in IOThread : ses[t] = s /\ UsesRecvBuffer(t)}) <= 1
    BY DEF RecvBufferExclusive
  <2> DEFINE U == {t \in IOThread : ses[t] = s /\ UsesRecvBuffer(t)}
  <2>1. U \subseteq Chain(s) /\ U \subseteq IOThread /\ Chain(s) \subseteq IOThread
    BY DEF UsesRecvBuffer, Chain, InChain, RecvTypes
  <2>2. Cardinality(U) \in Nat /\ Cardinality(Chain(s)) \in Nat
    BY <2>1, CountMember
  <2>3. Cardinality(U) <= Cardinality(Chain(s))
    <3>1. IsFiniteSet(Chain(s))
      BY <2>1, ThreadAssumption, FS_Subset
    <3> QED
      BY <2>1, <3>1, FS_Subset
  <2>4. \A k \in IOType : pending[s][k] \in Nat
    BY InFlightType DEF IndInv
  <2>5. pending[s]["IO_ACCEPT"] + pending[s]["IO_RECV_ZERO"] + pending[s]["IO_RECV"]
          + Cardinality(Chain(s)) <= 1
    BY DEF IndInv, OneChain
  <2> HIDE DEF U
  <2>6. pending[s]["IO_RECV"] + Cardinality(U) <= 1
    BY <2>2, <2>3, <2>4, <2>5 DEF IOType
  <2> QED
    BY <2>6 DEF U
<1> QED
  BY <1>1, LifecycleInvariant, PTL

\* SessionReset never waits for the send lock: the owner of the lock would hold
\* a reference of the session.
THEOREM LifecycleResetNeverWaits == Spec => []ResetNeverWaits
<1>1. IndInv => ResetNeverWaits
  <2> SUFFICES ASSUME IndInv, NEW t \in IOThread, Returning(t),
                      mSendBufferLock[ses[t]] # None
               PROVE  FALSE
    BY DEF ResetNeverWaits, Returning
  <2>1. PICK s \in Session : s = ses[t]
    BY DEF IndInv, ThreadOK, TypeOK, Returning
  <2>2. mRefCount[s] = 0
    BY <2>1 DEF IndInv, ReturnsOnce
  <2>3. PICK u \in IOThread : mSendBufferLock[s] = u
    BY <2>1 DEF IndInv, TypeOK
  <2>4. ses[u] = s /\ ~Returning(u)
    BY <2>3 DEF IndInv, ThreadOK, Returning, Creating
  <2> QED
    BY <2>2, <2>4, HandledCounted DEF IndInv, TypeOK
<1> QED
  BY <1>1, LifecycleInvariant, PTL

\* Only AcceptClientSessions takes a count from 0: NewContext is called by a
\* thread that has a reference already.
THEOREM LifecycleNoResurrection == Spec => NoResurrection
<1> DEFINE A == \A s \in Session : mRefCount[s] = 0 /\ mRefCount'[s] > 0 => s \in Free
<1>1. IndInv /\ [Next]_vars => [A]_vars
  <2> SUFFICES ASSUME IndInv, Next, NEW s \in Session, mRefCount[s] = 0, mRefCount'[s] > 0
               PROVE  s \in Free
    OBVIOUS
  <2>1. TypeOK
    BY DEF IndInv
  <2>2. mRefCount' # mRefCount
    OBVIOUS
  <2>3. CASE AcceptClientSessions
    <3>1. PICK ok \in BOOLEAN : AcceptOne(ok)
      BY <2>2, <2>3 DEF AcceptClientSessions, AcceptEnter, AcceptLeave, sessionVars
    <3>2. mFreeSessionList # << >> /\ mFreeSessionList \in Seq(Session)
      BY <2>1, <3>1 DEF AcceptOne, TypeOK
    <3>3. s = mFreeSessionList[Len(mFreeSessionList)]
      BY <2>1, <3>1 DEF AcceptOne, TypeOK
    <3> QED
      BY <3>2, <3>3 DEF Free
  <2>4. ASSUME NEW t \in IOThread, DoIocpJob(t) \/ Subscribe(t) \/ Completion(t)
        PROVE  FALSE
    <3>1. NewContext(t) \/ ReleaseRef(t) \/ ReturnClientSession(t)
      BY <2>2, <2>4 DEF DoIocpJob, Subscribe, Completion, GetQueuedCompletionStatus,
         AcceptCompletion, AcceptSetup, PreRecv, PostRecv, IssueOk, IssueFails,
         HandlePacket, ParseEnd, BeginSend, SendLock, SendUnlock, SendCompletion,
         DisconnectRequest, SessionReset, sessionVars
    <3>2. CASE NewContext(t)
      <4>1. ses[t] \in Session /\ ~Returning(t)
        BY <3>2, Busy DEF NewContext, Returning
      <4>2. mRefCount[ses[t]] > 0
        BY <4>1, HandledCounted
      <4> QED
        BY <2>1, <3>2, <4>1, <4>2 DEF NewContext, TypeOK
    <3>3. CASE ReleaseRef(t)
      BY <2>1, <3>3 DEF ReleaseRef, TypeOK
    <3>4. CASE ReturnClientSession(t)
      BY <2>1, <3>4 DEF ReturnClientSession, TypeOK
    <3> QED
      BY <3>1, <3>2, <3>3, <3>4
  <2> QED
    BY <2>3, <2>4 DEF Next
<1> QED
  BY <1>1, LifecycleInvariant, PTL DEF Spec, NoResurrection

-----------------------------------------------------------------------------
(* A connected session is listened to, provided that WSARecv accepts every  *)
(* request (when the first PreRecv fails, the code loses the property).     *)

\* Thread t is on its way to the next receive, or to the disconnection.
Attends(t, s) == ses[t] = s /\ (InChain(t) \/ pc[t] = "disconnect")

Listens(s) ==
  mConnected[s] = 1 =>
    \/ pending[s]["IO_RECV_ZERO"] + pending[s]["IO_RECV"] > 0
    \/ \E t \in IOThread : Attends(t, s)

\* What a handler step must not touch.
Elsewhere(t, s) ==
  /\ Moves(t)
  /\ \A r \in Session, u \in IOThread \ {t} :
       mSendBufferLock'[r] = u <=> mSendBufferLock[r] = u
  /\ \A r \in Session \ {s} : mConnected'[r] = mConnected[r] /\ pending'[r] = pending[r]

\* A step that leaves the other sessions and threads alone keeps Listens when
\* it keeps what t and the receives in flight of s do for it.
LEMMA ListensStep ==
  ASSUME IndInv, NEW t \in IOThread, NEW s \in Session, ses[t] \in {s, None},
         Elsewhere(t, s), \A r \in Session : Listens(r),
         mConnected'[s] = 1 =>
           \/ pending'[s]["IO_RECV_ZERO"] + pending'[s]["IO_RECV"] > 0
           \/ Attends(t, s)'
           \/ /\ mConnected[s] = 1 /\ ~Attends(t, s)
              /\ pending[s]["IO_RECV_ZERO"] + pending[s]["IO_RECV"] <= 0
  PROVE  \A r \in Session : Listens(r)'
<1> SUFFICES ASSUME NEW r \in Session PROVE Listens(r)'
  OBVIOUS
<1>1. \A u \in IOThread : u # t /\ Attends(u, r) => Attends(u, r)'
  BY DEF Elsewhere, Moves, Attends, InChain
<1>2. CASE r = s
  <2>1. /\ pending[s]["IO_RECV_ZERO"] \in Nat /\ pending[s]["IO_RECV"] \in Nat
    BY DEF IndInv, TypeOK, IOType
  <2> QED
    BY <1>1, <1>2, <2>1 DEF Listens
<1>3. CASE r # s
  <2>1. ~Attends(t, r)
    BY <1>3, SessionAssumption DEF Attends
  <2> QED
    BY <1>1, <1>3, <2>1 DEF Listens, Elsewhere
<1> QED
  BY <1>2, <1>3

\* Every handler step but those on the contexts in flight: t goes on attending
\* to its session as long as it is connected.
Keeps(t, s) ==
  mConnected'[s] = 1 => Attends(t, s)' \/ (mConnected[s] = 1 /\ ~Attends(t, s))

LEMMA KeepsStep ==
  ASSUME IndInv, NEW t \in IOThread, NEW s \in Session, ses[t] \in {s, None},
         Elsewhere(t, s), Keeps(t, s), pending' = pending, \A r \in Session : Listens(r)
  PROVE  \A r \in Session : Listens(r)'
<1>1. pending[s]["IO_RECV_ZERO"] \in Nat /\ pending[s]["IO_RECV"] \in Nat
  BY DEF IndInv, TypeOK, IOType
<1> QED
  BY <1>1, ListensStep DEF Keeps

LEMMA AttendingStep ==
  ASSUME IndInv, "WSARecv" \notin Fails, NEW t \in IOThread, NEW s \in Session, ses[t] = s,
         \/ AcceptCompletion(t) \/ PreRecv(t) \/ NewContext(t) \/ IssueFails(t)
         \/ ParseEnd(t) \/ SendUnlock(t) \/ DisconnectRequest(t) \/ Subscribe(t)
         \/ \E call \in {"send", "disconnect"} : HandlePacket(t, call)
         \/ \E b \in BOOLEAN : \/ AcceptSetup(t, b) \/ PostRecv(t, b) \/ BeginSend(t, b)
                             \/ SendLock(t, b) \/ SendCompletion(t, b)
  PROVE  Elsewhere(t, s) /\ Keeps(t, s) /\ pending' = pending
<1>1. ThreadOK(t) /\ TypeOK /\ packets[t] \in Nat
  BY AfterDisconnectLabel DEF IndInv
<1>2. ASSUME AcceptCompletion(t)
      PROVE  Elsewhere(t, s) /\ Keeps(t, s) /\ pending' = pending
  <2>1. Moves(t) /\ pending' = pending
    BY <1>1, <1>2 DEF AcceptCompletion, Goto, Local, TypeOK, Moves,
       sessionVars
  <2>2. /\ \A r \in Session, u \in IOThread \ {t} :
             mSendBufferLock'[r] = u <=> mSendBufferLock[r] = u
        /\ \A r \in Session \ {s} : mConnected'[r] = mConnected[r]
    BY <1>1, <1>2, ThreadAssumption DEF AcceptCompletion, Goto, Local, TypeOK,
       ThreadOK, sessionVars
  <2>3. Keeps(t, s)
    BY <1>1, <1>2, ThreadAssumption DEF AcceptCompletion, Goto, Local,
       sessionVars, ThreadOK, TypeOK, Attends, InChain, Keeps, RecvTypes,
       Creating, CallOf
  <2> QED
    BY <2>1, <2>2, <2>3 DEF Elsewhere
<1>3. ASSUME NEW ok \in BOOLEAN, AcceptSetup(t, ok)
      PROVE  Elsewhere(t, s) /\ Keeps(t, s) /\ pending' = pending
  <2>1. Moves(t) /\ pending' = pending
    BY <1>1, <1>3 DEF AcceptSetup, Goto, Local, TypeOK, Moves, sessionVars
  <2>2. /\ \A r \in Session, u \in IOThread \ {t} :
             mSendBufferLock'[r] = u <=> mSendBufferLock[r] = u
        /\ \A r \in Session \ {s} : mConnected'[r] = mConnected[r]
    BY <1>1, <1>3, ThreadAssumption DEF AcceptSetup, Goto, Local, TypeOK,
       ThreadOK, sessionVars
  <2>3. Keeps(t, s)
    BY <1>1, <1>3, ThreadAssumption DEF AcceptSetup, Goto, Local, sessionVars,
       ThreadOK, TypeOK, Attends, InChain, Keeps, RecvTypes, Creating, CallOf
  <2> QED
    BY <2>1, <2>2, <2>3 DEF Elsewhere
<1>4. ASSUME Subscribe(t)
      PROVE  Elsewhere(t, s) /\ Keeps(t, s) /\ pending' = pending
  <2>1. Moves(t) /\ pending' = pending
    BY <1>1, <1>4 DEF Subscribe, Goto, Local, TypeOK, Moves, sessionVars
  <2>2. /\ \A r \in Session, u \in IOThread \ {t} :
             mSendBufferLock'[r] = u <=> mSendBufferLock[r] = u
        /\ \A r \in Session \ {s} : mConnected'[r] = mConnected[r]
    BY <1>1, <1>4, ThreadAssumption DEF Subscribe, Goto, Local, TypeOK,
       ThreadOK, sessionVars
  <2>3. Keeps(t, s)
    BY <1>1, <1>4, ThreadAssumption DEF Subscribe, Goto, Local, sessionVars,
       ThreadOK, TypeOK, Attends, InChain, Keeps, RecvTypes, Creating, CallOf
  <2> QED
    BY <2>1, <2>2, <2>3 DEF Elsewhere
<1>5. ASSUME PreRecv(t)
      PROVE  Elsewhere(t, s) /\ Keeps(t, s) /\ pending' = pending
  <2>1. Moves(t) /\ pending' = pending
    BY <1>1, <1>5 DEF PreRecv, CreateIf, Goto, Local, AfterRefusedRecv,
       TypeOK, Moves, sessionVars
  <2>2. /\ \A r \in Session, u \in IOThread \ {t} :
             mSendBufferLock'[r] = u <=> mSendBufferLock[r] = u
        /\ \A r \in Session \ {s} : mConnected'[r] = mConnected[r]
    BY <1>1, <1>5, ThreadAssumption DEF PreRecv, CreateIf, Goto, Local,
       AfterRefusedRecv, TypeOK, ThreadOK, sessionVars
  <2>3. Keeps(t, s)
    BY <1>1, <1>5, ThreadAssumption DEF PreRecv, CreateIf, Goto, Local,
       AfterRefusedRecv, sessionVars, ThreadOK, TypeOK, Attends, InChain,
       Keeps, RecvTypes, Creating, CallOf
  <2> QED
    BY <2>1, <2>2, <2>3 DEF Elsewhere
<1>6. ASSUME NEW full \in BOOLEAN, PostRecv(t, full)
      PROVE  Elsewhere(t, s) /\ Keeps(t, s) /\ pending' = pending
  <2>1. Moves(t) /\ pending' = pending
    BY <1>1, <1>6 DEF PostRecv, CreateIf, Goto, Local, AfterRefusedRecv,
       TypeOK, Moves, sessionVars
  <2>2. /\ \A r \in Session, u \in IOThread \ {t} :
             mSendBufferLock'[r] = u <=> mSendBufferLock[r] = u
        /\ \A r \in Session \ {s} : mConnected'[r] = mConnected[r]
    BY <1>1, <1>6, ThreadAssumption DEF PostRecv, CreateIf, Goto, Local,
       AfterRefusedRecv, TypeOK, ThreadOK, sessionVars
  <2>3. Keeps(t, s)
    BY <1>1, <1>6, ThreadAssumption DEF PostRecv, CreateIf, Goto, Local,
       AfterRefusedRecv, sessionVars, ThreadOK, TypeOK, Attends, InChain,
       Keeps, RecvTypes, Creating, CallOf
  <2> QED
    BY <2>1, <2>2, <2>3 DEF Elsewhere
<1>7. ASSUME NewContext(t)
      PROVE  Elsewhere(t, s) /\ Keeps(t, s) /\ pending' = pending
  <2>1. Moves(t) /\ pending' = pending
    BY <1>1, <1>7 DEF NewContext, Goto, Local, TypeOK, Moves, sessionVars
  <2>2. /\ \A r \in Session, u \in IOThread \ {t} :
             mSendBufferLock'[r] = u <=> mSendBufferLock[r] = u
        /\ \A r \in Session \ {s} : mConnected'[r] = mConnected[r]
    BY <1>1, <1>7, ThreadAssumption DEF NewContext, Goto, Local, TypeOK,
       ThreadOK, sessionVars
  <2>3. Keeps(t, s)
    BY <1>1, <1>7, ThreadAssumption DEF NewContext, Goto, Local, sessionVars,
       ThreadOK, TypeOK, Attends, InChain, Keeps, RecvTypes, Creating, CallOf
  <2> QED
    BY <2>1, <2>2, <2>3 DEF Elsewhere
<1>8. ASSUME IssueFails(t)
      PROVE  Elsewhere(t, s) /\ Keeps(t, s) /\ pending' = pending
  <2>1. Moves(t) /\ pending' = pending
    BY <1>1, <1>8 DEF IssueFails, Goto, Local, TypeOK, Moves, sessionVars
  <2>2. /\ \A r \in Session, u \in IOThread \ {t} :
             mSendBufferLock'[r] = u <=> mSendBufferLock[r] = u
        /\ \A r \in Session \ {s} : mConnected'[r] = mConnected[r]
    BY <1>1, <1>8, ThreadAssumption DEF IssueFails, Goto, Local, TypeOK,
       ThreadOK, sessionVars
  <2>3. Keeps(t, s)
    BY <1>1, <1>8, ThreadAssumption DEF IssueFails, Goto, Local, sessionVars,
       ThreadOK, TypeOK, Attends, InChain, Keeps, RecvTypes, Creating, CallOf
  <2> QED
    BY <2>1, <2>2, <2>3 DEF Elsewhere
<1>9. ASSUME NEW call \in {"send", "disconnect"}, HandlePacket(t, call)
      PROVE  Elsewhere(t, s) /\ Keeps(t, s) /\ pending' = pending
  <2>1. Moves(t) /\ pending' = pending
    BY <1>1, <1>9 DEF HandlePacket, Goto, TypeOK, Moves, sessionVars
  <2>2. /\ \A r \in Session, u \in IOThread \ {t} :
             mSendBufferLock'[r] = u <=> mSendBufferLock[r] = u
        /\ \A r \in Session \ {s} : mConnected'[r] = mConnected[r]
    BY <1>1, <1>9, ThreadAssumption DEF HandlePacket, Goto, TypeOK, ThreadOK,
       sessionVars
  <2>3. Keeps(t, s)
    BY <1>1, <1>9, ThreadAssumption DEF HandlePacket, Goto, sessionVars,
       ThreadOK, TypeOK, Attends, InChain, Keeps, RecvTypes, Creating, CallOf
  <2> QED
    BY <2>1, <2>2, <2>3 DEF Elsewhere
<1>10. ASSUME ParseEnd(t)
      PROVE  Elsewhere(t, s) /\ Keeps(t, s) /\ pending' = pending
  <2>1. Moves(t) /\ pending' = pending
    BY <1>1, <1>10 DEF ParseEnd, Goto, TypeOK, Moves, sessionVars
  <2>2. /\ \A r \in Session, u \in IOThread \ {t} :
             mSendBufferLock'[r] = u <=> mSendBufferLock[r] = u
        /\ \A r \in Session \ {s} : mConnected'[r] = mConnected[r]
    BY <1>1, <1>10, ThreadAssumption DEF ParseEnd, Goto, TypeOK, ThreadOK,
       sessionVars
  <2>3. Keeps(t, s)
    BY <1>1, <1>10, ThreadAssumption DEF ParseEnd, Goto, sessionVars,
       ThreadOK, TypeOK, Attends, InChain, Keeps, RecvTypes, Creating, CallOf
  <2> QED
    BY <2>1, <2>2, <2>3 DEF Elsewhere
<1>11. ASSUME NEW empty \in BOOLEAN, BeginSend(t, empty)
      PROVE  Elsewhere(t, s) /\ Keeps(t, s) /\ pending' = pending
  <2>1. Moves(t) /\ pending' = pending
    BY <1>1, <1>11 DEF BeginSend, Goto, Local, AfterSend, TypeOK, Moves,
       sessionVars
  <2>2. /\ \A r \in Session, u \in IOThread \ {t} :
             mSendBufferLock'[r] = u <=> mSendBufferLock[r] = u
        /\ \A r \in Session \ {s} : mConnected'[r] = mConnected[r]
    BY <1>1, <1>11, ThreadAssumption DEF BeginSend, Goto, Local, AfterSend,
       TypeOK, ThreadOK, sessionVars
  <2>3. Keeps(t, s)
    BY <1>1, <1>11, ThreadAssumption DEF BeginSend, Goto, Local, AfterSend,
       sessionVars, ThreadOK, TypeOK, Attends, InChain, Keeps, RecvTypes,
       Creating, CallOf
  <2> QED
    BY <2>1, <2>2, <2>3 DEF Elsewhere
<1>12. ASSUME NEW full \in BOOLEAN, SendLock(t, full)
      PROVE  Elsewhere(t, s) /\ Keeps(t, s) /\ pending' = pending
  <2>1. Moves(t) /\ pending' = pending
    BY <1>1, <1>12 DEF SendLock, CreateIf, Goto, Local, TypeOK, Moves,
       sessionVars
  <2>2. /\ \A r \in Session, u \in IOThread \ {t} :
             mSendBufferLock'[r] = u <=> mSendBufferLock[r] = u
        /\ \A r \in Session \ {s} : mConnected'[r] = mConnected[r]
    BY <1>1, <1>12, ThreadAssumption DEF SendLock, CreateIf, Goto, Local,
       TypeOK, ThreadOK, sessionVars
  <2>3. Keeps(t, s)
    BY <1>1, <1>12, ThreadAssumption DEF SendLock, CreateIf, Goto, Local,
       sessionVars, ThreadOK, TypeOK, Attends, InChain, Keeps, RecvTypes,
       Creating, CallOf
  <2> QED
    BY <2>1, <2>2, <2>3 DEF Elsewhere
<1>13. ASSUME SendUnlock(t)
      PROVE  Elsewhere(t, s) /\ Keeps(t, s) /\ pending' = pending
  <2>1. Moves(t) /\ pending' = pending
    BY <1>1, <1>13 DEF SendUnlock, Goto, Local, AfterSend, TypeOK, Moves,
       sessionVars
  <2>2. /\ \A r \in Session, u \in IOThread \ {t} :
             mSendBufferLock'[r] = u <=> mSendBufferLock[r] = u
        /\ \A r \in Session \ {s} : mConnected'[r] = mConnected[r]
    BY <1>1, <1>13, ThreadAssumption DEF SendUnlock, Goto, Local, AfterSend,
       TypeOK, ThreadOK, sessionVars
  <2>3. Keeps(t, s)
    BY <1>1, <1>13, ThreadAssumption DEF SendUnlock, Goto, Local, AfterSend,
       sessionVars, ThreadOK, TypeOK, Attends, InChain, Keeps, RecvTypes,
       Creating, CallOf
  <2> QED
    BY <2>1, <2>2, <2>3 DEF Elsewhere
<1>14. ASSUME NEW partial \in BOOLEAN, SendCompletion(t, partial)
      PROVE  Elsewhere(t, s) /\ Keeps(t, s) /\ pending' = pending
  <2>1. Moves(t) /\ pending' = pending
    BY <1>1, <1>14 DEF SendCompletion, Goto, Local, TypeOK, Moves, sessionVars
  <2>2. /\ \A r \in Session, u \in IOThread \ {t} :
             mSendBufferLock'[r] = u <=> mSendBufferLock[r] = u
        /\ \A r \in Session \ {s} : mConnected'[r] = mConnected[r]
    BY <1>1, <1>14, ThreadAssumption DEF SendCompletion, Goto, Local, TypeOK,
       ThreadOK, sessionVars
  <2>3. Keeps(t, s)
    BY <1>1, <1>14, ThreadAssumption DEF SendCompletion, Goto, Local,
       sessionVars, ThreadOK, TypeOK, Attends, InChain, Keeps, RecvTypes,
       Creating, CallOf
  <2> QED
    BY <2>1, <2>2, <2>3 DEF Elsewhere
<1>15. ASSUME DisconnectRequest(t)
      PROVE  Elsewhere(t, s) /\ Keeps(t, s) /\ pending' = pending
  <2>1. Moves(t) /\ pending' = pending
    BY <1>1, <1>15 DEF DisconnectRequest, CreateIf, Goto, Local, TypeOK,
       Moves, sessionVars
  <2>2. /\ \A r \in Session, u \in IOThread \ {t} :
             mSendBufferLock'[r] = u <=> mSendBufferLock[r] = u
        /\ \A r \in Session \ {s} : mConnected'[r] = mConnected[r]
    BY <1>1, <1>15, ThreadAssumption DEF DisconnectRequest, CreateIf, Goto,
       Local, TypeOK, ThreadOK, sessionVars
  <2>3. Keeps(t, s)
    BY <1>1, <1>15, ThreadAssumption DEF DisconnectRequest, CreateIf, Goto,
       Local, sessionVars, ThreadOK, TypeOK, Attends, InChain, Keeps,
       RecvTypes, Creating, CallOf
  <2> QED
    BY <2>1, <2>2, <2>3 DEF Elsewhere
<1> QED
  BY <1>2, <1>3, <1>4, <1>5, <1>6, <1>7, <1>8, <1>9, <1>10, <1>11, <1>12,
     <1>13, <1>14, <1>15

\* ReleaseRef and what follows it: only a failed send or disconnection that a
\* handler began can leave something to attend to.
LEMMA ReleasingKeeps ==
  ASSUME IndInv, "WSARecv" \notin Fails, NEW t \in IOThread, NEW s \in Session, ses[t] = s,
         ReleaseRef(t) \/ ReturnClientSession(t) \/ SessionReset(t)
  PROVE  Elsewhere(t, s) /\ Keeps(t, s) /\ pending' = pending
<1>1. ThreadOK(t) /\ TypeOK /\ packets[t] \in Nat
  BY AfterDisconnectLabel DEF IndInv
<1>2. ASSUME ReleaseRef(t)
      PROVE  Elsewhere(t, s) /\ Keeps(t, s) /\ pending' = pending
  <2>1. Elsewhere(t, s) /\ pending' = pending
    BY <1>1, <1>2 DEF ReleaseRef, Resume, Goto, TypeOK, Elsewhere, Moves
  <2>2. CASE pc[t] # "undo"
    <3>1. ~Attends(t, s)
      BY <1>1, <1>2, <2>2 DEF ReleaseRef, ThreadOK, Attends, InChain, RecvTypes, Creating
    <3>2. mConnected' = mConnected
      BY <1>2 DEF ReleaseRef
    <3>3. Keeps(t, s)
      BY <3>1, <3>2 DEF Keeps
    <3> QED
      BY <2>1, <3>3
  <2>3. CASE pc[t] = "undo"
    <3>1. fresh[t] \in {"IO_SEND", "IO_DISCONNECT"}
      BY <1>1, <2>3 DEF ThreadOK, RecvTypes, Creating, CallOf
    <3>2. mRefCount[s] > 1
      <4>1. t \in Handlers(s) /\ t \in Creators(s)
        BY <2>3 DEF Handlers, Creators
      <4>2. Bit(t, Handlers(s)) = 1 /\ Bit(t, Creators(s)) = 1
        BY <4>1 DEF Bit
      <4>3. InFlight(s) \in Nat /\ IssueRef(s) \in {0, 1}
        BY <1>1, InFlightType DEF IssueRef
      <4> QED
        BY <4>2, <4>3, RefsCounted DEF Refs
    <3>3. PICK l : /\ l = AfterFailedPost(t)
                   /\ fresh[t] = "IO_SEND" => l = "disconnect"
                   /\ fresh[t] = "IO_DISCONNECT" =>
                        l = IF mSendBufferLock[s] = t THEN "unlock"
                            ELSE IF packets[t] > 0 THEN "parse" ELSE "finish"
      BY <1>1, <2>3, AfterPostLabel, AfterDisconnectLabel DEF Creating
    <3>4. /\ pc' = [pc EXCEPT ![t] = l] /\ fresh' = [fresh EXCEPT ![t] = "none"]
          /\ UNCHANGED <<mConnected, mSendBufferLock, ses, kind, packets>>
      <4>1. mRefCount[ses[t]] - 1 # 0 /\ l # "idle" /\ AfterRelease(t) = l
        BY <1>1, <2>3, <3>1, <3>2, <3>3 DEF TypeOK, AfterRelease
      <4> QED
        BY <1>2, <4>1 DEF ReleaseRef, Resume, Goto
    <3>5. pc'[t] = l /\ fresh'[t] = "none"
      BY <1>1, <3>4 DEF TypeOK
    <3>6. l \in {"disconnect", "unlock", "parse", "finish"}
      BY <3>1, <3>3
    <3>7. CASE l \in {"disconnect", "parse"}
      <4>1. Attends(t, s)'
        BY <3>4, <3>5, <3>7 DEF Attends, InChain
      <4> QED
        BY <2>1, <4>1 DEF Keeps
    <3>8. CASE l = "unlock"
      <4>1. mSendBufferLock[s] = t
        BY <1>1, <3>1, <3>3, <3>8 DEF ThreadOK
      <4>2. kind[t] = "IO_RECV" \/ packets[t] > 0 => Attends(t, s)'
        BY <3>4, <4>1 DEF Attends, InChain
      <4>3. Attends(t, s) => kind[t] = "IO_RECV" \/ packets[t] > 0
        BY <2>3, <3>1 DEF Attends, InChain, RecvTypes
      <4> QED
        BY <2>1, <3>4, <4>2, <4>3 DEF Keeps
    <3>9. CASE l = "finish"
      <4>1. fresh[t] = "IO_DISCONNECT" /\ mSendBufferLock[s] # t /\ ~(packets[t] > 0)
        BY <3>1, <3>3, <3>9
      <4>2. ~Attends(t, s)
        BY <2>3, <4>1 DEF Attends, InChain, RecvTypes
      <4> QED
        BY <2>1, <3>4, <4>2 DEF Keeps
    <3> QED
      BY <3>6, <3>7, <3>8, <3>9
  <2> QED
    BY <2>1, <2>2, <2>3
<1>3. ASSUME ReturnClientSession(t)
      PROVE  Elsewhere(t, s) /\ Keeps(t, s) /\ pending' = pending
  <2>1. Elsewhere(t, s) /\ pending' = pending
    BY <1>1, <1>3 DEF ReturnClientSession, Goto, TypeOK, Elsewhere, Moves
  <2>2. mConnected'[s] = 0
    BY <1>1, <1>3 DEF ReturnClientSession, TypeOK
  <2> QED
    BY <2>1, <2>2 DEF Keeps
<1>4. ASSUME SessionReset(t)
      PROVE  Elsewhere(t, s) /\ Keeps(t, s) /\ pending' = pending
  <2>1. Elsewhere(t, s) /\ pending' = pending /\ mConnected' = mConnected
    BY <1>1, <1>4 DEF SessionReset, Resume, Goto, TypeOK, Elsewhere, Moves, sessionVars
  <2>2. ~Attends(t, s)
    BY <1>1, <1>4 DEF SessionReset, ThreadOK, Attends, InChain, RecvTypes, Creating
  <2> QED
    BY <2>1, <2>2 DEF Keeps
<1> QED
  BY <1>2, <1>3, <1>4

\* IssueOk: the receive that t was preparing is in flight.
LEMMA IssueListens ==
  ASSUME IndInv, NEW t \in IOThread, NEW s \in Session, ses[t] = s, IssueOk(t),
         \A r \in Session : Listens(r)
  PROVE  \A r \in Session : Listens(r)'
<1>1. ThreadOK(t) /\ TypeOK /\ packets[t] \in Nat
  BY AfterDisconnectLabel DEF IndInv
<1>2. PICK k, l : /\ k = fresh[t] /\ l = AfterPost(t)
                  /\ k \in {"IO_RECV", "IO_RECV_ZERO", "IO_SEND", "IO_DISCONNECT"}
                  /\ k = "IO_SEND" => l = "unlock"
                  /\ k = "IO_DISCONNECT" =>
                       l = IF mSendBufferLock[s] = t THEN "unlock"
                           ELSE IF packets[t] > 0 THEN "parse" ELSE "finish"
  BY <1>1, AfterPostLabel, AfterDisconnectLabel DEF IssueOk, Creating
<1>3. /\ pc' = [pc EXCEPT ![t] = l] /\ fresh' = [fresh EXCEPT ![t] = "none"]
      /\ UNCHANGED <<mConnected, mSendBufferLock, ses, kind, packets, back>>
      /\ pc[t] = "issue"
  BY <1>2 DEF IssueOk, Goto, Local
<1>4. /\ pending[s]["IO_RECV_ZERO"] \in Nat /\ pending[s]["IO_RECV"] \in Nat
      /\ pending'[s][k] = pending[s][k] + 1
      /\ \A j \in IOType \ {k} : pending'[s][j] = pending[s][j]
      /\ \A r \in Session \ {s} : pending'[r] = pending[r]
  BY <1>1, <1>2 DEF IssueOk, TypeOK, IOType
<1>5. Elsewhere(t, s)
  BY <1>1, <1>3, <1>4 DEF TypeOK, Elsewhere, Moves
<1>6. CASE k \in {"IO_RECV", "IO_RECV_ZERO"}
  <2>1. pending'[s]["IO_RECV_ZERO"] + pending'[s]["IO_RECV"] > 0
    BY <1>4, <1>6 DEF IOType
  <2> QED
    BY <1>5, <2>1, ListensStep
<1>7. CASE k \in {"IO_SEND", "IO_DISCONNECT"}
  <2>1. /\ pending'[s]["IO_RECV_ZERO"] = pending[s]["IO_RECV_ZERO"]
        /\ pending'[s]["IO_RECV"] = pending[s]["IO_RECV"]
    BY <1>4, <1>7 DEF IOType
  <2>2. Attends(t, s) => Attends(t, s)'
    BY <1>1, <1>2, <1>3, <1>7 DEF TypeOK, ThreadOK, Attends, InChain, RecvTypes, Creating
  <2> QED
    BY <1>3, <1>4, <1>5, <2>1, <2>2, ListensStep
<1> QED
  BY <1>2, <1>6, <1>7

\* The completion of a receive comes with the thread that handles it.
LEMMA CompletionListens ==
  ASSUME IndInv, NEW t \in IOThread, NEW s \in Session, NEW k \in IOType, NEW ok \in BOOLEAN,
         GetQueuedCompletionStatus(t, s, k, ok), \A r \in Session : Listens(r)
  PROVE  \A r \in Session : Listens(r)'
<1>1. ThreadOK(t) /\ TypeOK
  BY DEF IndInv
<1>2. /\ ses[t] = None /\ mConnected' = mConnected /\ ses'[t] = s
      /\ mSendBufferLock' = mSendBufferLock
      /\ \A j \in IOType \ {k} : pending'[s][j] = pending[s][j]
      /\ \A r \in Session \ {s} : pending'[r] = pending[r]
      /\ pending[s]["IO_RECV_ZERO"] \in Nat /\ pending[s]["IO_RECV"] \in Nat
  BY <1>1 DEF GetQueuedCompletionStatus, TypeOK, ThreadOK, IOType
<1>3. Elsewhere(t, s)
  <2>1. Moves(t)
    BY <1>1 DEF GetQueuedCompletionStatus, Goto, TypeOK, Moves
  <2> QED
    BY <1>2, <2>1 DEF Elsewhere
<1>4. CASE k \in {"IO_RECV_ZERO", "IO_RECV"}
  <2>1. pc'[t] \in {"postrecv", "parse", "disconnect"}
    BY <1>1, <1>4 DEF GetQueuedCompletionStatus, Goto, TypeOK
  <2>2. Attends(t, s)'
    BY <1>2, <2>1 DEF Attends, InChain
  <2> QED
    BY <1>2, <1>3, <2>2, ListensStep
<1>5. CASE k \notin {"IO_RECV_ZERO", "IO_RECV"}
  <2>1. /\ pending'[s]["IO_RECV_ZERO"] = pending[s]["IO_RECV_ZERO"]
        /\ pending'[s]["IO_RECV"] = pending[s]["IO_RECV"]
    BY <1>2, <1>5 DEF IOType
  <2>2. ~Attends(t, s)
    BY <1>2, SessionAssumption DEF Attends
  <2> QED
    BY <1>2, <1>3, <2>1, <2>2, ListensStep
<1> QED
  BY <1>4, <1>5

\* The main thread, and the steps that change nothing.
LEMMA UnmovedListens ==
  ASSUME IndInv, \A r \in Session : Listens(r),
         UNCHANGED <<mConnected, mSendBufferLock, threadVars>>,
         \A r \in Session : /\ pending'[r]["IO_RECV_ZERO"] = pending[r]["IO_RECV_ZERO"]
                            /\ pending'[r]["IO_RECV"] = pending[r]["IO_RECV"]
  PROVE  \A r \in Session : Listens(r)'
<1> SUFFICES ASSUME NEW r \in Session PROVE Listens(r)'
  OBVIOUS
<1>1. \A u \in IOThread : Attends(u, r)' <=> Attends(u, r)
  BY DEF Attends, InChain, threadVars
<1> QED
  BY <1>1 DEF Listens

LEMMA AcceptListens ==
  ASSUME IndInv, AcceptClientSessions, \A r \in Session : Listens(r)
  PROVE  \A r \in Session : Listens(r)'
<1>1. CASE AcceptEnter \/ AcceptLeave
  <2>1. UNCHANGED <<sessionVars, threadVars>>
    BY <1>1 DEF AcceptEnter, AcceptLeave
  <2> QED
    BY <2>1, UnmovedListens DEF sessionVars
<1>2. ASSUME NEW ok \in BOOLEAN, AcceptOne(ok)
      PROVE  \A r \in Session : Listens(r)'
  <2>1. UNCHANGED <<mConnected, mSendBufferLock, threadVars>>
    BY <1>2 DEF AcceptOne
  <2>2. \A r \in Session : /\ pending'[r]["IO_RECV_ZERO"] = pending[r]["IO_RECV_ZERO"]
                           /\ pending'[r]["IO_RECV"] = pending[r]["IO_RECV"]
    <3>1. PICK s : pending' = IF ok THEN [pending EXCEPT ![s]["IO_ACCEPT"] = @ + 1] ELSE pending
      BY <1>2 DEF AcceptOne
    <3> QED
      BY <3>1, SMTT(30) DEF IndInv, TypeOK, IOType
  <2> QED
    BY <2>1, <2>2, UnmovedListens
<1> QED
  BY <1>1, <1>2 DEF AcceptClientSessions

LEMMA ThreadListens ==
  ASSUME IndInv, "WSARecv" \notin Fails, NEW t \in IOThread,
         DoIocpJob(t) \/ Subscribe(t) \/ Completion(t), \A r \in Session : Listens(r)
  PROVE  \A r \in Session : Listens(r)'
<1>1. CASE Completion(t)
  BY <1>1, CompletionListens DEF Completion
<1>2. CASE DoIocpJob(t) \/ Subscribe(t)
  <2>1. PICK s \in Session : ses[t] = s
    <3>1. pc[t] # "idle"
      BY <1>2 DEF DoIocpJob, Subscribe, AcceptCompletion, AcceptSetup, PreRecv, PostRecv,
         NewContext, IssueOk, IssueFails, HandlePacket, ParseEnd, BeginSend, SendLock,
         SendUnlock, SendCompletion, DisconnectRequest, ReleaseRef, ReturnClientSession,
         SessionReset
    <3> QED
      BY <3>1, Busy
  <2>2. CASE IssueOk(t)
    BY <2>1, <2>2, IssueListens
  <2>3. CASE ~IssueOk(t)
    <3>1. Elsewhere(t, s) /\ Keeps(t, s) /\ pending' = pending
      BY <1>2, <2>1, <2>3, AttendingStep, ReleasingKeeps DEF DoIocpJob
    <3> QED
      BY <2>1, <3>1, KeepsStep
  <2> QED
    BY <2>2, <2>3
<1> QED
  BY <1>1, <1>2

\* A receive of a connected session is in flight, or a thread is about to post
\* the next one or to disconnect, as long as WSARecv accepts every request.
THEOREM LifecycleConnectedIsListening ==
  ASSUME "WSARecv" \notin Fails
  PROVE  Spec => []ConnectedIsListening
<1> DEFINE Inv == IndInv /\ \A s \in Session : Listens(s)
<1>1. Init => Inv
  <2>1. Init => \A s \in Session : Listens(s)
    BY DEF Init, Listens
  <2> QED
    BY <2>1, InitIndInv
<1>2. Inv /\ [Next]_vars => Inv'
  <2> SUFFICES ASSUME IndInv, \A s \in Session : Listens(s), [Next]_vars
               PROVE  \A s \in Session : Listens(s)'
    BY NextIndInv
  <2>1. CASE UNCHANGED vars
    BY <2>1, UnmovedListens DEF vars, sessionVars
  <2>2. CASE AcceptClientSessions
    BY <2>2, AcceptListens
  <2>3. CASE \E t \in IOThread : DoIocpJob(t) \/ Subscribe(t) \/ Completion(t)
    BY <2>3, ThreadListens
  <2> QED
    BY <2>1, <2>2, <2>3 DEF Next
<1>3. Inv => ConnectedIsListening
  <2> SUFFICES ASSUME Inv, NEW s \in Session, mConnected[s] = 1,
                      NEW t \in IOThread, Attends(t, s)
               PROVE  \/ kind[t] \in {"IO_ACCEPT", "IO_RECV_ZERO", "IO_RECV"}
                      \/ pc[t] = "disconnect"
    BY DEF Listens, ConnectedIsListening, Attends
  <2>1. ThreadOK(t) /\ packets[t] \in Nat
    BY DEF IndInv, TypeOK
  <2> QED
    BY <2>1 DEF ThreadOK, Attends, InChain, RecvTypes
<1> QED
  BY <1>1, <1>2, <1>3, PTL DEF Spec

=============================================================================

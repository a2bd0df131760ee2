---------------------------- MODULE SessionBuffer ----------------------------
(***************************************************************************)
(* One CircularBuffer with the operations that a Session of Homework7      *)
(* performs on it:                                                         *)
(*   - PostSend and ClientSession::SendRequest copy bytes behind the ones  *)
(*     that are stored, or refuse them;                                    *)
(*   - PostRecv gives the free window to the kernel, which fills a part of *)
(*     it; RecvCompletion commits that part;                               *)
(*   - SendCompletion and EchoBack drop bytes from the front;              *)
(*   - SessionReset empties the buffer.                                    *)
(* mSendBuffer sees the first, third and fourth kind and is protected by   *)
(* mSendBufferLock; mRecvBuffer sees the last three and belongs to the     *)
(* thread that runs the receive chain, so every operation is one step and  *)
(* nothing else happens to the buffer while a receive is posted.           *)
(***************************************************************************)
EXTENDS CircularBuffer

VARIABLES buf,      \* mSendBuffer or mRecvBuffer
          posted    \* the WSABUF of the receive in flight: [buf, len]

vars == <<buf, posted>>

NoRecv == [buf |-> Null, len |-> 0]

\* Non-empty byte strings of at most Capacity bytes.
Data == UNION {[1 .. n -> Byte] : n \in 1 .. Capacity}

Init == buf \in NewBuffer /\ posted = NoRecv

PostSend(data) ==
  /\ posted = NoRecv
  /\ buf' = LET b == AfterFreeSpaceQuery(buf)
            IN  IF GetFreeSpaceSize(buf) < Len(data) THEN b
                ELSE Commit([b EXCEPT !.mem = Memcpy(@, GetBuffer(b), data)], Len(data))
  /\ UNCHANGED posted

\* Mutant: the address is read before the query switches to region B.
PostRecvStaleAddress ==
  /\ posted = NoRecv
  /\ GetFreeSpaceSize(buf) # 0
  /\ buf' = AfterFreeSpaceQuery(buf)
  /\ posted' = [buf |-> GetBuffer(buf), len |-> GetFreeSpaceSize(buf)]

PostRecv ==
  /\ posted = NoRecv
  /\ GetFreeSpaceSize(buf) # 0
  /\ buf' = AfterFreeSpaceQuery(buf)
  /\ posted' = [buf |-> GetBuffer(buf'), len |-> GetFreeSpaceSize(buf)]

\* The kernel wrote data into the posted window, RecvCompletion commits it.
RecvCompletion(data) ==
  /\ posted # NoRecv
  /\ Len(data) <= posted.len
  /\ buf' = Commit([buf EXCEPT !.mem = Memcpy(@, posted.buf, data)], Len(data))
  /\ posted' = NoRecv

\* A receive that failed: nothing is committed, the connection is closed.
RecvError ==
  /\ posted # NoRecv
  /\ posted' = NoRecv
  /\ UNCHANGED buf

\* SendCompletion, or the removal at the end of EchoBack.
Consume(len) ==
  /\ posted = NoRecv
  /\ buf' = Remove(buf, len)
  /\ UNCHANGED posted

SessionReset ==
  /\ posted = NoRecv
  /\ buf' = BufferReset
  /\ UNCHANGED posted

Next ==
  \/ \E data \in Data : PostSend(data)
  \/ PostRecv
  \/ \E data \in Data : RecvCompletion(data)
  \/ RecvError
  \/ \E len \in 1 .. Capacity : Consume(len)
  \/ SessionReset

Spec == Init /\ [][Next]_vars

-----------------------------------------------------------------------------
\* The bytes in the buffer, oldest first: those of A, then those of B.
Contents(b) ==
  [i \in 1 .. GetStoredSize(b) |->
     IF i <= b.mARegionSize THEN b.mem[b.mARegionPointer + i - 1]
     ELSE b.mem[b.mBRegionPointer + i - b.mARegionSize - 1]]

Fifo == INSTANCE ByteFifo WITH queue <- Contents(buf)

\* The buffer is a record of the class's fields, a posted window is inside it.
TypeOK ==
  /\ buf \in Buffer
  /\ posted \in [buf : {Null} \union Offset, len : 0 .. Capacity]

\* B, when there is one, starts at mBuffer and ends before A begins, and A ends
\* before mBufferEnd: the differences of pointers in GetAFreeSpace and
\* GetBFreeSpace are never negative (they would wrap as size_t).
RegionsDisjoint ==
  /\ buf.mARegionPointer + buf.mARegionSize <= Capacity
  /\ buf.mBRegionPointer # Null =>
       buf.mBRegionPointer = 0 /\ buf.mBRegionSize <= buf.mARegionPointer
  /\ buf.mBRegionPointer = Null => buf.mBRegionSize = 0

\* The window a receive in flight may write (PostRecv's WSABUF) is the place
\* RecvCompletion will commit, inside the buffer and outside what is stored.
PostedWindowIsFree ==
  posted # NoRecv =>
    LET w == posted.buf .. (posted.buf + posted.len - 1)
        a == buf.mARegionPointer .. (buf.mARegionPointer + buf.mARegionSize - 1)
        b == buf.mBRegionPointer .. (buf.mBRegionPointer + buf.mBRegionSize - 1)
    IN  /\ posted.buf = GetBuffer(buf)
        /\ w # {} /\ w \subseteq Offset
        /\ w \intersect a = {}
        /\ buf.mBRegionPointer # Null => w \intersect b = {}

\* The offsets of the stored bytes.
Stored(b) ==
  (b.mARegionPointer .. (b.mARegionPointer + b.mARegionSize - 1)) \union
  (b.mBRegionPointer .. (b.mBRegionPointer + b.mBRegionSize - 1))

\* Where a writer that has asked GetFreeSpaceSize puts that many bytes.
FreeWindow(b) ==
  LET at == GetBuffer(AfterFreeSpaceQuery(b))
  IN  at .. (at + GetFreeSpaceSize(b) - 1)

\* What GetFreeSpaceSize promises can be written, no more and not much less:
\* the window is inside mBuffer and hits no stored byte, also when the query
\* has just switched to region B; and although one of the two gaps is always
\* wasted, an empty buffer takes Capacity bytes, and no write is refused that
\* leaves the buffer at most half full, rounded up.
FreeSpaceGuarantee ==
  /\ FreeWindow(buf) \subseteq Offset \ Stored(buf)
  /\ GetStoredSize(buf) = 0 => GetFreeSpaceSize(buf) = Capacity
  /\ \A len \in 1 .. Capacity :
       2 * (GetStoredSize(buf) + len) <= Capacity + 1 => GetFreeSpaceSize(buf) >= len

-----------------------------------------------------------------------------
\* The inductive invariant.  An empty A is at the front, and B is only there
\* while the gap behind A (which it makes unusable) is smaller than the gap
\* before A.  Both are what the free-space guarantee rests on.
WellFormed(b) ==
  /\ b \in Buffer
  /\ b.mARegionPointer + b.mARegionSize <= Capacity
  /\ b.mARegionSize = 0 => b.mARegionPointer = 0
  /\ b.mBRegionPointer = Null => b.mBRegionSize = 0
  /\ b.mBRegionPointer # Null =>
       /\ b.mBRegionPointer = 0
       /\ b.mBRegionSize <= b.mARegionPointer
       /\ GetAFreeSpace(b) < GetSpaceBeforeA(b)

\* The window behind the last stored byte, as long as no query moves it.
WindowSize(b) ==
  IF b.mBRegionPointer # Null THEN GetBFreeSpace(b) ELSE GetAFreeSpace(b)

IndInv ==
  /\ WellFormed(buf)
  /\ posted \in [buf : {Null} \union Offset, len : 0 .. Capacity]
  /\ posted # NoRecv =>
       posted.buf = GetBuffer(buf) /\ posted.len = WindowSize(buf) /\ posted.len > 0

\* Every step of the buffer is a step of a byte queue: what comes out in front
\* is what went in at the back, across the switch between the regions and the
\* memmove of Remove.
ImplementsFifo == Fifo!Spec

=============================================================================

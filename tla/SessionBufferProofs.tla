------------------------- MODULE SessionBufferProofs -------------------------
(***************************************************************************)
(* Proofs about SessionBuffer, for every capacity and every set of bytes.  *)
(***************************************************************************)
EXTENDS SessionBuffer, SequenceTheorems, TLAPS

USE CapacityAssumption, ByteAssumption

\* A query of the free space keeps the buffer well formed, and what
\* GetFreeSpaceSize returns is the window of the buffer it leaves.
LEMMA QueryWellFormed ==
  ASSUME NEW b, WellFormed(b)
  PROVE  /\ WellFormed(AfterFreeSpaceQuery(b))
         /\ GetFreeSpaceSize(b) = WindowSize(AfterFreeSpaceQuery(b))
         /\ GetFreeSpaceSize(b) \in 0 .. Capacity
         /\ AfterFreeSpaceQuery(b).mem = b.mem
         /\ AfterFreeSpaceQuery(b).mARegionPointer = b.mARegionPointer
         /\ AfterFreeSpaceQuery(b).mARegionSize = b.mARegionSize
         /\ AfterFreeSpaceQuery(b).mBRegionSize = b.mBRegionSize
         /\ AfterFreeSpaceQuery(b).mBRegionPointer \in {b.mBRegionPointer, 0}
  BY DEF WellFormed, Buffer, AfterFreeSpaceQuery, GetFreeSpaceSize, WindowSize,
         AllocateB, GetAFreeSpace, GetBFreeSpace, GetSpaceBeforeA, Null

\* A buffer whose memory became m and whose last region grew by len.
Grown(b, m, len) ==
  [mem |-> m,
   mARegionPointer |-> b.mARegionPointer,
   mARegionSize |-> IF b.mBRegionPointer # Null THEN b.mARegionSize
                    ELSE b.mARegionSize + len,
   mBRegionPointer |-> b.mBRegionPointer,
   mBRegionSize |-> IF b.mBRegionPointer # Null THEN b.mBRegionSize + len
                    ELSE b.mBRegionSize]

\* The fields of a buffer after bytes were written and committed.
LEMMA CommitFields ==
  ASSUME NEW b \in Buffer, NEW m, NEW len
  PROVE  Commit([b EXCEPT !.mem = m], len) = Grown(b, m, len)
<1> DEFINE d == [b EXCEPT !.mem = m]
<1>1. /\ d = [mem |-> m, mARegionPointer |-> b.mARegionPointer,
              mARegionSize |-> b.mARegionSize, mBRegionPointer |-> b.mBRegionPointer,
              mBRegionSize |-> b.mBRegionSize]
  BY DEF Buffer
<1> HIDE DEF d
<1>2. Commit(d, len) = Grown(b, m, len)
  BY <1>1 DEF Commit, Grown
<1>3. QED
  BY <1>2 DEF d

\* Writing inside the window and committing what was written keeps the buffer
\* well formed.
LEMMA CommitWellFormed ==
  ASSUME NEW b, WellFormed(b), NEW m \in [Offset -> Byte],
         NEW len \in Nat, len <= WindowSize(b)
  PROVE  WellFormed(Grown(b, m, len))
<1>1. CASE b.mBRegionPointer # Null
  BY <1>1 DEF Grown, WellFormed, Buffer, WindowSize, GetAFreeSpace, GetBFreeSpace,
              GetSpaceBeforeA, Null
<1>2. CASE b.mBRegionPointer = Null
  BY <1>2 DEF Grown, WellFormed, Buffer, WindowSize, GetAFreeSpace, GetBFreeSpace,
              GetSpaceBeforeA, Null
<1>3. QED
  BY <1>1, <1>2

\* What Remove leaves, in the three cases that matter: part of A stays, all of
\* A and part of B go, or everything goes.
LEMMA RemoveCases ==
  ASSUME NEW b, WellFormed(b), NEW len \in Nat
  PROVE  /\ len < b.mARegionSize =>
              Remove(b, len) = WithA(b, b.mARegionPointer + len, b.mARegionSize - len)
         /\ len >= b.mARegionSize /\ len < GetStoredSize(b) =>
              Remove(b, len) =
                [mem |-> Memmove(b.mem, len - b.mARegionSize, GetStoredSize(b) - len),
                 mARegionPointer |-> 0, mARegionSize |-> GetStoredSize(b) - len,
                 mBRegionPointer |-> Null, mBRegionSize |-> 0]
         /\ len >= GetStoredSize(b) =>
              Remove(b, len) =
                [mem |-> b.mem, mARegionPointer |-> 0, mARegionSize |-> 0,
                 mBRegionPointer |-> Null, mBRegionSize |-> 0]
<1> DEFINE a == RemoveFromA(b, len)
           cnt == len - (b.mARegionSize - a.mARegionSize)
           aRemove == IF len > b.mARegionSize THEN b.mARegionSize ELSE len
           bRemove == IF cnt > b.mBRegionSize THEN b.mBRegionSize ELSE cnt
<1>1. a = [mem |-> b.mem,
           mARegionPointer |-> b.mARegionPointer + aRemove,
           mARegionSize |-> b.mARegionSize - aRemove,
           mBRegionPointer |-> b.mBRegionPointer,
           mBRegionSize |-> b.mBRegionSize]
  BY DEF RemoveFromA, WithA
<1>2. cnt = len - aRemove
  BY <1>1 DEF WellFormed, Buffer
<1> HIDE DEF a
<1>3. RemoveFromB(a, cnt) =
        IF cnt > 0 /\ b.mBRegionSize > 0
          THEN [mem |-> b.mem,
                mARegionPointer |-> b.mARegionPointer + aRemove,
                mARegionSize |-> b.mARegionSize - aRemove,
                mBRegionPointer |-> b.mBRegionPointer + bRemove,
                mBRegionSize |-> b.mBRegionSize - bRemove]
          ELSE a
  BY <1>1 DEF RemoveFromB, WithB
<1>4. Remove(b, len) = SwitchToA(RemoveFromB(a, cnt))
  BY DEF Remove, a
<1> HIDE DEF cnt
<1>5. b \in Buffer /\ GetStoredSize(b) = b.mARegionSize + b.mBRegionSize
  BY DEF WellFormed, GetStoredSize
<1>6. ASSUME len < b.mARegionSize
      PROVE  Remove(b, len) = WithA(b, b.mARegionPointer + len, b.mARegionSize - len)
  <2>1. cnt = 0 /\ aRemove = len
    BY <1>2, <1>5, <1>6 DEF Buffer
  <2>2. RemoveFromB(a, cnt) = a
    BY <1>3, <2>1
  <2>3. Remove(b, len) = a
    BY <1>1, <1>4, <1>5, <1>6, <2>1, <2>2 DEF SwitchToA, Buffer
  <2>4. QED
    BY <1>1, <2>1, <2>3 DEF WithA
<1>7. ASSUME len >= b.mARegionSize, len < GetStoredSize(b)
      PROVE  Remove(b, len) =
               [mem |-> Memmove(b.mem, len - b.mARegionSize, GetStoredSize(b) - len),
                mARegionPointer |-> 0, mARegionSize |-> GetStoredSize(b) - len,
                mBRegionPointer |-> Null, mBRegionSize |-> 0]
  <2>1. /\ aRemove = b.mARegionSize /\ cnt = len - b.mARegionSize
        /\ b.mARegionSize \in Nat /\ b.mBRegionSize \in Nat
        /\ b.mBRegionPointer = 0 /\ b.mBRegionSize > 0
    BY <1>2, <1>5, <1>7 DEF WellFormed, Buffer, Null
  <2>2. bRemove = cnt /\ b.mBRegionSize - cnt = GetStoredSize(b) - len
    BY <1>5, <1>7, <2>1
  <2> DEFINE r == RemoveFromB(a, cnt)
  <2>3. /\ r.mem = b.mem /\ r.mARegionSize = 0
        /\ r.mBRegionPointer = len - b.mARegionSize
        /\ r.mBRegionSize = GetStoredSize(b) - len
    <3>1. CASE cnt > 0
      BY <1>3, <2>1, <2>2, <3>1
    <3>2. CASE cnt = 0
      <4>1. r = a
        BY <1>3, <3>2
      <4>2. QED
        BY <1>1, <2>1, <2>2, <3>2, <4>1
    <3>3. QED
      BY <3>1, <3>2, <2>1, <1>7
  <2> HIDE DEF r
  <2>4. r.mBRegionSize > 0
    BY <2>3, <1>5, <1>7, <2>1
  <2>5. SwitchToA(r) =
          [mem |-> Memmove(r.mem, r.mBRegionPointer, r.mBRegionSize),
           mARegionPointer |-> 0, mARegionSize |-> r.mBRegionSize,
           mBRegionPointer |-> Null, mBRegionSize |-> 0]
    BY <2>3, <2>4 DEF SwitchToA
  <2>6. QED
    BY <1>4, <2>3, <2>5 DEF r
<1>8. ASSUME len >= GetStoredSize(b)
      PROVE  Remove(b, len) =
                [mem |-> b.mem, mARegionPointer |-> 0, mARegionSize |-> 0,
                 mBRegionPointer |-> Null, mBRegionSize |-> 0]
  <2>1. /\ aRemove = b.mARegionSize /\ cnt = len - b.mARegionSize
        /\ b.mARegionSize \in Nat /\ b.mBRegionSize \in Nat
        /\ cnt >= b.mBRegionSize
    BY <1>2, <1>5, <1>8 DEF Buffer
  <2> DEFINE r == RemoveFromB(a, cnt)
  <2>2. r.mem = b.mem /\ r.mARegionSize = 0 /\ r.mBRegionSize = 0
    <3>1. CASE cnt > 0 /\ b.mBRegionSize > 0
      BY <1>3, <2>1, <3>1
    <3>2. CASE ~(cnt > 0 /\ b.mBRegionSize > 0)
      <4>1. r = a
        BY <1>3, <3>2
      <4>2. QED
        BY <1>1, <2>1, <3>2, <4>1
    <3>3. QED
      BY <3>1, <3>2
  <2> HIDE DEF r
  <2>3. SwitchToA(r) =
          [mem |-> r.mem, mARegionPointer |-> 0, mARegionSize |-> 0,
           mBRegionPointer |-> Null, mBRegionSize |-> 0]
    BY <2>2 DEF SwitchToA
  <2>4. QED
    BY <1>4, <2>2, <2>3 DEF r
<1>9. QED
  BY <1>6, <1>7, <1>8

\* Memmove of bytes that are inside the buffer gives a memory again.
LEMMA MemmoveType ==
  ASSUME NEW m \in [Offset -> Byte], NEW from \in Nat, NEW len \in Nat,
         from + len <= Capacity
  PROVE  Memmove(m, from, len) \in [Offset -> Byte]
  BY DEF Memmove, Offset

\* Copying bytes of Byte gives a memory again.
LEMMA MemcpyType ==
  ASSUME NEW m \in [Offset -> Byte], NEW at \in Nat, NEW len \in Nat,
         NEW data \in [1 .. len -> Byte], Len(data) = len
  PROVE  Memcpy(m, at, data) \in [Offset -> Byte]
  BY DEF Memcpy, Offset

\* Remove keeps the buffer well formed.
LEMMA RemoveWellFormed ==
  ASSUME NEW b, WellFormed(b), NEW len \in Nat
  PROVE  WellFormed(Remove(b, len))
<1>0. /\ b \in Buffer
      /\ GetStoredSize(b) = b.mARegionSize + b.mBRegionSize
  BY DEF WellFormed, GetStoredSize
<1>1. CASE len < b.mARegionSize
  <2>1. Remove(b, len) = WithA(b, b.mARegionPointer + len, b.mARegionSize - len)
    BY <1>1, RemoveCases
  <2>2. QED
    BY <1>1, <2>1 DEF WithA, WellFormed, Buffer, GetAFreeSpace, GetSpaceBeforeA, Null
<1>2. CASE len >= b.mARegionSize /\ len < GetStoredSize(b)
  <2> DEFINE m == Memmove(b.mem, len - b.mARegionSize, GetStoredSize(b) - len)
  <2>1. Remove(b, len) =
          [mem |-> m,
           mARegionPointer |-> 0, mARegionSize |-> GetStoredSize(b) - len,
           mBRegionPointer |-> Null, mBRegionSize |-> 0]
    BY <1>2, RemoveCases
  <2>2. /\ len - b.mARegionSize \in Nat /\ GetStoredSize(b) - len \in Nat
        /\ (len - b.mARegionSize) + (GetStoredSize(b) - len) <= Capacity
        /\ GetStoredSize(b) - len \in 1 .. Capacity
    BY <1>0, <1>2 DEF Buffer
  <2>3. m \in [Offset -> Byte]
    BY <1>0, <2>2, MemmoveType DEF Buffer
  <2> HIDE DEF m
  <2>4. QED
    BY <2>1, <2>2, <2>3 DEF WellFormed, Buffer, Null
<1>3. CASE len >= GetStoredSize(b)
  <2>1. Remove(b, len) = [mem |-> b.mem, mARegionPointer |-> 0, mARegionSize |-> 0,
                          mBRegionPointer |-> Null, mBRegionSize |-> 0]
    BY <1>3, RemoveCases
  <2>2. QED
    BY <1>0, <2>1 DEF WellFormed, Buffer, Null
<1>4. QED
  BY <1>0, <1>1, <1>2, <1>3 DEF Buffer

\* Where the next byte goes: inside the buffer whenever there is a window.
LEMMA WindowInside ==
  ASSUME NEW b, WellFormed(b)
  PROVE  /\ WindowSize(b) \in 0 .. Capacity
         /\ GetBuffer(b) \in Nat
         /\ GetBuffer(b) + WindowSize(b) <= Capacity
  BY DEF WellFormed, Buffer, WindowSize, GetBuffer, GetAFreeSpace, GetBFreeSpace,
         GetSpaceBeforeA, Null

\* An accepted write leaves a well-formed buffer.
LEMMA WriteWellFormed ==
  ASSUME NEW b, WellFormed(b), NEW data \in Data, Len(data) <= WindowSize(b)
  PROVE  LET m == Memcpy(b.mem, GetBuffer(b), data)
         IN  /\ m \in [Offset -> Byte]
             /\ Commit([b EXCEPT !.mem = Memcpy(@, GetBuffer(b), data)], Len(data))
                  = Grown(b, m, Len(data))
             /\ WellFormed(Grown(b, m, Len(data)))
<1>1. PICK n \in 1 .. Capacity : data \in [1 .. n -> Byte]
  BY DEF Data
<1>2. Len(data) = n /\ n \in Nat
  BY <1>1
<1>3. b \in Buffer /\ GetBuffer(b) \in Nat /\ b.mem \in [Offset -> Byte]
  BY WindowInside DEF WellFormed, Buffer
<1>4. Memcpy(b.mem, GetBuffer(b), data) \in [Offset -> Byte]
  BY <1>1, <1>2, <1>3, MemcpyType
<1>5. QED
  BY <1>2, <1>3, <1>4, CommitFields, CommitWellFormed

-----------------------------------------------------------------------------
\* The initial states satisfy the inductive invariant.
LEMMA InitInv == Init => IndInv
  BY DEF Init, IndInv, NewBuffer, WellFormed, Buffer, NoRecv, Null

\* Every step keeps the inductive invariant.
LEMMA StepInv == IndInv /\ [Next]_vars => IndInv'
<1> SUFFICES ASSUME IndInv, [Next]_vars
             PROVE  IndInv'
  OBVIOUS
<1> USE DEF IndInv
<1>1. ASSUME NEW data \in Data, PostSend(data)
      PROVE  IndInv'
  <2> DEFINE b == AfterFreeSpaceQuery(buf)
  <2>1. WellFormed(b) /\ GetFreeSpaceSize(buf) = WindowSize(b)
    BY QueryWellFormed
  <2>2. CASE GetFreeSpaceSize(buf) < Len(data)
    <3>1. buf' = b
      BY <1>1, <2>2 DEF PostSend
    <3>2. QED
      BY <1>1, <2>1, <3>1 DEF PostSend
  <2>3. CASE ~(GetFreeSpaceSize(buf) < Len(data))
    <3>1. buf' = Commit([b EXCEPT !.mem = Memcpy(@, GetBuffer(b), data)], Len(data))
      BY <1>1, <2>3 DEF PostSend
    <3>2. Len(data) \in Nat
      BY DEF Data
    <3>3. Len(data) <= WindowSize(b)
      BY <2>1, <2>3, <3>2, WindowInside
    <3> HIDE DEF b
    <3>4. WellFormed(buf')
      BY <2>1, <3>1, <3>3, WriteWellFormed
    <3>5. QED
      BY <1>1, <3>4 DEF PostSend
  <2>4. QED
    BY <2>2, <2>3
<1>2. ASSUME PostRecv
      PROVE  IndInv'
  <2>1. /\ WellFormed(buf') /\ GetFreeSpaceSize(buf) = WindowSize(buf')
        /\ GetFreeSpaceSize(buf) \in 0 .. Capacity
    BY <1>2, QueryWellFormed DEF PostRecv
  <2>2. /\ posted'.buf = GetBuffer(buf') /\ posted'.len = WindowSize(buf')
        /\ posted'.len \in 1 .. Capacity
        /\ posted' = [buf |-> GetBuffer(buf'), len |-> WindowSize(buf')]
    BY <1>2, <2>1 DEF PostRecv
  <2>3. GetBuffer(buf') \in Offset
    BY <2>1, <2>2, WindowInside DEF Offset
  <2>4. QED
    BY <2>1, <2>2, <2>3
<1>3. ASSUME NEW data \in Data, RecvCompletion(data)
      PROVE  IndInv'
  <2>1. /\ posted.buf = GetBuffer(buf) /\ Len(data) <= WindowSize(buf)
        /\ buf' = Commit([buf EXCEPT !.mem = Memcpy(@, GetBuffer(buf), data)], Len(data))
    BY <1>3 DEF RecvCompletion
  <2>2. WellFormed(buf')
    BY <2>1, WriteWellFormed
  <2>3. QED
    BY <1>3, <2>2 DEF RecvCompletion, NoRecv
<1>4. CASE RecvError
  BY <1>4 DEF RecvError, NoRecv
<1>5. ASSUME NEW len \in 1 .. Capacity, Consume(len)
      PROVE  IndInv'
  <2>1. WellFormed(buf')
    BY <1>5, RemoveWellFormed DEF Consume
  <2>2. QED
    BY <1>5, <2>1 DEF Consume
<1>6. CASE SessionReset
  <2>1. WellFormed(buf')
    BY <1>6 DEF SessionReset, BufferReset, WellFormed, Buffer, Null
  <2>2. QED
    BY <1>6, <2>1 DEF SessionReset
<1>7. CASE UNCHANGED vars
  BY <1>7 DEF vars
<1>8. QED
  BY <1>1, <1>2, <1>3, <1>4, <1>5, <1>6, <1>7 DEF Next

\* The buffer is well formed in every reachable state.
THEOREM InductiveInvariant == Spec => []IndInv
  BY InitInv, StepInv, PTL DEF Spec

\* The regions never overlap nor leave the buffer, whatever is written,
\* received and dropped: no pointer difference of CircularBuffer.h underflows.
THEOREM RegionSafety == Spec => [](TypeOK /\ RegionsDisjoint)
<1>1. IndInv => TypeOK /\ RegionsDisjoint
  BY DEF IndInv, WellFormed, TypeOK, RegionsDisjoint
<1>2. QED
  BY <1>1, InductiveInvariant, PTL

\* The fields of CircularBuffer keep their ranges, and the receive in flight has
\* a window that begins and ends inside the buffer.
THEOREM BufferTypeOK == Spec => []TypeOK
<1>1. IndInv => TypeOK
  BY DEF IndInv, WellFormed, TypeOK
<1>2. QED
  BY <1>1, InductiveInvariant, PTL

\* The window that PostRecv hands to the kernel contains no stored byte and is
\* where RecvCompletion commits.
THEOREM RecvWindowSafety == Spec => []PostedWindowIsFree
<1>1. IndInv => PostedWindowIsFree
  <2> SUFFICES ASSUME IndInv, posted # NoRecv
               PROVE  PostedWindowIsFree
    BY DEF PostedWindowIsFree
  <2>1. /\ posted.buf = GetBuffer(buf) /\ posted.len = WindowSize(buf)
        /\ posted.len > 0 /\ WellFormed(buf)
    BY DEF IndInv
  <2> DEFINE p == posted.buf
             n == posted.len
             a == buf.mARegionPointer
             k == buf.mARegionSize
             l == buf.mBRegionSize
  <2>2. /\ p \in Nat /\ n \in Nat /\ n > 0 /\ p + n <= Capacity
        /\ a \in Nat /\ k \in Nat /\ l \in Nat
    BY <2>1, WindowInside DEF WellFormed, Buffer
  <2>3. /\ p >= a + k \/ p + n <= a
        /\ buf.mBRegionPointer # Null => buf.mBRegionPointer = 0 /\ p >= l
    BY <2>1 DEF WellFormed, Buffer, GetBuffer, WindowSize, GetAFreeSpace,
                GetBFreeSpace, Null
  <2>4. p \in p .. (p + n - 1) /\ p .. (p + n - 1) \subseteq Offset
    BY <2>2 DEF Offset
  <2>5. (p .. (p + n - 1)) \intersect (a .. (a + k - 1)) = {}
    BY <2>2, <2>3
  <2>6. buf.mBRegionPointer # Null =>
          (p .. (p + n - 1)) \intersect
            (buf.mBRegionPointer .. (buf.mBRegionPointer + l - 1)) = {}
    BY <2>2, <2>3
  <2>7. QED
    BY <2>1, <2>4, <2>5, <2>6 DEF PostedWindowIsFree
<1>2. QED
  BY <1>1, InductiveInvariant, PTL

\* What GetFreeSpaceSize promises is free: GetBuffer, with that many bytes behind
\* it, is inside mBuffer and outside the stored bytes; and a write that leaves the
\* buffer at most half full, rounded up, is never refused.
THEOREM FreeSpace == Spec => []FreeSpaceGuarantee
<1>1. IndInv => FreeSpaceGuarantee
  <2> SUFFICES ASSUME WellFormed(buf)
               PROVE  FreeSpaceGuarantee
    BY DEF IndInv
  <2> DEFINE b == AfterFreeSpaceQuery(buf)
             at == GetBuffer(b)
             n == GetFreeSpaceSize(buf)
  <2>1. /\ WellFormed(b) /\ n = WindowSize(b)
        /\ b.mARegionPointer = buf.mARegionPointer /\ b.mARegionSize = buf.mARegionSize
        /\ b.mBRegionSize = buf.mBRegionSize
        /\ b.mBRegionPointer \in {buf.mBRegionPointer, 0}
    BY QueryWellFormed
  <2>2. at \in Nat /\ n \in Nat /\ at + n <= Capacity
    BY <2>1, WindowInside
  <2>3. /\ buf.mARegionPointer \in Nat /\ buf.mARegionSize \in Nat
        /\ buf.mBRegionPointer \in Int /\ buf.mBRegionSize \in Nat
        /\ buf.mBRegionPointer = Null => buf.mBRegionSize = 0
    BY DEF WellFormed, Buffer, Null
  <2>4. /\ at >= buf.mARegionPointer + buf.mARegionSize \/ at + n <= buf.mARegionPointer
        /\ buf.mBRegionPointer # Null => buf.mBRegionPointer = 0 /\ at >= buf.mBRegionSize
    <3> HIDE DEF b
    <3>1. /\ at >= b.mARegionPointer + b.mARegionSize \/ at + n <= b.mARegionPointer
          /\ b.mBRegionPointer # Null => b.mBRegionPointer = 0 /\ at >= b.mBRegionSize
      BY <2>1 DEF WellFormed, Buffer, GetBuffer, WindowSize, GetAFreeSpace,
                  GetBFreeSpace, Null
    <3>2. buf.mBRegionPointer # Null => buf.mBRegionPointer = 0
      BY DEF WellFormed
    <3> QED
      BY <2>1, <3>1, <3>2 DEF Null
  <2>5. FreeWindow(buf) \subseteq Offset \ Stored(buf)
    <3>1. FreeWindow(buf) = at .. (at + n - 1)
      BY DEF FreeWindow
    <3> HIDE DEF at, n, b
    <3>2. ASSUME NEW o \in at .. (at + n - 1)
          PROVE  o \in Offset /\ o \notin Stored(buf)
      <4>1. o \in Offset
        BY <2>2 DEF Offset
      <4>2. o \notin buf.mARegionPointer .. (buf.mARegionPointer + buf.mARegionSize - 1)
        BY <2>2, <2>3, <2>4
      <4>3. o \notin buf.mBRegionPointer .. (buf.mBRegionPointer + buf.mBRegionSize - 1)
        BY <2>2, <2>3, <2>4
      <4> QED
        BY <4>1, <4>2, <4>3 DEF Stored
    <3> QED
      BY <3>1, <3>2
  <2>6. /\ GetStoredSize(buf) = 0 => GetFreeSpaceSize(buf) = Capacity
        /\ \A len \in 1 .. Capacity :
             2 * (GetStoredSize(buf) + len) <= Capacity + 1 => GetFreeSpaceSize(buf) >= len
    <3> HIDE DEF b, at, n
    <3> QED
      BY DEF WellFormed, Buffer, GetStoredSize, GetFreeSpaceSize, AfterFreeSpaceQuery,
             AllocateB, GetAFreeSpace, GetBFreeSpace, GetSpaceBeforeA, Null
  <2> QED
    BY <2>5, <2>6 DEF FreeSpaceGuarantee
<1>2. QED
  BY <1>1, InductiveInvariant, PTL

-----------------------------------------------------------------------------
(* The buffer implements ByteFifo.                                         *)

\* What a well-formed buffer holds is a byte string of GetStoredSize bytes.
LEMMA ContentsType ==
  ASSUME NEW b, WellFormed(b)
  PROVE  /\ GetStoredSize(b) \in 0 .. Capacity
         /\ Contents(b) \in [1 .. GetStoredSize(b) -> Byte]
         /\ Contents(b) \in Seq(Byte)
         /\ Len(Contents(b)) = GetStoredSize(b)
<1>1. /\ b \in Buffer
      /\ GetStoredSize(b) \in 0 .. Capacity
      /\ GetStoredSize(b) = b.mARegionSize + b.mBRegionSize
  BY DEF WellFormed, Buffer, GetStoredSize, GetAFreeSpace, GetSpaceBeforeA, Null
<1>2. ASSUME NEW i \in 1 .. GetStoredSize(b)
      PROVE  (IF i <= b.mARegionSize THEN b.mem[b.mARegionPointer + i - 1]
              ELSE b.mem[b.mBRegionPointer + i - b.mARegionSize - 1]) \in Byte
  <2>1. CASE i <= b.mARegionSize
    <3>1. b.mARegionPointer + i - 1 \in Offset
      BY <1>1, <2>1 DEF WellFormed, Buffer, Offset
    <3>2. QED
      BY <1>1, <2>1, <3>1 DEF Buffer
  <2>2. CASE ~(i <= b.mARegionSize)
    <3>1. b.mBRegionPointer + i - b.mARegionSize - 1 \in Offset
      BY <1>1, <2>2 DEF WellFormed, Buffer, Offset, Null
    <3>2. QED
      BY <1>1, <2>2, <3>1 DEF Buffer
  <2>3. QED
    BY <2>1, <2>2
<1>3. Contents(b) \in [1 .. GetStoredSize(b) -> Byte]
  BY <1>2 DEF Contents
<1>4. QED
  BY <1>1, <1>3

\* A query of the free space does not change the contents.
LEMMA QueryContents ==
  ASSUME NEW b, WellFormed(b)
  PROVE  Contents(AfterFreeSpaceQuery(b)) = Contents(b)
<1> DEFINE c == AfterFreeSpaceQuery(b)
<1>1. /\ c.mem = b.mem /\ c.mARegionPointer = b.mARegionPointer
      /\ c.mARegionSize = b.mARegionSize /\ c.mBRegionSize = b.mBRegionSize
      /\ WellFormed(c)
  BY QueryWellFormed
<1>2. b.mBRegionSize > 0 => c.mBRegionPointer = b.mBRegionPointer
  BY <1>1 DEF WellFormed, Buffer, Null, AfterFreeSpaceQuery
<1> HIDE DEF c
<1>3. GetStoredSize(c) = GetStoredSize(b) /\ GetStoredSize(b) \in Nat
  BY <1>1, ContentsType DEF GetStoredSize
<1>4. ASSUME NEW i \in 1 .. GetStoredSize(b)
      PROVE  Contents(c)[i] = Contents(b)[i]
  <2>1. CASE i <= b.mARegionSize
    BY <1>1, <1>3, <2>1 DEF Contents
  <2>2. CASE ~(i <= b.mARegionSize)
    <3>1. b.mBRegionSize > 0
      BY <1>1, <2>2 DEF GetStoredSize, WellFormed, Buffer
    <3>2. QED
      BY <1>1, <1>2, <1>3, <2>2, <3>1 DEF Contents
  <2>3. QED
    BY <2>1, <2>2
<1>5. /\ Contents(c) \in Seq(Byte) /\ Len(Contents(c)) = GetStoredSize(b)
      /\ Contents(b) \in Seq(Byte) /\ Len(Contents(b)) = GetStoredSize(b)
  BY <1>1, <1>3, ContentsType
<1>6. Contents(c) = Contents(b)
  BY <1>4, <1>5, SeqEqual
<1>7. QED
  BY <1>6 DEF c

\* An accepted write appends its bytes to the contents.
LEMMA WriteContents ==
  ASSUME NEW b, WellFormed(b), NEW data \in Data, Len(data) <= WindowSize(b)
  PROVE  LET c == Grown(b, Memcpy(b.mem, GetBuffer(b), data), Len(data))
         IN  /\ Contents(c) = Contents(b) \o data
             /\ Len(Contents(b)) + Len(data) <= Capacity
<1> DEFINE m == Memcpy(b.mem, GetBuffer(b), data)
           c == Grown(b, m, Len(data))
           n == Len(data)
<1>1. data \in Seq(Byte) /\ n \in Nat
  BY DEF Data
<1>2. WellFormed(c) /\ m \in [Offset -> Byte]
  BY WriteWellFormed
<1>3. /\ c.mem = m /\ c.mARegionPointer = b.mARegionPointer
      /\ c.mBRegionPointer = b.mBRegionPointer
      /\ b.mBRegionPointer # Null =>
           c.mARegionSize = b.mARegionSize /\ c.mBRegionSize = b.mBRegionSize + n
      /\ b.mBRegionPointer = Null =>
           c.mARegionSize = b.mARegionSize + n /\ c.mBRegionSize = b.mBRegionSize
  BY DEF Grown
<1>4. /\ b \in Buffer /\ b.mem \in [Offset -> Byte]
      /\ b.mARegionSize \in Nat /\ b.mBRegionSize \in Nat /\ b.mARegionPointer \in Nat
      /\ b.mBRegionPointer = Null \/ b.mBRegionPointer = 0
      /\ b.mBRegionPointer = Null => b.mBRegionSize = 0
  BY DEF WellFormed, Buffer
<1> HIDE DEF c
<1>5. GetStoredSize(c) = GetStoredSize(b) + n
  BY <1>1, <1>3, <1>4 DEF GetStoredSize
<1>6. \A o \in Offset :
        m[o] = IF o >= GetBuffer(b) /\ o < GetBuffer(b) + n
                 THEN data[o - GetBuffer(b) + 1] ELSE b.mem[o]
  BY DEF Memcpy
<1> HIDE DEF m
<1>7. /\ Contents(b) \in Seq(Byte) /\ Len(Contents(b)) = GetStoredSize(b)
      /\ Contents(c) \in Seq(Byte) /\ Len(Contents(c)) = GetStoredSize(b) + n
      /\ GetStoredSize(b) \in Nat /\ GetStoredSize(b) + n \in 0 .. Capacity
  BY <1>2, <1>5, ContentsType
<1>8. /\ Contents(b) \o data \in Seq(Byte)
      /\ Len(Contents(b) \o data) = GetStoredSize(b) + n
      /\ \A i \in 1 .. GetStoredSize(b) + n :
           (Contents(b) \o data)[i] =
             IF i <= GetStoredSize(b) THEN Contents(b)[i] ELSE data[i - GetStoredSize(b)]
  BY <1>1, <1>7, ConcatProperties
<1>9. ASSUME NEW i \in 1 .. GetStoredSize(b) + n
      PROVE  Contents(c)[i] = (Contents(b) \o data)[i]
  <2>1. Contents(c)[i] = IF i <= c.mARegionSize THEN m[b.mARegionPointer + i - 1]
                         ELSE m[b.mBRegionPointer + i - c.mARegionSize - 1]
    BY <1>3, <1>5 DEF Contents
  <2>2. CASE i <= GetStoredSize(b)
    <3>1. Contents(b)[i] = IF i <= b.mARegionSize THEN b.mem[b.mARegionPointer + i - 1]
                           ELSE b.mem[b.mBRegionPointer + i - b.mARegionSize - 1]
      BY <1>7, <2>2 DEF Contents
    <3>2. CASE i <= b.mARegionSize
      <4> DEFINE o == b.mARegionPointer + i - 1
      <4>1. o \in Offset /\ ~(o >= GetBuffer(b) /\ o < GetBuffer(b) + n)
        BY <1>1, <1>4, <3>2, SMTT(30) DEF WellFormed, Buffer, Offset, GetBuffer, WindowSize,
                                GetBFreeSpace, GetAFreeSpace, Null
      <4>2. i <= c.mARegionSize
        BY <1>1, <1>3, <1>4, <3>2
      <4>3. Contents(c)[i] = m[o] /\ Contents(b)[i] = b.mem[o]
        BY <2>1, <3>1, <3>2, <4>2
      <4>4. m[o] = b.mem[o]
        BY <1>6, <4>1
      <4>5. QED
        BY <1>8, <2>2, <4>3, <4>4
    <3>3. CASE ~(i <= b.mARegionSize)
      <4> DEFINE o == b.mBRegionPointer + i - b.mARegionSize - 1
      <4>1. b.mBRegionPointer = 0 /\ b.mBRegionPointer # Null
        BY <1>4, <2>2, <3>3 DEF GetStoredSize, Null
      <4>2. o \in Offset /\ ~(o >= GetBuffer(b) /\ o < GetBuffer(b) + n)
        BY <1>1, <1>4, <2>2, <3>3, <4>1 DEF WellFormed, Buffer, Offset, GetBuffer, GetStoredSize
      <4>3. Contents(c)[i] = m[o] /\ Contents(b)[i] = b.mem[o]
        BY <1>3, <2>1, <3>1, <3>3, <4>1
      <4>4. m[o] = b.mem[o]
        BY <1>6, <4>2
      <4>5. QED
        BY <1>8, <2>2, <4>3, <4>4
    <3>4. QED
      BY <3>2, <3>3
  <2>3. CASE ~(i <= GetStoredSize(b))
    <3> DEFINE j == i - GetStoredSize(b)
               o == GetBuffer(b) + j - 1
    <3>1. j \in 1 .. n /\ (Contents(b) \o data)[i] = data[j]
      BY <1>1, <1>7, <1>8, <2>3
    <3>2. GetBuffer(b) \in Nat /\ GetBuffer(b) + n <= Capacity
      BY <1>1, WindowInside
    <3>3. o \in Offset /\ o >= GetBuffer(b) /\ o < GetBuffer(b) + n /\ o - GetBuffer(b) + 1 = j
      BY <1>1, <3>1, <3>2 DEF Offset
    <3>4. m[o] = data[j]
      BY <1>6, <3>3
    <3>5. Contents(c)[i] = m[o]
      <4>1. CASE b.mBRegionPointer # Null
        <5>1. o = b.mBRegionPointer + i - c.mARegionSize - 1
          BY <1>3, <1>4, <4>1 DEF GetBuffer, GetStoredSize, Null
        <5>2. ~(i <= c.mARegionSize)
          BY <1>3, <1>4, <2>3, <4>1 DEF GetStoredSize
        <5>3. QED
          BY <2>1, <5>1, <5>2
      <4>2. CASE b.mBRegionPointer = Null
        <5>1. o = b.mARegionPointer + i - 1
          BY <1>4, <4>2 DEF GetBuffer, GetStoredSize
        <5>2. i <= c.mARegionSize
          BY <1>3, <1>4, <4>2 DEF GetStoredSize
        <5>3. QED
          BY <2>1, <5>1, <5>2
      <4>3. QED
        BY <4>1, <4>2
    <3>6. QED
      BY <3>1, <3>4, <3>5
  <2>4. QED
    BY <2>2, <2>3
<1>10. Contents(c) = Contents(b) \o data
  BY <1>7, <1>8, <1>9, SeqEqual
<1>11. QED
  BY <1>7, <1>10 DEF c, m

\* Remove drops the first len bytes of the contents, or all of them.
LEMMA RemoveContents ==
  ASSUME NEW b, WellFormed(b), NEW len \in Nat
  PROVE  Contents(Remove(b, len)) = SubSeq(Contents(b), len + 1, Len(Contents(b)))
<1> DEFINE c == Remove(b, len)
           s == GetStoredSize(b)
           q == SubSeq(Contents(b), len + 1, Len(Contents(b)))
<1>1. /\ Contents(b) \in Seq(Byte) /\ Len(Contents(b)) = s /\ s \in Nat
      /\ Contents(b) \in [1 .. s -> Byte]
  BY ContentsType
<1>2. /\ q \in Seq(Byte)
      /\ Len(q) = IF len + 1 <= s THEN s - len ELSE 0
      /\ \A i \in 1 .. s - len : q[i] = Contents(b)[len + i]
  <2>1. \A i \in (len + 1) .. s : Contents(b)[i] \in Byte
    BY <1>1
  <2>2. len + 1 \in Int /\ s \in Int
    BY <1>1
  <2>3. /\ q \in Seq(Byte)
        /\ Len(q) = IF len + 1 <= s THEN s - (len + 1) + 1 ELSE 0
        /\ \A i \in 1 .. s - (len + 1) + 1 : q[i] = Contents(b)[(len + 1) + i - 1]
    BY <1>1, <2>1, <2>2, SubSeqProperties
  <2>4. QED
    BY <1>1, <2>3
<1>3. WellFormed(c)
  BY RemoveWellFormed
<1>4. /\ b \in Buffer /\ s = b.mARegionSize + b.mBRegionSize
      /\ b.mARegionSize \in Nat /\ b.mBRegionSize \in Nat /\ b.mARegionPointer \in Nat
      /\ b.mBRegionSize > 0 => b.mBRegionPointer = 0
      /\ s <= Capacity
  BY ContentsType DEF WellFormed, Buffer, GetStoredSize
<1> HIDE DEF q
<1>5. ASSUME Contents(c) \in Seq(Byte),
             Len(Contents(c)) = Len(q),
             \A i \in 1 .. s - len : Contents(c)[i] = Contents(b)[len + i]
      PROVE  Contents(c) = q
  <2>1. \A i \in 1 .. Len(Contents(c)) : Contents(c)[i] = q[i]
    BY <1>1, <1>2, <1>5
  <2>2. QED
    BY <1>2, <1>5, <2>1, SeqEqual
<1>6. CASE len < b.mARegionSize
  <2>1. c = WithA(b, b.mARegionPointer + len, b.mARegionSize - len)
    BY <1>6, RemoveCases
  <2> HIDE DEF c
  <2>2. GetStoredSize(c) = s - len
    BY <1>4, <2>1 DEF GetStoredSize, WithA
  <2>3. ASSUME NEW i \in 1 .. s - len
        PROVE  Contents(c)[i] = Contents(b)[len + i]
    <3>1. /\ c.mem = b.mem /\ c.mARegionSize = b.mARegionSize - len
          /\ c.mARegionPointer = b.mARegionPointer + len
          /\ c.mBRegionPointer = b.mBRegionPointer
      BY <2>1 DEF WithA
    <3>2. Contents(c)[i] =
            IF i <= c.mARegionSize THEN c.mem[c.mARegionPointer + i - 1]
            ELSE c.mem[c.mBRegionPointer + i - c.mARegionSize - 1]
      BY <2>2 DEF Contents
    <3>3. Contents(b)[len + i] =
            IF len + i <= b.mARegionSize THEN b.mem[b.mARegionPointer + (len + i) - 1]
            ELSE b.mem[b.mBRegionPointer + (len + i) - b.mARegionSize - 1]
      <4>1. len + i \in 1 .. s
        BY <1>1
      <4>2. QED
        BY <4>1 DEF Contents
    <3>4. CASE len + i <= b.mARegionSize
      <4>1. i <= c.mARegionSize
        BY <1>4, <3>1, <3>4
      <4>2. c.mARegionPointer + i - 1 = b.mARegionPointer + (len + i) - 1
        BY <1>4, <3>1
      <4>3. QED
        BY <3>1, <3>2, <3>3, <3>4, <4>1, <4>2
    <3>5. CASE ~(len + i <= b.mARegionSize)
      <4>1. ~(i <= c.mARegionSize)
        BY <1>4, <3>1, <3>5
      <4>2. c.mBRegionPointer + i - c.mARegionSize - 1
              = b.mBRegionPointer + (len + i) - b.mARegionSize - 1
        BY <1>1, <1>4, <3>1, <3>5
      <4>3. QED
        BY <3>1, <3>2, <3>3, <3>5, <4>1, <4>2
    <3>6. QED
      BY <3>4, <3>5
  <2>4. Contents(c) \in Seq(Byte) /\ Len(Contents(c)) = Len(q)
    BY <1>1, <1>2, <1>3, <1>4, <1>6, <2>2, ContentsType
  <2>5. QED
    BY <1>5, <2>3, <2>4 DEF c, q
<1>7. CASE len >= b.mARegionSize /\ len < s
  <2> DEFINE m == Memmove(b.mem, len - b.mARegionSize, s - len)
  <2>1. c = [mem |-> m, mARegionPointer |-> 0, mARegionSize |-> s - len,
             mBRegionPointer |-> Null, mBRegionSize |-> 0]
    BY <1>7, RemoveCases
  <2>2. \A o \in Offset : m[o] = IF o < s - len THEN b.mem[o + (len - b.mARegionSize)]
                                 ELSE b.mem[o]
    BY DEF Memmove
  <2> HIDE DEF c, m
  <2>3. GetStoredSize(c) = s - len
    BY <1>1, <2>1 DEF GetStoredSize
  <2>4. ASSUME NEW i \in 1 .. s - len
        PROVE  Contents(c)[i] = Contents(b)[len + i]
    <3>1. Contents(c)[i] = m[i - 1]
      BY <1>1, <2>1, <2>3 DEF Contents
    <3>2. i - 1 \in Offset /\ i - 1 < s - len
      BY <1>1, <1>4 DEF Offset
    <3>3. m[i - 1] = b.mem[(i - 1) + (len - b.mARegionSize)]
      BY <2>2, <3>2
    <3>4. b.mBRegionPointer = 0
      BY <1>4, <1>7
    <3>5. len + i \in 1 .. s /\ ~(len + i <= b.mARegionSize)
      BY <1>1, <1>4, <1>7
    <3>6. Contents(b)[len + i] = b.mem[b.mBRegionPointer + (len + i) - b.mARegionSize - 1]
      BY <3>5 DEF Contents
    <3>7. b.mBRegionPointer + (len + i) - b.mARegionSize - 1 = (i - 1) + (len - b.mARegionSize)
      BY <1>1, <1>4, <3>4
    <3>8. QED
      BY <3>1, <3>3, <3>6, <3>7
  <2>5. Contents(c) \in Seq(Byte) /\ Len(Contents(c)) = Len(q)
    BY <1>1, <1>2, <1>3, <1>7, <2>3, ContentsType
  <2>6. QED
    BY <1>5, <2>4, <2>5 DEF c, q
<1>8. CASE len >= s
  <2>1. c = [mem |-> b.mem, mARegionPointer |-> 0, mARegionSize |-> 0,
             mBRegionPointer |-> Null, mBRegionSize |-> 0]
    BY <1>8, RemoveCases
  <2> HIDE DEF c
  <2>2. GetStoredSize(c) = 0
    BY <2>1 DEF GetStoredSize
  <2>3. Contents(c) \in Seq(Byte) /\ Len(Contents(c)) = Len(q)
    BY <1>1, <1>2, <1>3, <1>8, <2>2, ContentsType
  <2>4. \A i \in 1 .. s - len : Contents(c)[i] = Contents(b)[len + i]
    BY <1>1, <1>8
  <2>5. QED
    BY <1>5, <2>3, <2>4 DEF c, q
<1>9. QED
  BY <1>1, <1>4, <1>6, <1>7, <1>8

\* A buffer whose regions are empty holds the empty string.
LEMMA EmptyContents ==
  ASSUME NEW b, GetStoredSize(b) = 0
  PROVE  Contents(b) = << >>
  BY DEF Contents

\* SessionBuffer implements ByteFifo: the bytes leave the buffer in the order
\* in which they were written or received, none lost and none repeated.
THEOREM BufferIsFifo == Spec => ImplementsFifo
<1>1. Init => Fifo!Init
  BY EmptyContents DEF Init, Fifo!Init, NewBuffer, GetStoredSize
<1>2. IndInv /\ [Next]_vars => [Fifo!Next]_(Contents(buf))
  <2> SUFFICES ASSUME IndInv, [Next]_vars
               PROVE  [Fifo!Next]_(Contents(buf))
    OBVIOUS
  <2>0. WellFormed(buf)
    BY DEF IndInv
  <2>1. ASSUME NEW data \in Data, NEW b, WellFormed(b), Contents(b) = Contents(buf),
               Len(data) <= WindowSize(b),
               buf' = Commit([b EXCEPT !.mem = Memcpy(@, GetBuffer(b), data)], Len(data))
        PROVE  Fifo!Next
    <3>1. /\ Contents(buf') = Contents(buf) \o data
          /\ Len(Contents(buf)) + Len(data) <= Capacity
      BY <2>1, WriteWellFormed, WriteContents
    <3>2. PICK n \in 1 .. Capacity : data \in [1 .. n -> Byte]
      BY DEF Data
    <3>3. data \in Seq(Byte) /\ Len(data) = n
      BY <3>2
    <3>4. Contents(buf) \in Seq(Byte)
      BY <2>0, ContentsType
    <3> DEFINE q == Contents(buf)
    <3> HIDE DEF q
    <3>5. /\ q \o data \in Seq(Byte) /\ Len(q \o data) = Len(q) + n
          /\ SubSeq(q \o data, 1, Len(q)) = q
      <4>1. q \in Seq(Byte) /\ Len(q) \in Nat
        BY <3>4 DEF q
      <4>2. /\ q \o data \in Seq(Byte) /\ Len(q \o data) = Len(q) + n
            /\ \A i \in 1 .. Len(q) : (q \o data)[i] = q[i]
        BY <3>3, <4>1
      <4>3. /\ SubSeq(q \o data, 1, Len(q)) \in Seq(Byte)
            /\ Len(SubSeq(q \o data, 1, Len(q))) = Len(q)
            /\ \A i \in 1 .. Len(q) : SubSeq(q \o data, 1, Len(q))[i] = q[i]
        BY <4>1, <4>2, SubSeqProperties
      <4> QED
        BY <4>1, <4>2, <4>3, SeqEqual
    <3>6. QED
      BY <3>1, <3>2, <3>3, <3>4, <3>5 DEF Fifo!Next, Fifo!Enqueue, q
  <2>2. ASSUME NEW data \in Data, PostSend(data)
        PROVE  [Fifo!Next]_(Contents(buf))
    <3> DEFINE b == AfterFreeSpaceQuery(buf)
    <3>1. /\ WellFormed(b) /\ GetFreeSpaceSize(buf) = WindowSize(b)
          /\ Contents(b) = Contents(buf) /\ GetFreeSpaceSize(buf) \in Int
      BY <2>0, QueryWellFormed, QueryContents
    <3>2. CASE GetFreeSpaceSize(buf) < Len(data)
      BY <2>2, <3>1, <3>2 DEF PostSend
    <3>3. CASE ~(GetFreeSpaceSize(buf) < Len(data))
      <4>1. buf' = Commit([b EXCEPT !.mem = Memcpy(@, GetBuffer(b), data)], Len(data))
        BY <2>2, <3>3 DEF PostSend
      <4>2. Len(data) \in Nat
        BY DEF Data
      <4>3. Len(data) <= WindowSize(b)
        BY <3>1, <3>3, <4>2
      <4> HIDE DEF b
      <4>4. QED
        BY <2>1, <3>1, <4>1, <4>3
    <3>4. QED
      BY <3>2, <3>3
  <2>3. ASSUME PostRecv
        PROVE  Contents(buf') = Contents(buf)
    BY <2>0, <2>3, QueryContents DEF PostRecv
  <2>4. ASSUME NEW data \in Data, RecvCompletion(data)
        PROVE  Fifo!Next
    <3>1. /\ Len(data) <= WindowSize(buf)
          /\ buf' = Commit([buf EXCEPT !.mem = Memcpy(@, GetBuffer(buf), data)], Len(data))
      BY <2>4 DEF RecvCompletion, IndInv
    <3>2. QED
      BY <2>0, <2>1, <3>1
  <2>5. ASSUME NEW len \in 1 .. Capacity, Consume(len)
        PROVE  Fifo!Next
    <3>1. Contents(buf') = SubSeq(Contents(buf), len + 1, Len(Contents(buf)))
      <4>1. len \in Nat /\ buf' = Remove(buf, len)
        BY <2>5 DEF Consume
      <4>2. Contents(Remove(buf, len)) = SubSeq(Contents(buf), len + 1, Len(Contents(buf)))
        BY <2>0, <4>1, RemoveContents
      <4>3. QED
        BY <4>1, <4>2
    <3>2. QED
      BY <3>1 DEF Fifo!Next, Fifo!Drop
  <2>6. ASSUME SessionReset
        PROVE  Fifo!Next
    <3>1. Contents(buf') = << >>
      BY <2>6, EmptyContents DEF SessionReset, BufferReset, GetStoredSize
    <3>2. QED
      BY <3>1 DEF Fifo!Next, Fifo!Clear
  <2>7. CASE RecvError \/ UNCHANGED vars
    BY <2>7 DEF RecvError, vars
  <2>8. QED
    BY <2>2, <2>3, <2>4, <2>5, <2>6, <2>7 DEF Next
<1>3. QED
  BY <1>1, <1>2, InductiveInvariant, PTL DEF Spec, ImplementsFifo, Fifo!Spec
=============================================================================

-------------------------- MODULE PacketParserProofs -------------------------
(***************************************************************************)
(* Proofs about PacketParser: what OnReceive does to the receive buffer is *)
(* what SessionBuffer allows, so that everything proved of SessionBuffer   *)
(* holds with the parser on top, and the parser's raw pointer is valid as  *)
(* long as no packet claims a negative size.                               *)
(***************************************************************************)
EXTENDS PacketParser, SessionBufferProofs

USE CapacityAssumption

\* A well-formed buffer has its oldest bytes in region A, so the contiguous
\* ones are those of A.
LEMMA ContiguousIsA ==
  ASSUME NEW b, WellFormed(b)
  PROVE  /\ b.mARegionSize \in 0 .. Capacity
         /\ b.mARegionPointer \in 0 .. Capacity
         /\ b.mBRegionSize > 0 => b.mARegionSize > 0
         /\ GetContiguiousBytes(b) = b.mARegionSize
         /\ b.mARegionSize > 0 => GetBufferStart(b) = b.mARegionPointer
         /\ GetBufferStart(b) \in Int
  BY DEF WellFormed, Buffer, GetContiguiousBytes, GetBufferStart, GetAFreeSpace,
         GetSpaceBeforeA, Null

\* After a prefix of the contiguous bytes is removed, the others are where they
\* were, whatever happens to the two regions; when they all go, what is left in
\* the buffer is at its front.
LEMMA RemovePrefix ==
  ASSUME NEW b, WellFormed(b), NEW n \in Nat
  PROVE  /\ n < GetContiguiousBytes(b) =>
              /\ GetBufferStart(Remove(b, n)) = GetBufferStart(b) + n
              /\ GetContiguiousBytes(Remove(b, n)) = GetContiguiousBytes(b) - n
         /\ n >= GetContiguiousBytes(b) => GetBufferStart(Remove(b, n)) <= 0
<1>1. /\ GetContiguiousBytes(b) = b.mARegionSize /\ b.mARegionSize \in Nat
      /\ b.mARegionSize > 0 => GetBufferStart(b) = b.mARegionPointer
  BY ContiguousIsA
<1>2. ASSUME n < b.mARegionSize
      PROVE  /\ GetBufferStart(Remove(b, n)) = GetBufferStart(b) + n
             /\ GetContiguiousBytes(Remove(b, n)) = GetContiguiousBytes(b) - n
  <2>1. Remove(b, n) = WithA(b, b.mARegionPointer + n, b.mARegionSize - n)
    BY <1>2, RemoveCases
  <2>2. /\ Remove(b, n).mARegionPointer = b.mARegionPointer + n
        /\ Remove(b, n).mARegionSize = b.mARegionSize - n
    BY <2>1 DEF WithA
  <2> QED
    BY <1>1, <1>2, <2>2 DEF GetBufferStart, GetContiguiousBytes
<1>3. ASSUME n >= b.mARegionSize
      PROVE  GetBufferStart(Remove(b, n)) <= 0
  <2>1. GetStoredSize(b) \in Nat
    BY DEF WellFormed, Buffer, GetStoredSize
  <2>2. Remove(b, n).mARegionPointer = 0 /\ Remove(b, n).mBRegionPointer = Null
    BY <1>3, <2>1, RemoveCases
  <2> QED
    BY <2>2 DEF GetBufferStart, Null
<1> QED
  BY <1>1, <1>2, <1>3

\* Removing nothing, and removing more than there can be.
LEMMA RemoveExtremes ==
  ASSUME NEW b, WellFormed(b)
  PROVE  /\ Remove(b, 0) = b
         /\ \A n \in Nat : n >= Capacity => Remove(b, n) = Remove(b, Capacity)
<1>1. /\ b = [mem |-> b.mem,
             mARegionPointer |-> b.mARegionPointer, mARegionSize |-> b.mARegionSize,
             mBRegionPointer |-> b.mBRegionPointer, mBRegionSize |-> b.mBRegionSize]
      /\ b.mARegionSize \in Nat /\ b.mBRegionSize \in Nat
      /\ b.mARegionPointer \in 0 .. Capacity
      /\ GetStoredSize(b) = b.mARegionSize + b.mBRegionSize
      /\ GetStoredSize(b) <= Capacity
  BY ContentsType DEF WellFormed, Buffer, GetStoredSize
<1>2. Remove(b, 0) = b
  <2>1. CASE 0 < b.mARegionSize
    <3>1. Remove(b, 0) = WithA(b, b.mARegionPointer + 0, b.mARegionSize - 0)
      BY <2>1, RemoveCases
    <3> QED
      BY <1>1, <3>1 DEF WithA
  <2>2. CASE b.mARegionSize = 0
    <3>1. /\ b.mARegionPointer = 0 /\ b.mBRegionPointer = Null /\ b.mBRegionSize = 0
      BY <2>2 DEF WellFormed, Buffer, GetAFreeSpace, GetSpaceBeforeA
    <3>2. Remove(b, 0) = [mem |-> b.mem, mARegionPointer |-> 0, mARegionSize |-> 0,
                          mBRegionPointer |-> Null, mBRegionSize |-> 0]
      BY <1>1, <2>2, <3>1, RemoveCases
    <3> QED
      BY <1>1, <2>2, <3>1, <3>2
  <2> QED
    BY <1>1, <2>1, <2>2
<1>3. ASSUME NEW n \in Nat, n >= Capacity
      PROVE  Remove(b, n) = Remove(b, Capacity)
  <2>1. n >= GetStoredSize(b) /\ Capacity >= GetStoredSize(b) /\ Capacity \in Nat
    BY <1>1, <1>3
  <2> QED
    BY <2>1, RemoveCases
<1> QED
  BY <1>2, <1>3

\* A header with a handler, its size as any number: how far the stream goes and
\* how much is removed are the same exactly when the size is not negative.
LEMMA HeaderFacts ==
  ASSUME ParserInv, HasHandler
  PROVE  /\ WellFormed(buf) /\ posted = NoRecv
         /\ stream.at \in Nat /\ stream.left \in Nat
         /\ stream.at + stream.left <= Capacity /\ GetBufferStart(buf) <= stream.at
         /\ mSize \in Int
         /\ Skipped(mSize) \in Nat /\ HEADER_SIZE + Skipped(mSize) <= stream.left
         /\ SizeT(HEADER_SIZE + mSize) \in Nat
         /\ mSize >= 0 => SizeT(HEADER_SIZE + mSize) = HEADER_SIZE + Skipped(mSize)
         /\ mSize < 0 => \/ SizeT(HEADER_SIZE + mSize) < HEADER_SIZE
                         \/ SizeT(HEADER_SIZE + mSize) >= Capacity
<1>1. /\ WellFormed(buf) /\ posted = NoRecv
      /\ stream.at \in Int /\ stream.left \in Nat
      /\ stream.at >= 0 /\ stream.at + stream.left <= Capacity
      /\ GetBufferStart(buf) <= stream.at
  BY DEF ParserInv, IndInv, HasHandler
<1>2. stream.left >= 2 /\ stream.left - 2 >= mSize
  BY DEF HasHandler, HasPacket, HasHeader, HEADER_SIZE
<1>3. mSize \in Byte
  <2>1. stream.at \in Offset
    BY <1>1, <1>2 DEF Offset
  <2>2. buf.mem \in [Offset -> Byte]
    BY <1>1 DEF WellFormed, Buffer
  <2> QED
    BY <2>1, <2>2 DEF mSize
<1>4. /\ mSize \in Int /\ SizeModulus \in Nat
      /\ HEADER_SIZE + mSize + SizeModulus >= Capacity
  BY <1>3, SizeAssumption
<1> HIDE DEF mSize
<1>5. Capacity \in Nat
  OBVIOUS
<1> QED
  BY <1>1, <1>2, <1>4, <1>5 DEF Skipped, SizeT, HEADER_SIZE

\* A round of the loop is one removal, from a buffer that nothing is received
\* into, or removes nothing.
LEMMA DispatchConsumes ==
  ASSUME ParserInv, Dispatch
  PROVE  [Next]_vars
<1> DEFINE n == SizeT(HEADER_SIZE + mSize)
<1>1. /\ WellFormed(buf) /\ posted = NoRecv /\ n \in Nat
  BY HeaderFacts DEF Dispatch
<1>2. buf' = Remove(buf, n) /\ UNCHANGED posted
  BY DEF Dispatch
<1> HIDE DEF n
<1>3. CASE n = 0
  BY <1>1, <1>2, <1>3, RemoveExtremes DEF vars
<1>4. CASE n \in 1 .. Capacity
  BY <1>1, <1>2, <1>4 DEF Next, Consume
<1>5. CASE n > Capacity
  <2>1. buf' = Remove(buf, Capacity) /\ Capacity \in 1 .. Capacity
    BY <1>1, <1>2, <1>5, RemoveExtremes
  <2> QED
    BY <1>1, <1>2, <2>1 DEF Next, Consume
<1> QED
  BY <1>1, <1>3, <1>4, <1>5

\* With the parser on top, the buffer takes no step that SessionBuffer does not
\* have.
LEMMA ParserStepIsBufferStep == ParserInv /\ [ParserNext]_parserVars => [Next]_vars
<1> SUFFICES ASSUME ParserInv, [ParserNext]_parserVars
             PROVE  [Next]_vars
  OBVIOUS
<1>1. ASSUME NEW data \in Data, OnReceive(data)
      PROVE  Next
  BY <1>1 DEF OnReceive, Next
<1>2. CASE Dispatch
  BY <1>2, DispatchConsumes
<1>3. CASE ParseEnd \/ UNCHANGED parserVars
  BY <1>3 DEF ParseEnd, parserVars, vars
<1>4. CASE \/ \E data \in Data : PostSend(data)
           \/ PostRecv \/ RecvError \/ SessionReset
           \/ \E len \in 1 .. Capacity : Consume(len)
  BY <1>4 DEF Next
<1> QED
  BY <1>1, <1>2, <1>3, <1>4 DEF ParserNext

\* The stream that OnReceive makes: the contiguous bytes, which are in region A.
LEMMA ReceiveStream ==
  ASSUME ParserInv, IndInv', NEW data \in Data, OnReceive(data)
  PROVE  /\ posted' = NoRecv /\ FollowsBuffer'
         /\ stream' \in [at : Int, left : Nat]
         /\ stream'.at >= 0 /\ stream'.at + stream'.left <= Capacity
<1>1. /\ posted' = NoRecv
      /\ buf' = Commit([buf EXCEPT !.mem = Memcpy(@, posted.buf, data)], Len(data))
      /\ stream' = [at |-> GetBufferStart(buf'), left |-> GetContiguiousBytes(buf')]
  BY DEF OnReceive, RecvCompletion
<1>2. WellFormed(buf') /\ WellFormed(buf)
  BY DEF ParserInv, IndInv
<1>3. buf'.mARegionSize > 0
  <2>1. Len(data) \in Nat \ {0}
    BY DEF Data
  <2>2. /\ buf.mARegionSize \in Nat /\ buf.mBRegionSize \in Nat /\ buf \in Buffer
    BY <1>2 DEF WellFormed, Buffer
  <2>3. buf'.mARegionSize > 0 \/ buf'.mBRegionSize > 0
    BY <1>1, <2>1, <2>2 DEF Commit, Buffer
  <2> QED
    BY <1>2, <2>3, ContiguousIsA
<1>4. /\ stream'.at = buf'.mARegionPointer /\ stream'.left = buf'.mARegionSize
      /\ buf'.mARegionPointer \in 0 .. Capacity /\ buf'.mARegionSize \in 0 .. Capacity
      /\ buf'.mARegionPointer + buf'.mARegionSize <= Capacity
  <2>1. buf'.mARegionPointer + buf'.mARegionSize <= Capacity
    BY <1>2 DEF WellFormed
  <2> QED
    BY <1>1, <1>2, <1>3, <2>1, ContiguousIsA
<1>5. FollowsBuffer'
  BY <1>1 DEF FollowsBuffer
<1> QED
  BY <1>1, <1>4, <1>5

\* Where a round of the loop leaves the stream and the first stored byte.
LEMMA DispatchStream ==
  ASSUME ParserInv, Dispatch
  PROVE  /\ posted' = NoRecv
         /\ stream' \in [at : Int, left : Nat]
         /\ stream'.at >= 0 /\ stream'.at + stream'.left <= Capacity
         /\ GetBufferStart(buf') <= stream'.at
         /\ stream'.left > 0 => (FollowsBuffer' <=> FollowsBuffer /\ mSize >= 0)
<1> DEFINE n == SizeT(HEADER_SIZE + mSize)
           k == HEADER_SIZE + Skipped(mSize)
           start == GetBufferStart(buf)
           bytes == GetContiguiousBytes(buf)
<1>1. /\ WellFormed(buf) /\ posted = NoRecv
      /\ stream.at \in Nat /\ stream.left \in Nat /\ stream.at + stream.left <= Capacity
      /\ start <= stream.at /\ mSize \in Int
      /\ k \in Nat /\ k >= 2 /\ k <= stream.left /\ n \in Nat
      /\ mSize >= 0 => n = k
      /\ mSize < 0 => n < 2 \/ n >= Capacity
  BY HeaderFacts DEF Dispatch, HEADER_SIZE
<1>2. /\ stream' = [at |-> stream.at + k, left |-> stream.left - k]
      /\ buf' = Remove(buf, n) /\ posted' = posted
  <2>1. /\ Skipped(mSize) \in Nat /\ stream.at \in Nat /\ stream.left \in Nat
    BY HeaderFacts DEF Dispatch
  <2> QED
    BY <2>1 DEF Dispatch, Advance, HEADER_SIZE
<1>3. start \in Int /\ bytes \in Nat /\ bytes <= Capacity
  BY <1>1, ContiguousIsA
<1> HIDE DEF n, k
<1>4. /\ n < bytes => /\ GetBufferStart(buf') = start + n
                      /\ GetContiguiousBytes(buf') = bytes - n
      /\ n >= bytes => GetBufferStart(buf') <= 0
  BY <1>1, <1>2, RemovePrefix
<1>5. GetBufferStart(buf') \in Int /\ GetContiguiousBytes(buf') \in Int
  <2>1. WellFormed(buf')
    BY <1>1, <1>2, RemoveWellFormed
  <2> QED
    BY <2>1, ContiguousIsA
<1> HIDE DEF start, bytes
<1>6. GetBufferStart(buf') <= stream'.at
  BY <1>1, <1>2, <1>3, <1>4, <1>5
<1>7. ASSUME stream'.left > 0
      PROVE  FollowsBuffer' <=> FollowsBuffer /\ mSize >= 0
  <2>1. FollowsBuffer <=> stream.at = start /\ stream.left = bytes
    BY DEF FollowsBuffer, start, bytes
  <2>2. FollowsBuffer' <=> /\ stream.at + k = GetBufferStart(buf')
                           /\ stream.left - k = GetContiguiousBytes(buf')
    BY <1>2 DEF FollowsBuffer
  <2>3. CASE n >= bytes
    <3>1. ~FollowsBuffer'
      BY <1>1, <1>4, <1>5, <2>2, <2>3
    <3>2. ~(FollowsBuffer /\ mSize >= 0)
      BY <1>1, <1>2, <1>3, <1>7, <2>1, <2>3
    <3> QED
      BY <3>1, <3>2
  <2>4. CASE n < bytes /\ mSize >= 0
    BY <1>1, <1>3, <1>4, <2>1, <2>2, <2>4
  <2>5. CASE n < bytes /\ mSize < 0
    BY <1>1, <1>3, <1>4, <2>2, <2>5
  <2> QED
    BY <1>1, <1>3, <2>3, <2>4, <2>5
<1> QED
  BY <1>1, <1>2, <1>6, <1>7

LEMMA ParserInitInv == ParserInit => ParserInv
  BY InitInv DEF ParserInit, ParserInv, Init, NoStream, Null

LEMMA ParserStepInv == ParserInv /\ [ParserNext]_parserVars => ParserInv'
<1> SUFFICES ASSUME ParserInv, [ParserNext]_parserVars
             PROVE  ParserInv'
  OBVIOUS
<1>1. IndInv'
  <2>1. IndInv
    BY DEF ParserInv
  <2> QED
    BY <2>1, ParserStepIsBufferStep, StepInv
<1>2. ASSUME NEW data \in Data, OnReceive(data)
      PROVE  ParserInv'
  <2>1. /\ posted' = NoRecv /\ FollowsBuffer' /\ stream' \in [at : Int, left : Nat]
        /\ stream'.at >= 0 /\ stream'.at + stream'.left <= Capacity
    BY <1>1, <1>2, ReceiveStream
  <2> QED
    BY <1>1, <2>1 DEF ParserInv, FollowsBuffer
<1>3. CASE Dispatch
  BY <1>1, <1>3, DispatchStream DEF ParserInv
<1>4. CASE ParseEnd
  BY <1>1, <1>4 DEF ParseEnd, ParserInv, NoStream, Null
<1>5. CASE stream = NoStream /\ UNCHANGED stream
  BY <1>1, <1>5 DEF ParserInv, NoStream, Null
<1>6. CASE UNCHANGED parserVars
  BY <1>1, <1>6 DEF ParserInv, parserVars
<1> QED
  BY <1>2, <1>3, <1>4, <1>5, <1>6 DEF ParserNext, Idle

-----------------------------------------------------------------------------
\* While OnReceive has a stream no receive is posted, and the stream reads inside
\* mBuffer, whatever the headers say, in every reachable state.
THEOREM ParserInvariant == ParserSpec => []ParserInv
<1>1. ParserInit => ParserInv
  BY ParserInitInv
<1>2. ParserInv /\ [ParserNext]_parserVars => ParserInv'
  BY ParserStepInv
<1> QED
  BY <1>1, <1>2, PTL DEF ParserSpec

\* The protobuf stream that OnReceive reads through points at the first stored
\* byte and ends with the contiguous ones, as long as it has something left and
\* no packet had a negative mSize, although OnReceive removes each packet from the
\* buffer under it; after a negative one it never does so again.
THEOREM ParserPointerValid == ParserSpec => ParserReadsBuffer
<1>1. ParserInv /\ [ParserNext]_parserVars =>
        [stream'.left > 0 =>
           (FollowsBuffer' <=> stream = NoStream \/ (FollowsBuffer /\ mSize >= 0))]_parserVars
  <2> SUFFICES ASSUME ParserInv, ParserNext, stream'.left > 0
               PROVE  FollowsBuffer' <=> stream = NoStream \/ (FollowsBuffer /\ mSize >= 0)
    OBVIOUS
  <2>1. ASSUME NEW data \in Data, OnReceive(data)
        PROVE  FollowsBuffer' /\ stream = NoStream
    <3>1. IndInv'
      <4>1. ParserInv'
        BY ParserStepInv
      <4> QED
        BY <4>1 DEF ParserInv
    <3>2. stream = NoStream
      BY <2>1 DEF ParserInv, OnReceive, RecvCompletion
    <3> QED
      BY <2>1, <3>1, <3>2, ReceiveStream
  <2>2. CASE Dispatch
    <3>1. stream # NoStream
      BY <2>2 DEF Dispatch, HasHandler
    <3> QED
      BY <2>2, <3>1, DispatchStream
  <2>3. CASE ParseEnd \/ (stream = NoStream /\ UNCHANGED stream)
    BY <2>3 DEF ParseEnd, NoStream
  <2> QED
    BY <2>1, <2>2, <2>3 DEF ParserNext, Idle
<1> QED
  BY <1>1, ParserInvariant, PTL DEF ParserSpec, ParserReadsBuffer

\* The buffer of a session that parses its packets is a SessionBuffer: the loop
\* removes only what it has read, and never while the kernel owns the window.
THEOREM ParserImplementsBuffer == ParserSpec => Spec
<1>1. ParserInit => Init
  BY DEF ParserInit
<1>2. ParserInv /\ [ParserNext]_parserVars => [Next]_vars
  BY ParserStepIsBufferStep
<1> QED
  BY <1>1, <1>2, ParserInvariant, PTL DEF ParserSpec, Spec

\* The buffer and the posted window keep their types under the parser.
THEOREM ParserTypeOK == ParserSpec => []TypeOK
  BY ParserImplementsBuffer, RegionSafety, PTL

\* What comes out of the buffer is what was received, in that order, also when
\* it is the parser that takes it out.
THEOREM ParserBufferIsFifo == ParserSpec => ImplementsFifo
  BY ParserImplementsBuffer, BufferIsFifo

=============================================================================

--------------------------- MODULE CircularBuffer ---------------------------
(***************************************************************************)
(* CircularBuffer.h and CircularBuffer.cpp (the same files in Homework3 to *)
(* Homework7 and in DummyClients): the two-region buffer that every        *)
(* Session uses for what it received and for what it has to send.          *)
(*                                                                         *)
(* A buffer is a record with the fields of the class.  A pointer into      *)
(* mBuffer is its offset from mBuffer, nullptr is Null, and the contents   *)
(* of the memory is the field `mem'.  mBuffer and mBufferEnd never change, *)
(* they are the offsets 0 and Capacity.  The operations are functions from *)
(* a buffer to a buffer, so that a module with many sessions can use them. *)
(***************************************************************************)
EXTENDS Integers, Sequences

CONSTANTS Capacity,   \* mCapacity
          Byte,       \* the values of a char
          Zero        \* the char that memset writes

ASSUME CapacityAssumption == Capacity \in Nat \ {0}
ASSUME ByteAssumption == Zero \in Byte

Null == -1

Offset == 0 .. (Capacity - 1)

Buffer == [mem : [Offset -> Byte],
           mARegionPointer : 0 .. Capacity,
           mARegionSize    : 0 .. Capacity,
           mBRegionPointer : {Null} \union (0 .. Capacity),
           mBRegionSize    : 0 .. Capacity]

\* The constructor: the bytes of `new char[mCapacity]' are whatever they were.
NewBuffer == {[mem |-> m, mARegionPointer |-> 0, mARegionSize |-> 0,
               mBRegionPointer |-> Null, mBRegionSize |-> 0] : m \in [Offset -> Byte]}

BufferReset == [mem |-> [o \in Offset |-> Zero],
                mARegionPointer |-> 0, mARegionSize |-> 0,
                mBRegionPointer |-> Null, mBRegionSize |-> 0]

\* The buffer b with another region A, or another region B.
WithA(b, pointer, size) ==
  [mem |-> b.mem, mARegionPointer |-> pointer, mARegionSize |-> size,
   mBRegionPointer |-> b.mBRegionPointer, mBRegionSize |-> b.mBRegionSize]

WithB(b, pointer, size) ==
  [mem |-> b.mem, mARegionPointer |-> b.mARegionPointer,
   mARegionSize |-> b.mARegionSize, mBRegionPointer |-> pointer, mBRegionSize |-> size]

\* Mutant: the free space behind A without the space before it.
GetAFreeSpaceIgnoresPointer(b) == Capacity - b.mARegionSize

GetAFreeSpace(b) == Capacity - b.mARegionPointer - b.mARegionSize

GetSpaceBeforeA(b) == b.mARegionPointer

\* Mutant: what B already stores is not subtracted.
GetBFreeSpaceIgnoresSize(b) ==
  IF b.mBRegionPointer = Null THEN 0 ELSE b.mARegionPointer

GetBFreeSpace(b) ==
  IF b.mBRegionPointer = Null THEN 0
  ELSE b.mARegionPointer - b.mBRegionPointer - b.mBRegionSize

AllocateB(b) == [b EXCEPT !.mBRegionPointer = 0]

\* Mutant: the switch to B does not compare the two gaps.
AfterFreeSpaceQueryEager(b) ==
  IF b.mBRegionPointer = Null /\ GetSpaceBeforeA(b) > 0 THEN AllocateB(b) ELSE b

\* GetFreeSpaceSize is not a pure query: it switches to region B as soon as
\* there is more room before A than behind it.  AfterFreeSpaceQuery is the
\* buffer it leaves, GetFreeSpaceSize the number it returns.
AfterFreeSpaceQuery(b) ==
  IF b.mBRegionPointer = Null /\ GetAFreeSpace(b) < GetSpaceBeforeA(b)
    THEN AllocateB(b) ELSE b

GetFreeSpaceSize(b) ==
  IF AfterFreeSpaceQuery(b).mBRegionPointer # Null
    THEN GetBFreeSpace(AfterFreeSpaceQuery(b)) ELSE GetAFreeSpace(b)

GetStoredSize(b) == b.mARegionSize + b.mBRegionSize

GetContiguiousBytes(b) ==
  IF b.mARegionSize > 0 THEN b.mARegionSize ELSE b.mBRegionSize

GetBuffer(b) ==
  IF b.mBRegionPointer # Null THEN b.mBRegionPointer + b.mBRegionSize
  ELSE b.mARegionPointer + b.mARegionSize

GetBufferStart(b) ==
  IF b.mARegionSize > 0 THEN b.mARegionPointer ELSE b.mBRegionPointer

Commit(b, len) ==
  IF b.mBRegionPointer # Null
    THEN [b EXCEPT !.mBRegionSize = @ + len]
    ELSE [b EXCEPT !.mARegionSize = @ + len]

\* memcpy, or the kernel filling a WSABUF: data is written at offset `at'.
Memcpy(mem, at, data) ==
  [o \in Offset |-> IF o >= at /\ o < at + Len(data) THEN data[o - at + 1]
                    ELSE mem[o]]

\* memmove(mBuffer, mBuffer + from, len)
Memmove(mem, from, len) ==
  [o \in Offset |-> IF o < len THEN mem[o + from] ELSE mem[o]]

\* The first two steps of Remove: drop from A, then the rest from B.
RemoveFromA(b, len) ==
  LET aRemove == IF len > b.mARegionSize THEN b.mARegionSize ELSE len
  IN  WithA(b, b.mARegionPointer + aRemove, b.mARegionSize - aRemove)

RemoveFromB(b, cnt) ==
  LET bRemove == IF cnt > b.mBRegionSize THEN b.mBRegionSize ELSE cnt
  IN  IF cnt > 0 /\ b.mBRegionSize > 0
        THEN WithB(b, b.mBRegionPointer + bRemove, b.mBRegionSize - bRemove)
        ELSE b

\* Mutant: B becomes A without being moved to the front.
SwitchToAWithoutMove(b) ==
  IF b.mARegionSize > 0 THEN b
  ELSE [mem |-> b.mem, mARegionPointer |-> 0, mARegionSize |-> b.mBRegionSize,
        mBRegionPointer |-> Null, mBRegionSize |-> 0]

\* The last step of Remove: an empty A is replaced by B, pulled to the front.
SwitchToA(b) ==
  IF b.mARegionSize > 0 THEN b
  ELSE [mem |-> IF b.mBRegionSize > 0
                  THEN Memmove(b.mem, b.mBRegionPointer, b.mBRegionSize)
                  ELSE b.mem,
        mARegionPointer |-> 0, mARegionSize |-> b.mBRegionSize,
        mBRegionPointer |-> Null, mBRegionSize |-> 0]

Remove(b, len) ==
  LET a == RemoveFromA(b, len)
  IN  SwitchToA(RemoveFromB(a, len - (b.mARegionSize - a.mARegionSize)))

=============================================================================

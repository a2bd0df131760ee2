---------------------------- MODULE PacketParser ----------------------------
(***************************************************************************)
(* ClientSession::OnReceive of Homework7 on top of SessionBuffer: the loop *)
(* reads packets through a protobuf stream, which is a raw pointer into    *)
(* the memory of mRecvBuffer, and after each packet removes it from the    *)
(* same buffer, which may move what it stores.                             *)
(*                                                                         *)
(* A field of PacketHeader is one byte here (a short of two in the code):  *)
(* mSize, then mType.  Both are signed and come from the peer; OnReceive   *)
(* refuses the types that are not positive, and no negative size.  The     *)
(* handlers do not touch mRecvBuffer (they send, or ask for the            *)
(* disconnection), so a packet is one step.  EchoBack, which follows       *)
(* OnReceive, is Consume of the contiguous bytes, or nothing when its      *)
(* PostSend refuses them.                                                  *)
(***************************************************************************)
EXTENDS SessionBuffer

CONSTANT SizeModulus    \* a size_t is a number below it: 2^32, or 2^64

VARIABLE stream    \* codedInputStream: where it reads and how much is left

parserVars == <<buf, posted, stream>>

NoStream == [at |-> Null, left |-> 0]

HEADER_SIZE == 2

\* A byte that stands for a short is a number; as a size_t, a negative number
\* of bytes is more than any buffer holds.
ASSUME SizeAssumption ==
  /\ Byte \subseteq Int
  /\ SizeModulus \in Nat
  /\ \A n \in Byte : HEADER_SIZE + n + SizeModulus >= Capacity

mSize == buf.mem[stream.at]
mType == buf.mem[stream.at + 1]

ParserInit == Init /\ stream = NoStream

\* RecvCompletion: the stream covers the bytes that are contiguous now.
OnReceive(data) ==
  /\ RecvCompletion(data)
  /\ stream' = [at |-> GetBufferStart(buf'), left |-> GetContiguiousBytes(buf')]

HasHeader == stream.left >= HEADER_SIZE

HasPacket == HasHeader /\ stream.left - HEADER_SIZE >= mSize

\* The conversion of an int to the size_t that Remove takes.
SizeT(n) == IF n < 0 THEN n + SizeModulus ELSE n

\* CodedInputStream::Skip does nothing when it is given a negative count.
Skipped(n) == IF n < 0 THEN 0 ELSE n

\* A header of a packet whose payload is there and whose type has a handler.
HasHandler == stream # NoStream /\ HasPacket /\ mType > 0

\* ReadRaw of the header and Skip of the payload.
Advance ==
  stream' = [at |-> stream.at + HEADER_SIZE + Skipped(mSize),
             left |-> stream.left - HEADER_SIZE - Skipped(mSize)]

\* Mutant: the header, which ReadRaw has skipped already, is not removed.
DispatchLeavesHeader ==
  /\ HasHandler
  /\ Advance
  /\ buf' = Remove(buf, SizeT(mSize))
  /\ UNCHANGED posted

\* One round of the loop: the handler runs, both the stream and the buffer go
\* past the packet, each by its own idea of a negative size.
Dispatch ==
  /\ HasHandler
  /\ Advance
  /\ buf' = Remove(buf, SizeT(HEADER_SIZE + mSize))
  /\ UNCHANGED posted

\* The loop ends: no header, not the whole payload, or a type that makes
\* OnReceive ask for the disconnection.
ParseEnd ==
  /\ stream # NoStream /\ ~HasHandler
  /\ stream' = NoStream
  /\ UNCHANGED <<buf, posted>>

Idle == stream = NoStream /\ UNCHANGED stream

ParserNext ==
  \/ \E data \in Data : OnReceive(data)
  \/ Dispatch
  \/ ParseEnd
  \/ Idle /\ \E data \in Data : PostSend(data)
  \/ Idle /\ PostRecv
  \/ Idle /\ RecvError
  \/ Idle /\ \E len \in 1 .. Capacity : Consume(len)
  \/ Idle /\ SessionReset

ParserSpec == ParserInit /\ [][ParserNext]_parserVars

-----------------------------------------------------------------------------
\* The stream stands at the first stored byte and ends with the contiguous ones.
FollowsBuffer ==
  /\ stream.at = GetBufferStart(buf)
  /\ stream.left = GetContiguiousBytes(buf)

\* "advance and remove from the buffer as much as was read": as long as
\* OnReceive has something left to read, the stream's raw pointer stays at the
\* first stored byte, although Remove switches regions and moves bytes while the
\* loop is under way, until a packet whose mSize is negative, which OnReceive
\* lets pass.  From there to the end of the loop they are apart, and bytes are
\* parsed that are not in the buffer any more, or parsed and kept in it.
ParserReadsBuffer ==
  [][stream'.left > 0 =>
       (FollowsBuffer' <=> stream = NoStream \/ (FollowsBuffer /\ mSize >= 0))]_parserVars

\* The inductive invariant: the one of the buffer; no receive is in flight while
\* the loop reads, since OnReceive runs before the next PreRecv; whatever the
\* sizes claim, the stream reads inside mBuffer and is not behind the buffer.
ParserInv ==
  /\ IndInv
  /\ stream \in [at : Int, left : Nat]
  /\ stream # NoStream =>
       /\ posted = NoRecv
       /\ stream.at >= 0 /\ stream.at + stream.left <= Capacity
       /\ GetBufferStart(buf) <= stream.at

=============================================================================

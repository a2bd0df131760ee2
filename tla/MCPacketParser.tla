---------------------------- MODULE MCPacketParser ---------------------------
(* PacketParser for TLC.  As the size of a packet, 0 and 1 are what a       *)
(* client sends; with -3, HEADER_SIZE + mSize is negative, and Remove takes *)
(* everything.                                                              *)
EXTENDS PacketParser

Sizes == {-3, 0, 1}
=============================================================================

\* Two regions that can be partly drained and refuse a write, and two packets in
\* one receive.
CONSTANTS
  Capacity = 5
  Byte <- Sizes
  Zero = 0
  SizeModulus = 16
SPECIFICATION ParserSpec
INVARIANTS
  TypeOK
  RegionsDisjoint
  PostedWindowIsFree
  FreeSpaceGuarantee
PROPERTIES
  ParserReadsBuffer
  ImplementsFifo

\* Two sessions and two I/O threads, every Winsock call may fail.
CONSTANTS
  Session = {s1, s2}
  IOThread = {t1, t2}
  Main = Main
  None = None
  Fails = {"AcceptEx", "setsockopt", "WSARecv", "WSASend", "DisconnectEx"}
  MaxSends = 1
  MaxPackets = 1
  CounterModulus = 3
SPECIFICATION Spec
SYMMETRY Symmetry
INVARIANTS
  TypeOK
  NoCrash
  RefCountExact
  PoolAccounting
  ConnectOnce
  OneChain
  IndInv
  RecvBufferExclusive
  ResetNeverWaits
PROPERTY
  NoResurrection
\* The server ends when AcceptEx fails.
CHECK_DEADLOCK FALSE

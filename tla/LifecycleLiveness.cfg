\* One session, two I/O threads; WSARecv and DisconnectEx accept every request.
CONSTANTS
  Session = {s1}
  IOThread = {t1, t2}
  Main = Main
  None = None
  Fails = {"AcceptEx", "setsockopt", "WSASend"}
  MaxSends = 1
  MaxPackets = 1
  CounterModulus = 2
SPECIFICATION FairSpec
INVARIANT
  ConnectedIsListening
PROPERTIES
  DisconnectReturnsSession
  FailedSetupIsLost
CHECK_DEADLOCK FALSE

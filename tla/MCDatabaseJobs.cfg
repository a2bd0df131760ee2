\* One session, two I/O threads, a database thread.
CONSTANTS
  Session = {s1}
  DBThread = {d1}
  MaxPlayerId = 2
  Fails = {"WSARecv", "WSASend", "PostQueuedCompletionStatus"}
  CounterModulus = 3
  IOThread = {t1, t2}
  Main = Main
  None = None
  MaxSends = 1
  MaxPackets = 0
  MaxStored = 2
SYMMETRY Symmetry
SPECIFICATION JobSpec
INVARIANTS
  OneSendInFlight
  NoStrandedBytes
  JobTypeOK
  AnswerFitsConnection
  ContextsCounted
  JobInv
CHECK_DEADLOCK FALSE

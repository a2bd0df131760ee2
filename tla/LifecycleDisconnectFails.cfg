\* One session, two I/O threads; DisconnectEx may fail at once.
CONSTANTS
  Session = {s1}
  IOThread = {t1, t2}
  Main = Main
  None = None
  Fails = {"DisconnectEx"}
  MaxSends = 1
  MaxPackets = 1
  CounterModulus = 2
SPECIFICATION FairSpec
PROPERTY
  DisconnectReturnsSession
CHECK_DEADLOCK FALSE

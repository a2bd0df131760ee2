\* One session, two I/O threads, no failing calls.
CONSTANTS
  Session = {s1}
  Fails = {}
  CounterModulus = 2
  IOThread = {t1, t2}
  Main = Main
  None = None
  MaxSends = 1
  MaxPackets = 0
  MaxStored = 2
SPECIFICATION FairSendSpec
PROPERTY FlushedLater
CHECK_DEADLOCK FALSE

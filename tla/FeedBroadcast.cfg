\* Two sessions, two I/O threads, no failing calls.
CONSTANTS
  Session = {s1, s2}
  IOThread = {t1, t2}
  Main = Main
  None = None
  Fails = {}
  MaxSends = 1
  MaxPackets = 1
  CounterModulus = 3
  MaxSubscriptions = 2
  MaxFeeds = 1
SPECIFICATION FeedSpec
INVARIANT BroadcastComplete
CHECK_DEADLOCK FALSE

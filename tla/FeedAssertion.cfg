\* One session, two I/O threads, no failing calls.
CONSTANTS
  Session = {s1}
  IOThread = {t1, t2}
  Main = Main
  None = None
  Fails = {}
  MaxSends = 1
  MaxPackets = 1
  CounterModulus = 2
  MaxSubscriptions = 2
  MaxFeeds = 1
SPECIFICATION FeedSpec
INVARIANT ReturnAssertionHolds
CHECK_DEADLOCK FALSE

\* Four threads: a holder, and three that come too late in either mode.
CONSTANT
  Thread = {t1, t2, t3, t4}
SPECIFICATION FairSpec
INVARIANTS
  TypeOK
  FlagExact
PROPERTIES
  ImplementsLock
  NoReaderOvertakes
  DrainEnds
  LockProgress

\* Three threads make their first calls at once.
SPECIFICATION FairSpec
CONSTANTS
  Thread = {t1, t2, t3}
  Fd = {d1, d2}
  Stderr = Stderr
  NoSink = NoSink
  NoFd = NoFd
INVARIANTS
  TypeOK
  LoggerBeforeWork
  NoFdLeak
  SinkStaysOpen
PROPERTIES
  InstalledOnce
  CallReturns

SPECIFICATION Spec
CONSTANTS
  Threads = {t1, t2}
  NoThread = NoThread
  WriteErrors = {}
  EmptyBuffers = {}
  MaxSends = 2
  MaxConnects = 1
INVARIANT FlagMeansInProgress
CHECK_DEADLOCK FALSE

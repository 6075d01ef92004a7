SPECIFICATION FairSpec
CONSTANTS
  Threads = {t1, t2, t3}
  NoThread = NoThread
  WriteErrors = {"connection_reset", "broken_pipe"}
  EmptyBuffers = {1, 3}
  MaxSends = 4
  MaxConnects = 2
INVARIANTS
  SingleSender
  NoLostWakeup
  InOrder
PROPERTIES
  ImplementsChannel
  StrandedForEver
  DrainsOrStrands
CHECK_DEADLOCK FALSE

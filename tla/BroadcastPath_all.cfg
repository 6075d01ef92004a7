SPECIFICATION FairSpec
CONSTANTS
  Threads = {t1, t2, t3}
  NoThread = NoThread
  Sessions = {s1, s2}
  NoSession = NoSession
  MaxBroadcasts = 2
  MaxSends = 1
INVARIANTS
  OnlySelfDeadlock
  EveryoneHearsAll
PROPERTIES
  ImplementsOrderedBroadcast
  FrozenForEver
  BroadcastsEnd
CHECK_DEADLOCK FALSE

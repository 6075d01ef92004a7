SPECIFICATION FairSpec
CONSTANTS
  Threads = {t1, t2, t3}
  Main = Main
  MaxWork = 3
INVARIANTS
  ManagersOutliveThreads
  LateLaunchesEndIt
PROPERTY JoinEnds
CHECK_DEADLOCK FALSE

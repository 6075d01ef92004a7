SPECIFICATION FairSpec
CONSTANTS
  Sessions = {s1, s2, s3, s4, s5}
  NoSession = NoSession
  MaxSessionCount = 4
INVARIANTS
  CountAccounts
  CalledOnce
  NeverRefuses
  ConnectedAreRegistered
  ZombiesWereOvertaken
PROPERTIES
  ImplementsAdmission
  ImplementsSessionProtocol
  LeaksUntilItStops
CHECK_DEADLOCK FALSE

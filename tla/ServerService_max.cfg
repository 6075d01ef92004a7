SPECIFICATION Spec
CONSTANTS
  Sessions = {s1, s2}
  NoSession = NoSession
  MaxSessionCount = 2
INVARIANT MaxSessionsReached
CHECK_DEADLOCK FALSE

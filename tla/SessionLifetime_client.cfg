SPECIFICATION Spec
CONSTANTS
  Sessions = {s1, s2}
  NoSession = NoSession
  Kind = "client"
SYMMETRY Symmetry
INVARIANT FaultsHaveCauses
CHECK_DEADLOCK FALSE

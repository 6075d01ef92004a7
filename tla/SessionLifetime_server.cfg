SPECIFICATION FairSpec
CONSTANTS
  Sessions = {s1, s2}
  NoSession = NoSession
  Kind = "server"
INVARIANTS
  WriteHandlerHasItsSession
  FaultsHaveCauses
  NoSilentEnd
PROPERTIES
  ImplementsSessionProtocol
  ReleasedAreFreed
  ChainOutlivesService
CHECK_DEADLOCK FALSE

SPECIFICATION FairSpec
CONSTANTS
  Builds <- AllBuilds
  Conns = {a, b}
  MaxFd = 3
  Inherited <- MCInherited
  StrayBit = 3
  POLL_MAX = 4
  MaxEvents = 2
  Backlog = 2
  MaxSends = 1
  MaxUdp = 1
INVARIANTS InterestExact BlocksOnlyUntold
PROPERTIES ReadyIsServed QueuedIsAccepted ImplementsService
CHECK_DEADLOCK FALSE

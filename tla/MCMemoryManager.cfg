SPECIFICATION FairSpec
CONSTANTS
  Start = 21
  Size = 11
  HeaderSize = 2
  WordSize = 32
  Requests <- MCRequests
INVARIANTS
  TypeOK
  Tiled
  Coalesced
PROPERTIES
  FailsOnlyWhenFull
  GrantIsFresh
  MallocReturns
  ImplementsAllocator

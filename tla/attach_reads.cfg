CONSTANTS
  Codes <- MCCodes
  MaxChunk = 3
  MaxInbox = 4
  MaxOutbox = 2
SPECIFICATION FairSpec
CHECK_DEADLOCK FALSE
INVARIANTS
  TokenOnlyToAskedCli
  RefusalKeepsItsCode
PROPERTIES
  KeepsContract
  AttachSettles

CONSTANTS
  Codes <- MCCodes
  MaxChunk = 3
  MaxInbox = 4
  MaxOutbox = 2
SPECIFICATION Spec
CHECK_DEADLOCK FALSE
INVARIANTS
  EntryGoneWithClient

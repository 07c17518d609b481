SPECIFICATION FairExplorationSpec
CONSTANTS
  MaxRounds = 2
  Calls <- MCCalls
  Explores <- MCExplores
  ExploreRounds = 2
  MaxToolCalls = 2
INVARIANTS NothingLeftRunning DelegationIsOwn TranscriptWellFormed
PROPERTIES DelegationIsThrown RunsEnd
CHECK_DEADLOCK FALSE

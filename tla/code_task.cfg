SPECIFICATION FairSpec
CONSTANTS
  MaxTurns = 3
  Files = {"f1"}
  Contents <- MCContents
  Missing = Missing  None = None
INVARIANTS PromptWellFormed OpenFilesCurrent
PROPERTIES OverwritesKnown TaskEnds
CHECK_DEADLOCK FALSE

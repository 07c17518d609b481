SPECIFICATION FairSpec
CONSTANTS
  Clients <- MCClients  Subs <- MCSubs
  Collects = {"c1"}
  Msgs = {"m1"}  BotMsgs = {"m1"}
  MaxVersion = 2
  None = None
INVARIANTS RepliesComplete HandlersInStep
PROPERTIES CollectEnds Reconnects
CHECK_DEADLOCK FALSE

SPECIFICATION FairSpec
CONSTANTS
  Pids = {p1, p2}
  NoPid = NoPid
  MaxTicks = 3
INVARIANTS SteadyIsFound
PROPERTIES SweepSparesLive WaitEnds
CHECK_DEADLOCK FALSE

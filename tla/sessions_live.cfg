SPECIFICATION FairSpec
CONSTANTS
  Sids = {s1}  Dirs = {d1}  Pids = {p1, p2}  Calls = {c1, c2}
  Adopts = {}
  Anonymous = FALSE  Coalesced = TRUE
  NoSid = NoSid  NoPid = NoPid  NoOne = NoOne  Absent = Absent
INVARIANTS OneAttemptPerKey
PROPERTIES StartSettles StopEnds DeadEntryLeaves
CHECK_DEADLOCK FALSE

SPECIFICATION Spec
CONSTANTS
  Sids = {s1}  Dirs = {d1}  Pids = {p1, p2, p3}  Calls = {c1}
  Adopts = {a1}
  Anonymous = TRUE  Coalesced = FALSE
  NoSid = NoSid  NoPid = NoPid  NoOne = NoOne  Absent = Absent
SYMMETRY MCSymmetry
INVARIANTS UserCliSpared SessionsInStep
PROPERTIES KeepsContract
CHECK_DEADLOCK FALSE

SPECIFICATION Spec
CONSTANTS
  Requests = {r1, r2}  Calls = {k1, k2, k3}  Files = {f1}
  Contents = {c1, c2}  Missing = Missing
  NoRequest = NoRequest  NoFile = NoFile  Unread = Unread
SYMMETRY MCSymmetry
INVARIANTS ApprovedWasRead GitHeldToRequest
PROPERTIES RefusedIsOutdated
CHECK_DEADLOCK FALSE

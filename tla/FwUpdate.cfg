SPECIFICATION FairSpec
CONSTANTS
  j1 = j1
  j2 = j2
  v1 = v1
  v2 = v2
  Jobs = {j1, j2}
  Tags = {v1, v2}
  None = None
  Attempts = 3
  MaxExits = 2
INVARIANTS TypeOK PhaseTells SuccessTells OneJLink
PROPERTY UpdatesEnd WritesAnnounced

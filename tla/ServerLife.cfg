SPECIFICATION FairSpec
CONSTANTS
  tab1 = tab1
  tab2 = tab2
  update1 = update1
  update2 = update2
  None = None
  Modes = {"exe", "hidden", "console"}
  Tabs = {tab1, tab2}
  Updates = {update1, update2}
  Grace = 1
  Orphan = 2
  MaxGone = 1
  MaxActs = 1
INVARIANTS TypeOK ProgramStays
PROPERTIES ExitsAlone EndsWithTabs UpdateLands
CHECK_DEADLOCK FALSE

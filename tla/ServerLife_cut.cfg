SPECIFICATION Spec
CONSTANTS
  tab1 = tab1
  tab2 = tab2
  update1 = update1
  update2 = update2
  None = None
  Modes = {"exe"}
  Tabs = {tab1, tab2}
  Updates = {update1, update2}
  Grace = 1
  Orphan = 2
  MaxGone = 1
  MaxActs = 1
INVARIANT ReplacedByProgram
CHECK_DEADLOCK FALSE

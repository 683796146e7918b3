SPECIFICATION FairSpec
CONSTANTS
  ch1 = ch1
  ch2 = ch2
  push = push
  button = button
  None = None
  Channels = {ch1, ch2}
  First = ch1
  MaxFreq = 2
  Shapes = {"a", "long"}
  Long = {"long"}
  Default <- MCDefault
  Tasks = {push, button}
  MaxActs = 3
INVARIANTS TypeOK PanelPrevails StartsAsShown
PROPERTY SettingsArrive

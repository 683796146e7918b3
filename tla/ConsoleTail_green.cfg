SPECIFICATION FairSpec
CONSTANTS
  com3 = com3
  com4 = com4
  com7 = com7
  None = None
  Ports = {com3}
  Segger = {com3}
  ConfigPort = None
  Rank <- MCRank
  Wrap = 2
PROPERTIES GreenOnlyWhileReceiving

SPECIFICATION FairSpec
CONSTANTS
  com3 = com3
  com4 = com4
  com7 = com7
  None = None
  Ports = {com3, com4}
  Segger = {com3, com4}
  ConfigPort = None
  Rank <- MCRank
  Wrap = 2
INVARIANTS TypeOK SettledSelection BadgeMatchesSession NoTornLine
PROPERTIES FixedOnceHeard ManualHonoured AutoFindsData

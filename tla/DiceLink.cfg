SPECIFICATION FairSpec
CONSTANTS
  None = None
  Versions = {"v1", "v2"}
  Modulus = 2
  FixedPort = FALSE
INVARIANTS TypeOK FramesNumbered NoLinkNoNews
PROPERTIES LinkComesBack McuBadgeTells CommandsAnswered NewVersionShown

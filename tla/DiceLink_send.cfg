SPECIFICATION Spec
CONSTANTS
  None = None
  Versions = {"v1"}
  Modulus = 3
  FixedPort = FALSE
INVARIANT SendReturns

CONSTANTS
  Devices = {a, b}
  Entities = {e}
  MaxSeq = 2
  MaxOps = 2
  MaxCrashes = 0
  MaxCuts = 1
  MaxRestores = 1
  None = None
SPECIFICATION RFairSpec
CHECK_DEADLOCK FALSE
PROPERTIES NothingStaysParked

\* Two jobs of one child, one job of three; a pack of two objects, two runs of its
\* publisher; two workers and a selection.
SPECIFICATION PartsSpec
CONSTANTS
  None = None
  NoRow = NoRow
  NoRecord = NoRecord
  Jobs = {a, b, c}
  long = c
  N <- OneIsLong
  MaxEpoch = 2
  Packed = {x, y, z}
  PackedBodies = {x}
  PackedPurge = z
  Pubs = {p}
  Runs = {a, b}
  Objects = 2
  MaxFaults = 2
  Workers = {a, b}
  MaxLibraryEdits = 1
  MaxSaves = 2
  MaxSelections = 2
  MaxCrashes = 1
  MaxRejects = 1
SYMMETRY Symmetry
INVARIANT NoPaymentIsLost
PROPERTIES ReceiptsAreTrue PublicationIsSafe SelectionIsSound
CHECK_DEADLOCK FALSE

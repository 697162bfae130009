\* One input, its mirror and a derived thought; two edits of the input and a
\* removal.
SPECIFICATION Spec
CONSTANTS
  None = None
  Limit = 1
  MaxFaults = 0
  Inputs = {a}
  Mirrors = {1}
  Derived = {2}
  Texts = {"x"}
  Own = "own"
  MaxEdits = 2
  MaxUses = 1
INVARIANT RemovedStaysRemoved
CHECK_DEADLOCK FALSE

\* One captured input and two releases of the rules; a mirror and a derived
\* thought of two inputs; two files. Tasks are named as inputs are, which they
\* never meet: one permutation then serves both parts.
SPECIFICATION PartsSpec
CONSTANTS
  Nothing = Nothing
  BatchSize = 1
  MaxFailures = 1
  Captured = {m}
  Wordings = {"go"}
  Observed = {"none", "present", "invalid"}
  Substance = "substance"
  Releases = {1, 2}
  Hides <- HidesFirst
  MaxWrites = 3
  MaxHolds = 1
  None = None
  Limit = 1
  MaxFaults = 1
  Inputs = {i, j}
  Mirrors = {1}
  Derived = {2}
  Texts = {"x", "y"}
  Own = "own"
  MaxEdits = 2
  MaxUses = 1
  Tasks = {i, j}
  Pages = {a, b}
  Sources = {s1, s2}
  s1 = s1
  s2 = s2
  Contents = {1, 2}
  MaxDisturbances = 2
SYMMETRY Symmetry
INVARIANTS FilterIsSound EntriesAreSound
PROPERTY ImportIsExact
CHECK_DEADLOCK FALSE

\* Two replicas, of one entity, or of two and restored; settings of one and of two
\* workers; two paired hosts.
SPECIFICATION PartsSpec
CONSTANTS
  None = None
  Devices = {a, b}
  Entities = {e, f}
  MaxSeq = 2
  MaxCuts = 1
  MaxRestored = 2
  worker = worker
  Stores = {a, b}
  Prefs = {light, dark}
  MaxOps = 4
  MaxCrashes = 1
  MaxFaults = 1
  MaxRestores = 1
  C = {a, b}
  MaxCalls = 3
  MaxTroubles = 1
  MaxEnds = 1
SYMMETRY Symmetry
INVARIANT RestoredIsWhole
PROPERTIES RestoreKeepsHistory SettingsHold HostsAreGranted
CHECK_DEADLOCK FALSE

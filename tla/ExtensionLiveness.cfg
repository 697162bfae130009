\* One job of two children; two devices; two chats and a message of one; one tab; one settings
\* store; three chunks; two presses of each kind; one captured input; an input, its
\* mirror and a derived thought.
SPECIFICATION PartsSpec
CONSTANTS
  None = None
  Jobs = {j1}
  MaxEpoch = 1
  Devices = {a, b}
  Entities = {e}
  MaxSeq = 2
  MaxChanges = 3
  Chats = {a, b}
  Msgs = {k}
  MaxText = 1
  MaxMoves = 2
  ChatTabs = {a}
  Groups = 2
  Grace = 2
  MaxDocs = 2
  MaxRequests = 3
  MaxHolds = 1
  Stores = {w}
  Prefs = {light}
  MaxOps = 2
  MaxCrashes = 1
  MaxFaults = 1
  MaxRestores = 1
  Chunks = 3
  MaxFailures = 4
  MaxResets = 2
  Presses = {p1, p2}
  Urls = {u, v}
  MaxDraft = 2
  MaxDisturbances = 2
  Intents = {i1, i2}
  Docs = 2
  Limit = 1
  Captured = {m}
  Wordings = {"go"}
  Observed = {"none"}
  Substance = "substance"
  Releases = {1, 2}
  MaxWrites = 2
  Inputs = {a}
  Mirrors = {1}
  Derived = {2}
  Texts = {"x"}
  Own = "own"
  MaxEdits = 2
  MaxUses = 1
INVARIANT MigrationIsSafe
PROPERTIES SharedWorkSettles PagesAreFollowed StoreWorkEnds EveryPressIsAnswered LibraryWorkEnds
CHECK_DEADLOCK FALSE

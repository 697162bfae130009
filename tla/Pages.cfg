\* Two chats of one message; two tabs; two presses; two surfaces, two documents.
SPECIFICATION PartsSpec
CONSTANTS
  None = None
  a = a
  b = b
  c = c
  d = d
  m1 = m1
  m2 = m2
  Chats = {c, d}
  Msgs = {m1, m2}
  Owner <- MCOwner
  MaxText = 1
  MaxEpoch = 2
  MaxWire = 1
  MaxMoves = 2
  Tabs = {a, b}
  Groups = 2
  Grace = 1
  MaxDocs = 2
  MaxRequests = 2
  MaxHolds = 1
  Ops = {a, b}
  Urls = {c, d}
  MaxDraft = 3
  MaxDisturbances = 3
  Intents = {a, b}
  Docs = 2
  Timer = TRUE
  MaxArrivalDisturbances = 2
SYMMETRY Symmetry
INVARIANTS RepairsAreWhole
PROPERTIES CaptureIsFaithful AnswersAreTrue ArrivalIsExact
CHECK_DEADLOCK FALSE

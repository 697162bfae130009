\* Two channels of one owner, slots for both, one change of the authority.
SPECIFICATION HistorySpec
CONSTANTS
  c = c
  d = d
  w = w
  Nobody = Nobody
  Channels = {c, d}
  Owners = {w}
  OwnerOf <- MCOneOwner
  MaxGeneration = 1
  ServiceLimit = 2
  FrameLimit = 1
  Backlog = 1
  ClientLimit = 2
  RevokedLimit = 1
INVARIANTS LeasesAgree VouchedIsCurrentOrInvalidated GenerationsNeverAlternate
SYMMETRY MCPerms
CONSTRAINT MCBound
CHECK_DEADLOCK FALSE

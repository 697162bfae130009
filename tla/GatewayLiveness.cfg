\* An owner's channel and a ticket's, one slot on either side; a run of each of
\* two operations of one job, capacity two.
SPECIFICATION PartsSpec
CONSTANTS
  c = c
  e = e
  w = w
  Nobody = Nobody
  Channels = {c, e}
  Owners = {w}
  OwnerOf <- MCOwnerOf
  MaxGeneration = 2
  ServiceLimit = 1
  FrameLimit = 3
  Backlog = 2
  ClientLimit = 1
  RevokedLimit = 0
  a = a
  b = b
  u = u
  v = v
  h = h
  k = k
  Ops = {a, b}
  JobOf <- MCJobOf
  Runs = {u, v}
  OpOf <- MCOpOf
  Hosts = {h, k}
  HostOf <- MCHostOf
  MaxConcurrent = 2
  Bound = 1
  Usages = {1, 2}
  NoRun = NoRun
PROPERTIES StaleVouchIsNoticed SlotsAreReturned CostsAreCharged
CHECK_DEADLOCK FALSE

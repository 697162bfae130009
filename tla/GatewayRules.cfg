\* Two operations of different jobs, three runs on two hosts, capacity one; room
\* for two full rows of three; two grants, two declarations.
SPECIFICATION PartsSpec
CONSTANTS
  None = None
  a = a
  b = b
  u = u
  v = v
  w = w
  h = h
  k = k
  Ops = {a, b}
  JobOf <- MCTwoJobs
  Runs = {u, v, w}
  OpOf <- MCOpOf
  Hosts = {h, k}
  HostOf <- MCHostOf
  MaxConcurrent = 1
  Bound = 1
  Usages = {1, 2}
  NoRun = NoRun
  o1 = o1
  o2 = o2
  o3 = o3
  p1 = p1
  p2 = p2
  d1 = d1
  d2 = d2
  GrantOps = {p1, p2}
  Declarations = {d1, d2}
  Expiry <- MCExpiry
  Span = 2
  Window = 2
  IdentityExpiry = 5
  ControlExpiry = 6
  MaxTime = 6
  Operations = {o1, o2, o3}
  Anchors = {o1, o3}
  Room = 26
  ClockBytes = 2
  MaxFixed = 2
  Fixed <- MCFixed
  NameBytes <- MCNameBytes
  PartBound <- MCBound
INVARIANTS SentOnce LedgerAgreesWithEvidence EveryOutcomeFits
PROPERTIES SendsUnderAuthority ImplementsPaidOperation GrantsHold
CHECK_DEADLOCK FALSE

CONSTANTS
  a = a  b = b  c = c  x = x
  ka = ka  kb = kb  kx = kx
  n1 = n1
  v1 = v1  v2 = v2
  r1 = r1  r2 = r2
  None = None
  RuleIds = {a, b, c}
  WlIds = {x}
  Keys = {ka, kb, kx}
  KeyOf <- Same
  UniqueKeys = {ka}
  Vals = {v1, v2}
  Nodes = {n1}
  Requests = {r1, r2}
  Schedulers = {"checker", "cleaner"}
  Expiring = {c}
  RetryCount = 0
  OfflineThreshold = 1
  MaxBatch = 2
  MaxRequests = 2
  MaxFaults = 0
  MaxRestarts = 0
SPECIFICATION Spec
SYMMETRY Alike
CHECK_DEADLOCK FALSE
INVARIANTS CalmExact DisabledStaysOff

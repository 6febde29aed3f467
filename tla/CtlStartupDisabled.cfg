CONSTANTS
  a = a  b = b  c = c  x = x
  ka = ka  kb = kb  kx = kx
  n1 = n1
  v1 = v1  v2 = v2
  r1 = r1  r2 = r2
  None = None
  RuleIds = {a, b}
  WlIds = {x}
  Keys = {ka, kb, kx}
  KeyOf <- Same
  UniqueKeys = {}
  Vals = {v1}
  Nodes = {n1}
  Requests = {r1}
  Schedulers = {"checker", "health"}
  Expiring = {b}
  RetryCount = 0
  OfflineThreshold = 1
  MaxBatch = 1
  MaxRequests = 2
  MaxFaults = 1
  MaxRestarts = 1
SPECIFICATION Spec
CHECK_DEADLOCK FALSE
INVARIANT DisabledStaysOff

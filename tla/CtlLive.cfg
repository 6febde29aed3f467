CONSTANTS
  a = a  b = b  c = c  x = x
  ka = ka  kb = kb  kx = kx
  n1 = n1
  v1 = v1  v2 = v2
  r1 = r1  r2 = r2
  None = None
  RuleIds = {a}
  WlIds = {x}
  Keys = {ka, kb, kx}
  KeyOf <- Apart
  UniqueKeys = {}
  Vals = {v1}
  Nodes = {n1}
  Requests = {r1}
  Schedulers = {"checker", "health"}
  Expiring = {}
  RetryCount = 1
  OfflineThreshold = 1
  MaxBatch = 1
  MaxRequests = 1
  MaxFaults = 1
  MaxRestarts = 1
SPECIFICATION RunningSpec
CHECK_DEADLOCK FALSE
PROPERTY Returns
PROPERTY CountsConverge

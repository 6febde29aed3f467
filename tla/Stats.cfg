CONSTANTS
  n1 = n1  n2 = n2  r1 = r1
  Configs = {{}, {n1}, {n1, n2}}
  Rules = {r1}
  StaleAfter = 1
  MaxHits = 1
  NoTime = NoTime
SPECIFICATION Spec
INVARIANTS Covered ZeroIsZero FreshWhenSaid
PROPERTIES StopReturns Recovers
